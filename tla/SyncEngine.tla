------------------------------ MODULE SyncEngine ------------------------------
(***************************************************************************)
(* Devices of scrigno-client editing documents offline and synchronising   *)
(* through the server.  The server side is the compare-and-set register of *)
(* DocRegister (which DocServer is shown to implement) with its change     *)
(* feed and its blob table; the device side is vault.rs and sync.rs, one   *)
(* action per committed SQLite write, request or answer.                   *)
(*                                                                         *)
(* A document keeps for life the blob it was created with, so blobs are    *)
(* named by their document.  Metadata is the number of the local edit that *)
(* wrote it and the version it was sealed for; edit numbers grow with      *)
(* time, so they also stand for updated_at of a dirty row.                 *)
(***************************************************************************)
EXTENDS Integers, Sequences, FiniteSets, SequencesExt, FeedPage

CONSTANTS
  Devices,
  Docs,           \* document ids the devices may generate
  Slots,          \* requests that may be in progress at the server at once
  NoBlob, NoMeta, \* NULL and empty metadata
  PageLimit,      \* sync.rs: PAGE_LIMIT
  MaxRounds,      \* sync.rs: MAX_ROUNDS
  MaxAdds,        \* bound: documents the users add
  MaxEdits,       \* bound: edits the users make (copies need no permission)
  MaxSeq,         \* bound: writes the server accepts
  MaxInterrupts,  \* bound: syncs cut short by a crash or a network error
  MaxCollects,    \* bound: blobs the garbage collector deletes
  DeleteUnpushed, \* users delete documents that were never synchronised
  TightCache,     \* blobs that may not be evicted can fill the cache
  Browsing        \* users open documents and move the cache limit

ASSUME LimitsArePositive == {PageLimit, MaxRounds} \subseteq Nat \ {0}
ASSUME BoundsAreNat == {MaxAdds, MaxEdits, MaxSeq, MaxInterrupts, MaxCollects} \subseteq Nat
ASSUME SwitchesAreBoolean == {DeleteUnpushed, TightCache, Browsing} \subseteq BOOLEAN
ASSUME DocsAreFinite == IsFiniteSet(Docs)

VARIABLES
  doc, call,    \* the server: see DocRegister
  blob,         \* blob rows on the server
  row,          \* [Devices -> [Docs -> local row]], SQLite
  cursor,       \* [Devices -> Nat], SQLite
  cached,       \* [Devices -> SUBSET Docs], blob files on the device
  task,         \* [Devices -> what sync() is doing], in memory
  edits,        \* number of edits so far
  replaced,     \* edits a user knowingly wrote over or deleted
  interrupts, collects

server  == <<doc, call>>
local   == <<row, cursor, cached>>
history == <<edits, replaced>>
bounds  == <<interrupts, collects>>
vars    == <<server, blob, local, task, history, bounds>>

Meta == [edit : Nat, sealed : Nat]

ASSUME NullsAreNoValues == NoBlob \notin Docs /\ NoMeta \notin Meta

Register == INSTANCE DocRegister WITH Reqs <- Slots, Blobs <- Docs, Metas <- Meta

\* A row has a blob unless it is a tombstone or not there.
LocalRow == {r \in [version : Nat, base : Nat, blob : Docs \cup {NoBlob},
                    meta : Meta \cup {NoMeta}, deleted : BOOLEAN, dirty : BOOLEAN] :
               (r.blob # NoBlob) <=> (r.version > 0 /\ ~r.deleted)}

NoLocalRow == [version |-> 0, base |-> 0, blob |-> NoBlob, meta |-> NoMeta,
               deleted |-> FALSE, dirty |-> FALSE]

Resting == [pc |-> "idle"]

Init == /\ Register!Init
        /\ blob = {}
        /\ row = [c \in Devices |-> [d \in Docs |-> NoLocalRow]]
        /\ cursor = [c \in Devices |-> 0]
        /\ cached = [c \in Devices |-> {}]
        /\ task = [c \in Devices |-> Resting]
        /\ edits = 0 /\ replaced = {}
        /\ interrupts = 0 /\ collects = 0

Present(r)   == r.version > 0
LiveRow(r)   == Present(r) /\ ~r.deleted
Idle(c)      == task[c].pc = "idle"
Become(c, t) == task' = [task EXCEPT ![c] = t]

\* UUIDs: an id nobody has used.
FreshDocs == {d \in Docs : /\ ~Register!Exists(doc[d]) /\ d \notin blob
                           /\ \A c \in Devices : ~Present(row[c][d])}

EvictableThoughDirty(rows, files) == files

\* cache_evictable_by_lru: no dirty row points at the blob.
Evictable(rows, files) ==
  {b \in files : \A d \in Docs : rows[d].dirty => rows[d].blob # b}

\* The cache holds files, less what evict_cache_over_limit removes: how large
\* blobs are and how much fits is left open.
Cache(c, rows, files) ==
  \E gone \in SUBSET Evictable(rows, files) : cached' = [cached EXCEPT ![c] = files \ gone]

\* encrypt_new_document: a row never pushed, its blob in the cache; fetched is
\* the blob it was copied from.
NewDocument(c, d, fetched) ==
  /\ row' = [row EXCEPT ![c][d] =
               [version |-> 1, base |-> 0, blob |-> d, deleted |-> FALSE,
                dirty |-> TRUE, meta |-> [edit |-> edits + 1, sealed |-> 1]]]
  /\ Cache(c, row'[c], cached[c] \cup fetched \cup {d})
  /\ edits' = edits + 1
-------------------------------------------------------------------------------
(* What a user does between two syncs; the vault mutex keeps a command and *)
(* a sync of one device apart.                                             *)

Add(c) ==
  /\ Idle(c) /\ edits < MaxEdits
  /\ Cardinality(Docs \ FreshDocs) < MaxAdds
  /\ \E d \in FreshDocs : NewDocument(c, d, {})
  /\ UNCHANGED <<server, blob, cursor, task, replaced, bounds>>

NextOfVersion(r) == r.version + 1

\* Metadata is sealed for the version the server will assign, base + 1, no
\* matter how many edits come before the next push.
NextVersion(r) == r.base + 1

UpdateMeta(c, d) ==
  /\ Idle(c) /\ edits < MaxEdits
  /\ LET r == row[c][d] IN
     /\ LiveRow(r)
     /\ row' = [row EXCEPT ![c][d] =
                 [r EXCEPT !.version = NextVersion(r), !.dirty = TRUE,
                           !.meta = [edit |-> edits + 1, sealed |-> NextVersion(r)]]]
     /\ replaced' = replaced \cup {r.meta.edit}
  /\ edits' = edits + 1
  /\ UNCHANGED <<server, blob, cursor, cached, task, bounds>>

\* The deletion's own number carries no content: it is replaced from the start.
Delete(c, d) ==
  /\ Idle(c) /\ edits < MaxEdits
  /\ LET r == row[c][d] IN
     /\ LiveRow(r) /\ (r.base > 0 \/ DeleteUnpushed)
     /\ row' = [row EXCEPT ![c][d] =
                 [r EXCEPT !.version = NextVersion(r), !.dirty = TRUE,
                           !.deleted = TRUE, !.blob = NoBlob,
                           !.meta = [edit |-> edits + 1, sealed |-> NextVersion(r)]]]
     /\ replaced' = replaced \cup {r.meta.edit, edits + 1}
  /\ edits' = edits + 1
  /\ UNCHANGED <<server, blob, cursor, cached, task, bounds>>
\* open: ensure_cached downloads what the cache does not hold.
Open(c, d) ==
  /\ Browsing /\ Idle(c)
  /\ LiveRow(row[c][d]) /\ row[c][d].blob \in blob \ cached[c]
  /\ Cache(c, row[c], cached[c] \cup {row[c][d].blob})
  /\ UNCHANGED <<server, blob, row, cursor, task, history, bounds>>

\* set_cache_limit_mb.
SetCacheLimit(c) ==
  /\ Browsing /\ Idle(c)
  /\ Cache(c, row[c], cached[c])
  /\ UNCHANGED <<server, blob, row, cursor, task, history, bounds>>
-------------------------------------------------------------------------------
(* Pull *)

StartSync(c) ==
  /\ Idle(c)
  /\ Become(c, [pc |-> "pull", round |-> 1])
  /\ UNCHANGED <<server, blob, local, history, bounds>>

\* GET /v1/changes?since=cursor&limit=PageLimit.
GetPage(c) ==
  /\ task[c].pc = "pull"
  /\ LET page == Changes(doc, cursor[c], PageLimit)
     IN Become(c, [pc |-> "apply", round |-> task[c].round,
                   items |-> page.items, next |-> page.next, more |-> page.more])
  /\ UNCHANGED <<server, blob, local, history, bounds>>

ConflictingByVersion(r, rec) == r.dirty /\ rec.version > r.version

Conflicting(r, rec) == r.dirty /\ rec.version > r.base

PulledBehind(r, rec) ==
  [version |-> rec.version, base |-> rec.version - 1, blob |-> rec.blob,
   meta |-> rec.meta, deleted |-> rec.deleted, dirty |-> FALSE]

PulledWithoutBlob(r, rec) ==
  [version |-> rec.version, base |-> rec.version, blob |-> r.blob,
   meta |-> rec.meta, deleted |-> rec.deleted, dirty |-> FALSE]

PulledWithoutMeta(r, rec) ==
  [version |-> rec.version, base |-> rec.version, blob |-> rec.blob,
   meta |-> r.meta, deleted |-> rec.deleted, dirty |-> FALSE]

\* The local row r after the server's record rec was pulled over it.
Pulled(r, rec) ==
  [version |-> rec.version, base |-> rec.version, blob |-> rec.blob,
   meta |-> rec.meta, deleted |-> rec.deleted, dirty |-> FALSE]

Superseded(r, rec) == r.blob # NoBlob /\ r.blob # rec.blob

\* A record of the page is applied unless the row has an edit the server has
\* not moved past.
Applies(r, rec) == ~r.dirty \/ Conflicting(r, rec)

\* apply_pulled_record, first half: a cached blob the server's row no longer
\* points at is removed, for good, before the row is.
DropBlob(c) ==
  /\ task[c].pc = "apply" /\ task[c].items # <<>>
  /\ LET item == Head(task[c].items)
         r    == row[c][item.id]
     IN /\ Applies(r, item.rec) /\ Superseded(r, item.rec)
        /\ r.blob \in cached[c]
        /\ cached' = [cached EXCEPT ![c] = @ \ {r.blob}]
  /\ UNCHANGED <<server, blob, row, cursor, task, history, bounds>>

\* apply_pulled_record, second half: the server's row replaces the local one.
Overwrite(c, d, rec) ==
  /\ Superseded(row[c][d], rec) => row[c][d].blob \notin cached[c]
  /\ row' = [row EXCEPT ![c][d] = Pulled(@, rec)]

LastWriterWins(r) == FALSE

\* A pending deletion that loses needs no copy.
NeedsCopy(r) == ~r.deleted

\* One record of the page.  Of a dirty row the server has moved past, the
\* server's version is committed first and the edit is kept in memory until
\* its copy is made.
ApplyItem(c) ==
  /\ task[c].pc = "apply" /\ task[c].items # <<>>
  /\ LET t    == [task[c] EXCEPT !.items = Tail(@)]
         item == Head(task[c].items)
         r    == row[c][item.id]
     IN \/ /\ Conflicting(r, item.rec)
           /\ Overwrite(c, item.id, item.rec)
           /\ Become(c, IF NeedsCopy(r)
                        THEN [pc |-> "copy", page |-> t, of |-> item.id, edit |-> r.meta.edit]
                        ELSE t)
        \/ /\ r.dirty /\ ~Conflicting(r, item.rec)
           /\ Become(c, t)
           /\ UNCHANGED row
        \/ /\ ~r.dirty
           /\ Overwrite(c, item.id, item.rec)
           /\ Become(c, t)
  /\ UNCHANGED <<server, blob, cursor, cached, history, bounds>>

\* create_conflict_copy: the old blob, from the cache or the server, becomes
\* the content of a new document that carries the edit.
MakeCopy(c) ==
  /\ task[c].pc = "copy"
  /\ task[c].of \in cached[c] \cup blob
  /\ \E d \in FreshDocs : NewDocument(c, d, {task[c].of})
  /\ replaced' = replaced \cup {task[c].edit}
  /\ Become(c, task[c].page)
  /\ UNCHANGED <<server, blob, cursor, bounds>>

\* The old blob is nowhere to be found: sync() returns the error.
CopyFails(c) ==
  /\ task[c].pc = "copy"
  /\ task[c].of \notin cached[c] \cup blob
  /\ Become(c, Resting)
  /\ UNCHANGED <<server, blob, local, history, bounds>>

\* ensure_cached downloads the old blob and, with a cache full of blobs that
\* must stay, evicts it before it can be read: sync() returns the error.
CopyEvicted(c) ==
  /\ TightCache
  /\ task[c].pc = "copy" /\ task[c].of \in blob \ cached[c]
  /\ Cache(c, row[c], cached[c])
  /\ Become(c, Resting)
  /\ UNCHANGED <<server, blob, row, cursor, history, bounds>>

DirtyByAge(c) ==
  SortedBy([d \in {e \in Docs : row[c][e].dirty} |-> row[c][d].meta.edit])

\* The cursor moves only when the whole page is applied.
EndPage(c) ==
  /\ task[c].pc = "apply" /\ task[c].items = <<>>
  /\ cursor' = [cursor EXCEPT ![c] = task[c].next]
  /\ Become(c, IF task[c].more THEN [pc |-> "pull", round |-> task[c].round]
               ELSE [pc |-> "push", round |-> task[c].round,
                     queue |-> DirtyByAge(c), conflict |-> FALSE])
  /\ UNCHANGED <<server, blob, row, cached, history, bounds>>
-------------------------------------------------------------------------------
(* Push *)

\* put_blob, for a row that was never pushed; an upload of what is there
\* already changes nothing, and a file that is not there ends the sync.
Upload(c) ==
  /\ task[c].pc = "push" /\ task[c].queue # <<>>
  /\ LET d == Head(task[c].queue) IN
     /\ ~row[c][d].deleted /\ row[c][d].base = 0
     /\ blob' = blob \cup ({d} \cap cached[c])
     /\ Become(c, IF d \in cached[c] THEN [task[c] EXCEPT !.pc = "send"] ELSE Resting)
  /\ UNCHANGED <<server, local, history, bounds>>

RequestFor(d, r) ==
  IF r.deleted
  THEN [op |-> "delete", id |-> d, ifm |-> r.base, blob |-> NoBlob, meta |-> NoMeta]
  ELSE [op |-> "put", id |-> d, ifm |-> r.base, blob |-> r.blob, meta |-> r.meta]

\* PUT or DELETE with If-Match: base_version.  Neither is ever retried.
Send(c) ==
  /\ task[c].pc \in {"push", "send"} /\ task[c].queue # <<>>
  /\ LET d == Head(task[c].queue)
         r == row[c][d]
     IN /\ task[c].pc = "send" \/ r.deleted \/ r.base > 0
        /\ \E s \in Slots :
             /\ call[s] = Register!Quiet
             /\ call' = [call EXCEPT ![s] = Register!Open(RequestFor(d, r))]
             /\ Become(c, [pc |-> "await", slot |-> s, round |-> task[c].round,
                           queue |-> task[c].queue, conflict |-> task[c].conflict])
  /\ UNCHANGED <<doc, blob, local, history, bounds>>

Answer(c) == call[task[c].slot]

\* The accepted row is clean at the version the server assigned; it keeps its
\* own metadata.  A 412 is remembered and the queue goes on; any other answer
\* ends the sync.
Receive(c) ==
  /\ task[c].pc = "await" /\ Answer(c).pc = "answered"
  /\ LET d    == Head(task[c].queue)
         code == Answer(c).code
         rec  == Answer(c).row
         t    == [pc |-> "push", round |-> task[c].round,
                  queue |-> Tail(task[c].queue), conflict |-> task[c].conflict]
     IN \/ /\ code \in {"created", "updated"}
           /\ row' = [row EXCEPT ![c][d] =
                        [@ EXCEPT !.version = rec.version, !.base = rec.version,
                                  !.blob = rec.blob, !.deleted = rec.deleted,
                                  !.dirty = FALSE]]
           /\ Become(c, t)
        \/ /\ code = "mismatch"
           /\ Become(c, [t EXCEPT !.conflict = TRUE])
           /\ UNCHANGED row
        \/ /\ code \in {"not_found", "blob_not_found"}
           /\ Become(c, Resting)
           /\ UNCHANGED row
  /\ Register!Return(task[c].slot)
  /\ UNCHANGED <<blob, cursor, cached, history, bounds>>

\* Another round after a 412, up to MaxRounds; then sync() returns, with
\* Contention or, after the prefetch, with its report.
EndPush(c) ==
  /\ task[c].pc = "push" /\ task[c].queue = <<>>
  /\ Become(c, IF task[c].conflict /\ task[c].round < MaxRounds
               THEN [pc |-> "pull", round |-> task[c].round + 1]
               ELSE Resting)
  /\ UNCHANGED <<server, blob, local, history, bounds>>

\* The app is killed, or a request fails or times out: sync() is over and only
\* what SQLite holds remains.  A request already sent is not withdrawn.
Interrupt(c) ==
  /\ ~Idle(c) /\ interrupts < MaxInterrupts
  /\ interrupts' = interrupts + 1
  /\ Become(c, Resting)
  /\ UNCHANGED <<server, blob, local, history, collects>>
-------------------------------------------------------------------------------
(* The server *)

\* One writer at a time: numbers become visible in their order.  ChangeFeed
\* shows what happens to a reader when they do not.
ServerApply(s) ==
  /\ Register!Apply(s)
  /\ call[s].q.op = "put" => call[s].q.blob \in blob
  /\ call'[s].code # "error"
  /\ doc'[call[s].q.id].seq = 1 + Max({doc[d].seq : d \in Docs})
  /\ UNCHANGED <<blob, local, task, history, bounds>>

ServerRefuse(s) ==
  /\ Register!Refuse(s)
  /\ call[s].q.op = "put" => call[s].q.blob \in blob
  /\ UNCHANGED <<blob, local, task, history, bounds>>

ServerNotFound(s) ==
  /\ Register!NotFound(s)
  /\ call[s].q.op = "put" => call[s].q.blob \notin blob
  /\ UNCHANGED <<blob, local, task, history, bounds>>

\* The answer to a caller that is no longer there.
Unheard(s) ==
  /\ \A c \in Devices : task[c].pc = "await" => task[c].slot # s
  /\ Register!Return(s)
  /\ UNCHANGED <<blob, local, task, history, bounds>>

AnyBlob(d) == TRUE

Unreferenced(d) == \A e \in Docs : doc[e].blob # d

\* The collector deletes a blob over 24 hours old that no live row points at;
\* a day may pass between any two steps.
Collect(d) ==
  /\ collects < MaxCollects
  /\ d \in blob /\ Unreferenced(d)
  /\ blob' = blob \ {d}
  /\ collects' = collects + 1
  /\ UNCHANGED <<server, local, task, history, interrupts>>

UserStep(c) == \/ Add(c) \/ SetCacheLimit(c)
               \/ \E d \in Docs : UpdateMeta(c, d) \/ Delete(c, d) \/ Open(c, d)

SyncStep(c) == \/ GetPage(c) \/ DropBlob(c) \/ ApplyItem(c)
               \/ MakeCopy(c) \/ CopyFails(c) \/ CopyEvicted(c)
               \/ EndPage(c) \/ Upload(c) \/ Send(c) \/ Receive(c) \/ EndPush(c)

ServerStep(s) == \/ ServerApply(s) \/ ServerRefuse(s) \/ ServerNotFound(s) \/ Unheard(s)

Next == \/ \E c \in Devices : UserStep(c) \/ StartSync(c) \/ SyncStep(c) \/ Interrupt(c)
        \/ \E s \in Slots : ServerStep(s)
        \/ \E d \in Docs : Collect(d)

Spec == Init /\ [][Next]_vars

\* A sync that was started runs, the server answers, and every device starts
\* syncs again and again (foreground, pull-to-refresh, after a change).
Fairness == /\ \A c \in Devices : WF_vars(StartSync(c)) /\ WF_vars(SyncStep(c))
            /\ \A s \in Slots : WF_vars(ServerStep(s))

LiveSpec == Spec /\ Fairness
-------------------------------------------------------------------------------
Pages == Seq([id : Docs, rec : Register!Row])
Rounds == 1..MaxRounds
PageTask  == [pc : {"apply"}, round : Rounds, items : Pages, next : Nat, more : BOOLEAN]
Task == {Resting}
        \cup [pc : {"pull"}, round : Rounds]
        \cup PageTask
        \cup [pc : {"copy"}, page : PageTask, of : Docs, edit : Nat]
        \cup [pc : {"push", "send"}, round : Rounds, queue : Seq(Docs), conflict : BOOLEAN]
        \cup [pc : {"await"}, slot : Slots, round : Rounds, queue : Seq(Docs), conflict : BOOLEAN]

Call == {Register!Quiet}
        \cup [pc : {"open"}, q : Register!Request]
        \cup [pc : {"answered"}, q : Register!Request, code : Register!Codes, row : Register!Row]

\* Every variable has its type (store.rs, sync.rs): a local row has a blob
\* exactly when it is there and no tombstone.
TypeOK == /\ doc \in [Docs -> Register!Row]
          /\ call \in [Slots -> Call]
          /\ blob \subseteq Docs
          /\ row \in [Devices -> [Docs -> LocalRow]]
          /\ cursor \in [Devices -> Nat]
          /\ cached \in [Devices -> SUBSET Docs]
          /\ task \in [Devices -> Task]
          /\ edits \in Nat /\ replaced \subseteq 1..edits
          /\ interrupts \in 0..MaxInterrupts /\ collects \in 0..MaxCollects

\* Metadata opens only under the version it was sealed for (CRYPTO 4.3): every
\* live document, local or on the server, carries its own version's seal,
\* however many edits, conflicts and repeated pushes led to it.
Readable ==
  /\ \A d \in Docs : Register!Live(doc[d]) => doc[d].meta.sealed = doc[d].version
  /\ \A c \in Devices, d \in Docs :
       LiveRow(row[c][d]) => row[c][d].meta.sealed = row[c][d].version

\* A clean live row at the server's current version is the server's row: a
\* push never marks clean what the server does not have.
CleanIsCommitted ==
  \A c \in Devices, d \in Docs :
    LET r == row[c][d] IN
    (LiveRow(r) /\ ~r.dirty /\ r.version = doc[d].version)
      => r.meta = doc[d].meta /\ r.blob = doc[d].blob /\ ~doc[d].deleted

\* A device whose cursor has passed the row of a document has that row, or a
\* pending edit based on it: the feed and the pages skip nothing.
CursorCovers ==
  \A c \in Devices, d \in Docs :
    doc[d].seq <= cursor[c] => row[c][d].base = doc[d].version

\* The content of a document the server has never acknowledged is still on
\* the device that made it, whatever is evicted, pulled or cut short, unless
\* another device deleted the document: its tombstone takes the blob away
\* before it takes the row.
UnpushedBlobKept ==
  \A c \in Devices, d \in Docs :
    (LiveRow(row[c][d]) /\ row[c][d].base = 0) => d \in cached[c] \/ doc[d].deleted

\* A live document on the server has its blob there (ARCHITECTURE section 3:
\* "a document never points at a missing blob").
ServerBlobKept == \A d \in Docs : Register!Live(doc[d]) => d \in blob

Onward == \A c \in Devices : /\ cursor'[c] >= cursor[c]
                             /\ \A d \in Docs : row'[c][d].base >= row[c][d].base

\* The version a device has confirmed and its cursor never move back, not even
\* when a page is applied that was fetched before other devices wrote.
NeverRewinds == [][Onward]_<<cursor, row>>

\* The content of every edit is still somewhere unless a user wrote over it:
\* on the server, in a pending row, or in a conflict copy being made
\* (ARCHITECTURE section 5: "No data is ever lost silently").
NoEditLost ==
  \A e \in (1..edits) \ replaced :
    \/ \E d \in Docs : Register!Live(doc[d]) /\ doc[d].meta.edit = e
    \/ \E c \in Devices, d \in Docs : LiveRow(row[c][d]) /\ row[c][d].dirty /\ row[c][d].meta.edit = e
    \/ \E c \in Devices : task[c].pc = "copy" /\ task[c].edit = e

\* Every device ends up with the server's documents and nothing pending.
InAgreement ==
  \A c \in Devices, d \in Docs :
    ~row[c][d].dirty /\ row[c][d].version = doc[d].version

EventuallyAgree == <>[]InAgreement

\* Every call of sync() returns.
SyncReturns == \A c \in Devices : []<>Idle(c)
===============================================================================
