------------------------------ MODULE BlobCache -------------------------------
(***************************************************************************)
(* The blob cache of one device (scrigno-client: vault.rs, store.rs): the  *)
(* files in blobs/, the blob_cache table that counts them, the limit, and  *)
(* the index in memory.  One operation runs at a time, because commands    *)
(* and syncs hold the vault slot; between any two of its steps the process *)
(* may be killed, or the power may go and take with it whatever was not    *)
(* flushed.                                                                *)
(*                                                                         *)
(* A document has one blob for life, so a blob is named by its document.   *)
(* What a file holds is the number of bytes of the blob's ciphertext that  *)
(* are on disk; BlobStream says what can be read from that much of it.     *)
(* Temporary files are left out: their names are random and nothing but    *)
(* the operation that made them ever looks at them.                        *)
(***************************************************************************)
EXTENDS Integers, Sequences, FiniteSets, SequencesExt, BlobStream, TLC

CONSTANTS
  Docs,
  Remote,     \* documents other devices made and pushed
  Limits,     \* values of cache_limit_mb, in bytes
  NoDoc,
  Cuts,       \* bound: the lengths at which a power loss may cut a file
  MaxCrashes  \* bound: kills and power losses

ASSUME DocsAreBlobs == Remote \subseteq Docs /\ Docs \subseteq Blobs /\ NoDoc \notin Docs
ASSUME DocsAreFinite == IsFiniteSet(Docs)
ASSUME BoundsAreNaturals == Limits \cup Cuts \cup {MaxCrashes} \subseteq Nat

VARIABLES
  row,     \* [Docs -> status of the local row], SQLite
  keep,    \* documents marked keep_offline, SQLite
  table,   \* blob_cache, SQLite: blobs by last_access, the oldest first
  limit,   \* kv: cache_limit_mb
  file,    \* [Docs -> bytes of the blob's file on disk, or NoFile]
  synced,  \* files whose bytes a power loss cannot take
  named,   \* files whose names it cannot take
  lost,    \* history: blobs in the table whose file's name a power loss took
  stored,  \* documents the server has, with their blobs
  index,   \* the index of an unlocked vault: shown as cached, uncached or not at all
  op,      \* the operation in progress, in memory
  crashes

disk == <<row, keep, table, limit, file, synced, named, lost>>
vars == <<disk, stored, index, op, crashes>>

NoFile == -1

\* No push of a "new" row was ever answered, "dirty" has a pending edit,
\* "removed" a pending deletion, "gone" is a tombstone the server has too.
Status == {"none", "new", "clean", "dirty", "removed", "gone"}

Live(d) == row[d] \in {"new", "clean", "dirty"}

\* The slot is free: no operation, or no unlocked vault to run one on.
Idle == [pc |-> "idle", why |-> "none", doc |-> NoDoc, from |-> NoDoc, queue |-> <<>>,
         total |-> 0, victim |-> NoDoc]
Off  == [Idle EXCEPT !.pc = "off"]

Hidden == [d \in Docs |-> "absent"]

Init == /\ row = [d \in Docs |-> "none"] /\ keep = {}
        /\ table = <<>> /\ limit \in Limits
        /\ file = [d \in Docs |-> NoFile] /\ synced = {} /\ named = {} /\ lost = {}
        /\ stored = Remote
        /\ index = Hidden
        /\ op = Off
        /\ crashes = 0

\* How many bytes the files of docs have, all told.
TotalSize(docs) == Cardinality(UNION {{d} \X (1..Size(d)) : d \in docs})

Cached == ToSet(table)

\* row_to_summary and refresh_cached_flag: what the index shows of a live row.
Shown(d, tab) == IF Contains(tab, d) THEN "cached" ELSE "uncached"

Protected(d) == Live(d) /\ (d \in keep \/ row[d] \in {"new", "dirty"})

EvictableThoughKept(d) == ~(Live(d) /\ row[d] \in {"new", "dirty"})

\* cache_evictable_by_lru: no row that is dirty or kept offline has the blob.
Evictable(d) == ~Protected(d)

\* Of these, the blob used least recently is the i-th of the table.
LeastRecent(i) == Evictable(table[i]) /\ \A j \in 1..i - 1 : ~Evictable(table[j])

\* cache_remove.
Without(tab, d) ==
  IF Contains(tab, d) THEN RemoveAt(tab, CHOOSE i \in DOMAIN tab : tab[i] = d) ELSE tab

PutFirst(tab, d) == <<d>> \o Without(tab, d)

PutAgain(tab, d) == Append(tab, d)

\* cache_put and cache_touch: the blob is now the one used last.
Put(tab, d) == Append(Without(tab, d), d)
-------------------------------------------------------------------------------
(* evict_cache_over_limit, the end of every operation that fills the cache *)

\* The total is read once, before the first deletion.
Evict(o, tab) == [o EXCEPT !.pc = "evict", !.total = TotalSize(ToSet(tab))]

\* cache_remove of the blob used least recently.
EvictRow ==
  /\ op.pc = "evict" /\ op.total > limit
  /\ \E i \in DOMAIN table :
       /\ LeastRecent(i)
       /\ table' = Without(table, table[i])
       /\ op' = [op EXCEPT !.pc = "unlink", !.victim = table[i]]
  /\ UNCHANGED <<row, keep, limit, file, synced, named, lost, stored, index, crashes>>

NotRefreshed(d) == index

\* refresh_cached_flag_by_blob, of a blob that is no longer cached.
Refreshed(d) == [index EXCEPT ![d] = IF @ = "absent" THEN @ ELSE "uncached"]

Untouched(d) == file

Removed(d) == [file EXCEPT ![d] = NoFile]

\* Its file goes after its row.  A pulled tombstone removes the blob the same way.
Unlink ==
  /\ op.pc = "unlink"
  /\ file' = Removed(op.victim)
  /\ synced' = synced \ {op.victim} /\ named' = named \ {op.victim} /\ lost' = lost \ {op.victim}
  /\ \/ /\ op.why = "tombstone"
        /\ op' = [op EXCEPT !.pc = "overwrite", !.victim = NoDoc]
        /\ UNCHANGED index
     \/ /\ op.why # "tombstone"
        /\ op' = [op EXCEPT !.pc = "evict", !.victim = NoDoc, !.total = @ - Size(op.victim)]
        /\ index' = Refreshed(op.victim)
  /\ UNCHANGED <<row, keep, table, limit, stored, crashes>>

\* The cache fits, or nothing that may go is left.  What the operation does
\* next: read the blob, look at the next one to prefetch, or return.
Evicted ==
  /\ op.pc = "evict"
  /\ op.total <= limit \/ \A d \in Cached : ~Evictable(d)
  /\ \/ /\ op.why \in {"open", "copy"}
        /\ op' = [op EXCEPT !.pc = "read", !.total = 0]
        /\ UNCHANGED index
     \/ /\ op.why = "prefetch"
        /\ op' = [op EXCEPT !.pc = "prefetch", !.total = 0, !.doc = NoDoc, !.queue = Tail(@)]
        /\ index' = [index EXCEPT ![op.doc] = Shown(op.doc, table)]
     \/ /\ op.why = "add"
        /\ op' = Idle
        /\ index' = [index EXCEPT ![op.doc] = "cached"]
     \/ /\ op.why = "limit"
        /\ op' = Idle
        /\ UNCHANGED index
  /\ UNCHANGED <<disk, stored, crashes>>
-------------------------------------------------------------------------------
(* ensure_cached *)

\* A file that is there is taken as it is.
Ensure(o, d) ==
  [o EXCEPT !.doc = d, !.pc = IF Contains(table, d) /\ file[d] # NoFile THEN "read" ELSE "fetch"]

\* get_blob_to_file and the rename: what arrives is checked against the ETag,
\* but not flushed.
Fetch ==
  /\ op.pc = "fetch" /\ op.doc \in stored
  /\ file' = [file EXCEPT ![op.doc] = Size(op.doc)]
  /\ synced' = synced \ {op.doc} /\ lost' = lost \ {op.doc}
  /\ op' = [op EXCEPT !.pc = "enter"]
  /\ UNCHANGED <<row, keep, table, limit, named, stored, index, crashes>>

\* Every attempt failed, or the bytes were not the ETag's: the operation fails.
FetchFails ==
  /\ op.pc = "fetch"
  /\ op' = Idle
  /\ UNCHANGED <<disk, stored, index, crashes>>

\* The row of the blob is committed, then the cache is evicted from: of this
\* very blob too, if that is what it takes.
Enter ==
  /\ op.pc = "enter"
  /\ table' = Put(table, op.doc)
  /\ op' = Evict(op, table')
  /\ UNCHANGED <<row, keep, limit, file, synced, named, lost, stored, index, crashes>>

\* All of the file is there; BlobStream shows that nothing less reads to the end.
Whole(d) == file[d] = Size(d)

\* open: the flag is refreshed, then the file is opened and decrypted into the
\* writer, and its row touched if all of it was good.  create_conflict_copy
\* reads the same way, into the encryptor of the new document.
Read ==
  /\ op.pc = "read"
  /\ index' = IF op.why = "open" THEN [index EXCEPT ![op.doc] = Shown(op.doc, table)] ELSE index
  /\ table' = IF op.why = "open" /\ Whole(op.doc) /\ Contains(table, op.doc)
              THEN Put(table, op.doc) ELSE table
  /\ op' = [op EXCEPT !.pc = "opened"]
  /\ UNCHANGED <<row, keep, limit, file, synced, named, lost, stored, crashes>>

\* Documents nobody has made yet.
Fresh == {d \in Docs \ Remote : row[d] = "none"}

\* open returns; a copy goes on if there is something to copy.
Opened ==
  /\ op.pc = "opened"
  /\ \/ /\ op.why = "copy" /\ Whole(op.doc)
        /\ \E d \in Fresh : op' = [Idle EXCEPT !.pc = "write", !.why = "add", !.doc = d, !.from = op.doc]
     \/ /\ op.why = "open" \/ ~Whole(op.doc)
        /\ op' = Idle
  /\ UNCHANGED <<disk, stored, index, crashes>>
-------------------------------------------------------------------------------
(* encrypt_new_document *)

FlushedLater(d) == synced \ {d}

\* sync_all comes before the rename.
Flushed(d) == synced \cup {d}

\* The encrypted file is complete and flushed when it gets its name.
Write ==
  /\ op.pc = "write"
  /\ file' = [file EXCEPT ![op.doc] = Size(op.doc)]
  /\ synced' = Flushed(op.doc) /\ lost' = lost \ {op.doc}
  /\ op' = [op EXCEPT !.pc = "record"]
  /\ UNCHANGED <<row, keep, table, limit, named, stored, index, crashes>>

\* Its row and its place in the cache are one transaction.
Record ==
  /\ op.pc = "record"
  /\ row' = [row EXCEPT ![op.doc] = "new"]
  /\ keep' = IF op.from \in keep THEN keep \cup {op.doc} ELSE keep
  /\ table' = Put(table, op.doc)
  /\ op' = Evict(op, table')
  /\ UNCHANGED <<limit, file, synced, named, lost, stored, index, crashes>>
-------------------------------------------------------------------------------
(* Commands *)

Add ==
  /\ op = Idle
  /\ \E d \in Fresh : op' = [Idle EXCEPT !.pc = "write", !.why = "add", !.doc = d]
  /\ UNCHANGED <<disk, stored, index, crashes>>

Open(d) ==
  /\ op = Idle /\ Live(d)
  /\ op' = Ensure([Idle EXCEPT !.why = "open"], d)
  /\ UNCHANGED <<disk, stored, index, crashes>>

UpdateMeta(d) ==
  /\ op = Idle /\ Live(d)
  /\ row' = [row EXCEPT ![d] = IF @ = "clean" THEN "dirty" ELSE @]
  /\ index' = [index EXCEPT ![d] = Shown(d, table)]
  /\ UNCHANGED <<keep, table, limit, file, synced, named, lost, stored, op, crashes>>

\* The blob stays in the cache until it is evicted.
Delete(d) ==
  /\ op = Idle /\ Live(d)
  /\ row' = [row EXCEPT ![d] = "removed"]
  /\ index' = [index EXCEPT ![d] = "absent"]
  /\ UNCHANGED <<keep, table, limit, file, synced, named, lost, stored, op, crashes>>

SetKeepOffline(d) ==
  /\ op = Idle /\ row[d] # "none"
  /\ keep' = IF d \in keep THEN keep \ {d} ELSE keep \cup {d}
  /\ UNCHANGED <<row, table, limit, file, synced, named, lost, stored, index, op, crashes>>

SetCacheLimit ==
  /\ op = Idle
  /\ limit' \in Limits
  /\ op' = Evict([Idle EXCEPT !.why = "limit"], table)
  /\ UNCHANGED <<row, keep, table, file, synced, named, lost, stored, index, crashes>>
-------------------------------------------------------------------------------
(* What a sync does to rows and blobs; SyncEngine has the protocol *)

\* put_blob sends the file.  The row becomes clean with the answer to the PUT,
\* which may be lost; the next PUT of that row is of a document the server has
\* already, and changes nothing.
Push(d) ==
  /\ op = Idle
  /\ \/ /\ row[d] = "new" /\ d \notin stored /\ file[d] # NoFile
        /\ stored' = stored \cup {d}
        /\ row' \in {row, [row EXCEPT ![d] = "clean"]}
     \/ /\ row[d] \in {"dirty", "removed"} /\ d \in stored
        /\ row' = [row EXCEPT ![d] = IF @ = "dirty" THEN "clean" ELSE "gone"]
        /\ UNCHANGED stored
  /\ UNCHANGED <<keep, table, limit, file, synced, named, lost, index, op, crashes>>

\* apply_pulled_record with a live record: the blob is the same one.  A pending
\* edit that lost is copied, while Docs has a document for the copy.
Pull(d) ==
  /\ op = Idle /\ d \in stored /\ row[d] # "gone"
  /\ row' = [row EXCEPT ![d] = "clean"]
  /\ index' = [index EXCEPT ![d] = Shown(d, table)]
  /\ op' = IF row[d] \in {"new", "dirty"} /\ Fresh # {}
           THEN Ensure([Idle EXCEPT !.why = "copy"], d) ELSE Idle
  /\ UNCHANGED <<keep, table, limit, file, synced, named, lost, stored, crashes>>

\* apply_pulled_record with another device's tombstone: the blob of a live row
\* goes first, then the row - one whose push was never answered, too.
PullTombstone(d) ==
  /\ op = Idle /\ d \in stored /\ row[d] # "gone"
  /\ IF Live(d) /\ Contains(table, d)
     THEN /\ table' = Without(table, d)
          /\ op' = [Idle EXCEPT !.pc = "unlink", !.why = "tombstone", !.doc = d, !.victim = d]
     ELSE /\ op' = [Idle EXCEPT !.pc = "overwrite", !.why = "tombstone", !.doc = d]
          /\ UNCHANGED table
  /\ UNCHANGED <<row, keep, limit, file, synced, named, lost, stored, index, crashes>>

Overwrite ==
  /\ op.pc = "overwrite"
  /\ row' = [row EXCEPT ![op.doc] = "gone"]
  /\ index' = [index EXCEPT ![op.doc] = "absent"]
  /\ op' = IF row[op.doc] \in {"new", "dirty"} /\ Fresh # {}
           THEN Ensure([Idle EXCEPT !.why = "copy"], op.doc) ELSE Idle
  /\ UNCHANGED <<keep, table, limit, file, synced, named, lost, stored, crashes>>

\* prefetch_keep_offline, the last step of a sync.
Wanted == {d \in keep : Live(d)}

Prefetch ==
  /\ op = Idle /\ Wanted # {}
  /\ op' = [Idle EXCEPT !.pc = "prefetch", !.why = "prefetch", !.queue = SetToSeq(Wanted)]
  /\ UNCHANGED <<disk, stored, index, crashes>>

PrefetchNext ==
  /\ op.pc = "prefetch"
  /\ op' = IF op.queue = <<>> THEN Idle
           ELSE IF Contains(table, Head(op.queue)) THEN [op EXCEPT !.queue = Tail(@)]
           ELSE Ensure(op, Head(op.queue))
  /\ UNCHANGED <<disk, stored, index, crashes>>
-------------------------------------------------------------------------------
(* Unlocking, locking, kills and power losses *)

\* rebuild_index.
Unlock ==
  /\ op = Off
  /\ index' = [d \in Docs |-> IF Live(d) THEN Shown(d, table) ELSE "absent"]
  /\ op' = Idle
  /\ UNCHANGED <<disk, stored, crashes>>

Lock ==
  /\ op = Idle
  /\ index' = Hidden /\ op' = Off
  /\ UNCHANGED <<disk, stored, crashes>>

Kill ==
  /\ op.pc # "off" /\ crashes < MaxCrashes
  /\ crashes' = crashes + 1
  /\ index' = Hidden /\ op' = Off
  /\ UNCHANGED <<disk, stored>>

\* A committed transaction survives.  The bytes of a file that was not flushed
\* may not, nor its name: nothing flushes the directory after a rename.  What a
\* power loss leaves is on the disk for good.
PowerLoss ==
  /\ crashes < MaxCrashes
  /\ crashes' = crashes + 1
  /\ \E left \in [Docs -> Cuts \cup {NoFile} \cup {file[d] : d \in Docs}] :
       /\ \A d \in Docs :
            \/ left[d] = file[d]
            \/ d \notin synced /\ left[d] \in Cuts /\ left[d] < file[d]
            \/ d \notin named /\ left[d] = NoFile
       /\ file' = left
  /\ lost' = {d \in Cached : file'[d] = NoFile /\ (file[d] # NoFile \/ d \in lost)}
  /\ synced' = {d \in Docs : file'[d] # NoFile} /\ named' = synced'
  /\ index' = Hidden /\ op' = Off
  /\ UNCHANGED <<row, keep, table, limit, stored>>
-------------------------------------------------------------------------------
CacheStep == \/ EvictRow \/ Unlink \/ Evicted \/ Fetch \/ Enter \/ Read \/ Opened
             \/ Write \/ Record \/ Overwrite \/ PrefetchNext

Command == \/ Add \/ SetCacheLimit \/ Prefetch
           \/ \E d \in Docs : \/ Open(d) \/ UpdateMeta(d) \/ Delete(d) \/ SetKeepOffline(d)
                             \/ Push(d) \/ Pull(d) \/ PullTombstone(d)

Next == CacheStep \/ FetchFails \/ Command \/ Unlock \/ Lock \/ Kill \/ PowerLoss

\* An operation goes on, if only to fail, the user unlocks the vault and syncs
\* again and again, and of the downloads a sync tries for a document, not all fail.
Fairness == /\ WF_vars(CacheStep \/ FetchFails) /\ WF_vars(Unlock) /\ SF_vars(Prefetch)
            /\ \A d \in Docs : SF_vars(Fetch /\ op.why = "prefetch" /\ op.doc = d)

Spec == Init /\ [][Next]_vars /\ Fairness
-------------------------------------------------------------------------------
\* What reading the first n bytes of a blob's file gives.
Decoded == [d \in Docs |-> [n \in 0..Size(d) |-> Decrypt(d, SubSeq(Ciphertext[d], 1, n))]]

Content(d) == Decoded[d][file[d]]

\* The blob's file is there, but not all of it.
Torn(d) == file[d] # NoFile /\ file[d] < Size(d)

Places == {"off", "idle", "evict", "unlink", "fetch", "enter", "read", "opened", "write",
           "record", "overwrite", "prefetch"}
Reasons == {"none", "open", "copy", "prefetch", "add", "limit", "tombstone"}
Operation == [pc : Places, why : Reasons, doc : Docs \cup {NoDoc}, from : Docs \cup {NoDoc},
              queue : Seq(Docs), total : Nat, victim : Docs \cup {NoDoc}]

\* Every variable keeps its type, and the table lists no blob twice.
TypeOK ==
  /\ row \in [Docs -> Status] /\ keep \subseteq Docs /\ synced \cup named \cup lost \subseteq Docs
  /\ table \in Seq(Docs) /\ IsInjective(table)
  /\ limit \in Limits /\ stored \subseteq Docs
  /\ file \in [Docs -> Int] /\ \A d \in Docs : file[d] \in {NoFile} \cup 0..Size(d)
  /\ index \in [Docs -> {"absent", "cached", "uncached"}]
  /\ op \in Operation
  /\ crashes \in 0..MaxCrashes

\* A blob in the table has a file, whatever the process was doing when it was
\* killed, unless a power loss took the file's name: files appear before their
\* rows and go after them.  Without crashes every file is one the table counts,
\* so that the limit limits the disk.
FilesMatchTable ==
  /\ \A d \in Cached : file[d] # NoFile \/ d \in lost
  /\ (crashes = 0 /\ op = Idle) => {d \in Docs : file[d] # NoFile} = Cached

\* The only copy of a document is whole on the disk and in the table from the
\* moment its row exists until the server has the document, power losses
\* included, as long as they leave the file its name.
UnsentIsWhole ==
  \A d \in Docs : (row[d] = "new" /\ d \notin stored) =>
    d \in Cached /\ (file[d] = Size(d) \/ d \in lost)

\* open and the copy of an edit fail only on a file that a power loss has torn,
\* or because the blobs that may not be evicted left no room for the one just
\* downloaded: of the others, every one goes before it.
OpenFailsForAReason ==
  op.pc = "opened" =>
    \/ Whole(op.doc)
    \/ Torn(op.doc) /\ crashes > 0
    \/ /\ file[op.doc] = NoFile
       /\ TotalSize({e \in Cached : Protected(e)}) + Size(op.doc) > limit

\* What they read is a beginning of the document, and reading ends well for
\* all of it alone.
OpenIsNeverWrong ==
  (op.pc = "opened" /\ file[op.doc] # NoFile) =>
    /\ IsPrefix(Content(op.doc).out, Text(PlainLen[op.doc]))
    /\ Content(op.doc).finished => Content(op.doc).out = Text(PlainLen[op.doc])
    /\ Content(op.doc).finished <=> Whole(op.doc)

\* Whatever becomes of a file on the disk - cut off anywhere, put together from
\* headers and segments of any blobs in any order - the blob is only ever
\* decrypted to a beginning of what it was made from, and reading ends well for
\* the file it was made into alone.  That one gives all of the content back,
\* whatever its length is to the chunk size: of an empty document, and of one
\* that fills its last chunk exactly, too.
FormatIsSound == \A d \in Docs : file[d] # NoFile => d \in Sound

\* Between operations the index lists the live documents, and what it shows
\* as cached is.
IndexTellsTruth ==
  op = Idle => \A d \in Docs : /\ index[d] # "absent" <=> Live(d)
                               /\ index[d] = "cached" => d \in Cached

\* A document that stays marked keep_offline gets into the cache and stays
\* there, through lost downloads, crashes, evictions and pulls.  The table
\* says what is there: a file whose name a power loss took stays listed.
KeptStays ==
  \A d \in Docs : <>[](d \in keep /\ Live(d)) => <>[](d \in Cached)
===============================================================================
