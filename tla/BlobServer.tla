------------------------------ MODULE BlobServer ------------------------------
(***************************************************************************)
(* Blobs on the server: the `blob` table in PostgreSQL, the objects of the *)
(* object store, the references live documents hold, and the sweep that    *)
(* deletes unreferenced blobs a day after their upload.  put_blob, put_doc *)
(* and sweep run concurrently; each action is one database statement or    *)
(* one call of the object store, and a handler dies at any of them when    *)
(* its client hangs up.                                                    *)
(***************************************************************************)
EXTENDS Naturals, FiniteSets, RangeRequest

CONSTANTS
  Docs,        \* document ids
  Blobs,       \* blob ids
  Contents,    \* what a blob may hold; stands for size and sha256 as well
  None,        \* no blob, no content, no row
  Uploads,     \* put_blob handlers that may be in progress at once
  Puts         \* put_doc handlers that may be in progress at once

ASSUME NoneIsNew == /\ None \notin Blobs /\ None \notin Contents
                    /\ None \notin [content : Contents, aged : BOOLEAN]

VARIABLES
  blob,     \* [Blobs -> row of the blob table or None]
  object,   \* [Blobs -> content stored under the blob's path or None]
  ref,      \* [Docs -> blob_id of the committed row, None for a tombstone]
  upload,   \* [Uploads -> put_blob handler]
  put,      \* [Puts -> put_doc handler]
  gc,       \* the sweep: where it is and the candidates it still handles
  raced     \* history: ids whose upload overlapped another one or a sweep

vars == <<blob, object, ref, upload, put, gc, raced>>

Idle == [pc |-> "idle"]

UploadingSwapped(pc, b, c) == [pc |-> pc, b |-> c, c |-> b]

Uploading(pc, b, c) == [pc |-> pc, b |-> b, c |-> c]

Putting(pc, d, b) == [pc |-> pc, d |-> d, b |-> b]

Sweep(pc, ids) == [pc |-> pc, ids |-> ids]

Stored(b) == blob[b] # None

Referenced(b) == \E d \in Docs : ref[d] = b

\* Rows the foreign key check of an uncommitted put_doc has locked FOR KEY SHARE.
KeyShared(b) == \E p \in Puts : put[p].pc = "hold" /\ put[p].b = b

\* Rows the sweep has locked FOR UPDATE.
Locked(b) == gc.pc = "locked" /\ b \in gc.ids

Init == /\ blob = [b \in Blobs |-> None]
        /\ object = [b \in Blobs |-> None]
        /\ ref = [d \in Docs |-> None]
        /\ upload = [u \in Uploads |-> Idle]
        /\ put = [p \in Puts |-> Idle]
        /\ gc = Sweep("idle", {})
        /\ raced = {}
-------------------------------------------------------------------------------
(* put_blob *)

\* Someone else has seen no row for b and will publish, or the object is about
\* to be deleted by a sweep that has already committed.
Overlaps(b) ==
  \/ \E v \in Uploads : upload[v].pc \in {"complete", "insert"} /\ upload[v].b = b
  \/ gc.pc = "objects" /\ b \in gc.ids

PublishAnyway(b) == TRUE

\* put_blob publishes only under an id without a row.
MayPublish(b) == ~Stored(b)

\* The body has streamed into a multipart upload that nobody sees yet, and the
\* row is looked up.  A row: the upload is aborted, with 200 for the same
\* content and 409 for other content.  None: it goes on.
LookupRow(u) ==
  /\ upload[u] = Idle
  /\ \E b \in Blobs, c \in Contents :
       /\ MayPublish(b)
       /\ upload' = [upload EXCEPT ![u] = Uploading("complete", b, c)]
       /\ raced' = IF Overlaps(b) THEN raced \cup {b} ELSE raced
  /\ UNCHANGED <<blob, object, ref, put, gc>>

\* The multipart upload is published, over whatever the path held.
CompleteUpload(u) ==
  /\ upload[u].pc = "complete"
  /\ object' = [object EXCEPT ![upload[u].b] = upload[u].c]
  /\ upload' = [upload EXCEPT ![u].pc = "insert"]
  /\ UNCHANGED <<blob, ref, put, gc, raced>>

\* The row is inserted, in a transaction of its own; a row that appeared since
\* the lookup makes the INSERT fail, with a 500.
InsertRow(u) ==
  /\ upload[u].pc = "insert"
  /\ LET b == upload[u].b IN
     /\ ~Locked(b)
     /\ blob' = IF Stored(b) THEN blob
                ELSE [blob EXCEPT ![b] = [content |-> upload[u].c, aged |-> FALSE]]
  /\ upload' = [upload EXCEPT ![u] = Idle]
  /\ UNCHANGED <<object, ref, put, gc, raced>>

\* The client hangs up, the body is bad, or a call fails: the handler is gone
\* with what it has done so far.
CancelUpload(u) ==
  /\ upload[u] # Idle
  /\ upload' = [upload EXCEPT ![u] = Idle]
  /\ UNCHANGED <<blob, object, ref, put, gc, raced>>
-------------------------------------------------------------------------------
(* put_doc and delete_doc, as far as blobs are concerned *)

\* The blob lookup; without a row the answer is 404.
CheckBlob(p) ==
  /\ put[p] = Idle
  /\ \E d \in Docs, b \in Blobs :
       Stored(b) /\ put' = [put EXCEPT ![p] = Putting("stmt", d, b)]
  /\ UNCHANGED <<blob, object, ref, upload, gc, raced>>

\* The INSERT or UPDATE of the document.  It waits for an uncommitted write of
\* the same document and for a sweep that has locked the blob; the foreign key
\* fails it if the blob row has gone.
WriteDoc(p) ==
  /\ put[p].pc = "stmt"
  /\ ~Locked(put[p].b)
  /\ ~\E o \in Puts : put[o].pc = "hold" /\ put[o].d = put[p].d
  /\ put' = [put EXCEPT ![p] = IF Stored(put[p].b)
                               THEN Putting("hold", put[p].d, put[p].b) ELSE Idle]
  /\ UNCHANGED <<blob, object, ref, upload, gc, raced>>

CommitDoc(p) ==
  /\ put[p].pc = "hold"
  /\ ref' = [ref EXCEPT ![put[p].d] = put[p].b]
  /\ put' = [put EXCEPT ![p] = Idle]
  /\ UNCHANGED <<blob, object, upload, gc, raced>>

\* The version does not match, the database fails, or the client hangs up.
AbortDoc(p) ==
  /\ put[p] # Idle
  /\ put' = [put EXCEPT ![p] = Idle]
  /\ UNCHANGED <<blob, object, ref, upload, gc, raced>>

\* delete_doc: the tombstone's blob_id is NULL.
DeleteDoc(d) ==
  /\ ref[d] # None
  /\ ~\E p \in Puts : put[p].pc = "hold" /\ put[p].d = d
  /\ ref' = [ref EXCEPT ![d] = None]
  /\ UNCHANGED <<blob, object, upload, put, gc, raced>>
-------------------------------------------------------------------------------
(* sweep *)

\* 24 hours have passed since the row was inserted.
Age(b) ==
  /\ Stored(b) /\ ~blob[b].aged
  /\ blob' = [blob EXCEPT ![b].aged = TRUE]
  /\ UNCHANGED <<object, ref, upload, put, gc, raced>>

YoungCandidates == {b \in Blobs : Stored(b) /\ ~blob[b].aged /\ ~Referenced(b)}

\* The snapshot of SELECT ... FOR UPDATE SKIP LOCKED: what it will try to lock.
Candidates == {b \in Blobs : Stored(b) /\ blob[b].aged /\ ~Referenced(b)}

ScanBlobs ==
  /\ gc.pc = "idle" /\ Candidates # {}
  /\ gc' = Sweep("scan", Candidates)
  /\ UNCHANGED <<blob, object, ref, upload, put, raced>>

\* Rows locked by a put_doc are skipped.  A document committed since the
\* snapshot did not change the blob row, so its blob stays a candidate.
Lockable(ids) == {b \in ids : ~KeyShared(b)}

LockBlobs ==
  /\ gc.pc = "scan"
  /\ gc' = IF Lockable(gc.ids) = {} THEN Sweep("idle", {})
           ELSE Sweep("locked", Lockable(gc.ids))
  /\ UNCHANGED <<blob, object, ref, upload, put, raced>>

NoForeignKey(ids) == TRUE

\* document.blob_id REFERENCES blob(id): the DELETE of a referenced row fails.
ForeignKeyHolds(ids) == \A b \in ids : ~Referenced(b)

\* The DELETE, which fails the whole sweep if a candidate is referenced by now,
\* and the commit.
DeleteRows ==
  /\ gc.pc = "locked"
  /\ IF ForeignKeyHolds(gc.ids)
     THEN /\ blob' = [b \in Blobs |-> IF b \in gc.ids THEN None ELSE blob[b]]
          /\ gc' = Sweep("objects", gc.ids)
     ELSE /\ gc' = Sweep("idle", {})
          /\ UNCHANGED blob
  /\ UNCHANGED <<object, ref, upload, put, raced>>

\* The objects go one by one after the commit; a failure is logged and skipped.
DeleteObject ==
  /\ gc.pc = "objects"
  /\ \E b \in gc.ids :
       /\ object' = [object EXCEPT ![b] = None] \/ object' = object
       /\ gc' = IF gc.ids = {b} THEN Sweep("idle", {}) ELSE Sweep("objects", gc.ids \ {b})
  /\ UNCHANGED <<blob, ref, upload, put, raced>>

\* The server process dies and comes back: transactions roll back, object
\* deletions not done yet are forgotten.
Restart ==
  /\ upload' = [u \in Uploads |-> Idle]
  /\ put' = [p \in Puts |-> Idle]
  /\ gc' = Sweep("idle", {})
  /\ UNCHANGED <<blob, object, ref, raced>>

SweepStep == ScanBlobs \/ LockBlobs \/ DeleteRows \/ DeleteObject

UploadStep(u) == LookupRow(u) \/ CompleteUpload(u) \/ InsertRow(u) \/ CancelUpload(u)

PutStep(p) == CheckBlob(p) \/ WriteDoc(p) \/ CommitDoc(p) \/ AbortDoc(p)

Next == \/ \E u \in Uploads : UploadStep(u)
        \/ \E p \in Puts : PutStep(p)
        \/ \E d \in Docs : DeleteDoc(d)
        \/ \E b \in Blobs : Age(b)
        \/ SweepStep
        \/ Restart

Spec == Init /\ [][Next]_vars

\* The sweep runs on a timer for as long as the server does, time passes, and
\* no handler stays half-way for ever: it ends or its client gives up.
FairSpec ==
  /\ Spec
  /\ WF_vars(SweepStep)
  /\ \A b \in Blobs : WF_vars(Age(b))
-------------------------------------------------------------------------------
\* Every variable has its type (the blob table, the object store, the handlers).
TypeOK ==
  /\ blob \in [Blobs -> [content : Contents, aged : BOOLEAN] \cup {None}]
  /\ object \in [Blobs -> Contents \cup {None}]
  /\ ref \in [Docs -> Blobs \cup {None}]
  /\ upload \in [Uploads -> {Idle} \cup
                 [pc : {"complete", "insert"}, b : Blobs, c : Contents]]
  /\ put \in [Puts -> {Idle} \cup [pc : {"stmt", "hold"}, d : Docs, b : Blobs]]
  /\ gc \in [pc : {"idle", "scan", "locked", "objects"}, ids : SUBSET Blobs]
  /\ raced \subseteq Blobs

\* A live document's blob has its row, and so will the one an uncommitted write
\* is about to point at, whatever sweep runs meanwhile.
ReferencedHasRow ==
  /\ \A b \in Blobs : Referenced(b) => Stored(b)
  /\ \A p \in Puts : put[p].pc = "hold" => Stored(put[p].b)

\* The object under a row is there and is what the row describes, unless the
\* upload overlapped another upload of that id or a sweep of it: crashes,
\* refused re-uploads and failed object deletions alone do no harm.
DamageOnlyByRace ==
  \A b \in Blobs : (Stored(b) /\ b \notin raced) => object[b] = blob[b].content

\* get_blob sends exactly the bytes that a range selects of a stored blob, of
\* any size, or says truly that there are none: at every boundary of the object
\* and of 64 bits.
RangesAreExact == \A b \in Blobs : Stored(b) => ExactSizes = 0..MaxSize

\* ARCHITECTURE section 2: "a document never points at a missing blob".
ReferencedIsStored ==
  \A d \in Docs : ref[d] # None => object[ref[d]] # None

\* A referenced blob is never replaced by other content, unless it raced.
ReferencedIsImmutable ==
  [][\A b \in Blobs \ raced : Referenced(b) => object'[b] = object[b]]_vars

\* An orphan's row is collected in the end, once the server stops crashing and
\* writers of documents stop interfering: a sweep that fails is tried again.
OrphanRowsCollected ==
  (<>[][~Restart]_vars /\ <>[](\A p \in Puts : put[p] = Idle)) =>
    \A b \in Blobs : []<>(~Stored(b) \/ Referenced(b))
===============================================================================
