--------------------------- MODULE BlobServer_proofs --------------------------
(***************************************************************************)
(* Proofs about BlobServer for any sets of documents, blobs and contents   *)
(* and any number of concurrent uploads and document writes.               *)
(***************************************************************************)
EXTENDS BlobServer, FiniteSetTheorems, TLAPS

USE NoneIsNew

(* Type correctness. *)

\* Steps of put_blob keep every variable's type.
LEMMA UploadTypes ==
  ASSUME TypeOK, NEW u \in Uploads, UploadStep(u)
  PROVE  TypeOK'
<1> USE DEF TypeOK, Idle
<1>1. CASE LookupRow(u)
  <2>1. PICK b \in Blobs, c \in Contents :
          /\ upload' = [upload EXCEPT ![u] = Uploading("complete", b, c)]
          /\ raced' = IF Overlaps(b) THEN raced \cup {b} ELSE raced
    BY <1>1 DEF LookupRow
  <2>2. Uploading("complete", b, c) \in [pc : {"complete", "insert"}, b : Blobs, c : Contents]
    BY DEF Uploading
  <2>3. QED
    BY <1>1, <2>1, <2>2 DEF LookupRow
<1>2. CASE CompleteUpload(u)
  BY <1>2 DEF CompleteUpload
<1>3. CASE InsertRow(u)
  <2>1. upload[u] \in [pc : {"complete", "insert"}, b : Blobs, c : Contents]
    BY <1>3 DEF InsertRow
  <2>2. [content |-> upload[u].c, aged |-> FALSE] \in [content : Contents, aged : BOOLEAN]
    BY <2>1
  <2>3. QED
    BY <1>3, <2>2 DEF InsertRow
<1>4. CASE CancelUpload(u)
  BY <1>4 DEF CancelUpload
<1>5. QED
  BY <1>1, <1>2, <1>3, <1>4 DEF UploadStep

\* Steps of put_doc keep every variable's type.
LEMMA PutTypes ==
  ASSUME TypeOK, NEW p \in Puts, PutStep(p)
  PROVE  TypeOK'
<1> USE DEF TypeOK, Idle
<1>1. CASE CheckBlob(p)
  <2>1. PICK d \in Docs, b \in Blobs : put' = [put EXCEPT ![p] = Putting("stmt", d, b)]
    BY <1>1 DEF CheckBlob
  <2>2. Putting("stmt", d, b) \in [pc : {"stmt", "hold"}, d : Docs, b : Blobs]
    BY DEF Putting
  <2>3. QED
    BY <1>1, <2>1, <2>2 DEF CheckBlob
<1>2. CASE WriteDoc(p)
  <2>1. put[p] \in [pc : {"stmt", "hold"}, d : Docs, b : Blobs]
    BY <1>2 DEF WriteDoc
  <2>2. Putting("hold", put[p].d, put[p].b) \in [pc : {"stmt", "hold"}, d : Docs, b : Blobs]
    BY <2>1 DEF Putting
  <2>3. QED
    BY <1>2, <2>2 DEF WriteDoc
<1>3. CASE CommitDoc(p)
  <2>1. put[p] \in [pc : {"stmt", "hold"}, d : Docs, b : Blobs]
    BY <1>3 DEF CommitDoc
  <2>2. QED
    BY <1>3, <2>1 DEF CommitDoc
<1>4. CASE AbortDoc(p)
  BY <1>4 DEF AbortDoc
<1>5. QED
  BY <1>1, <1>2, <1>3, <1>4 DEF PutStep

\* Every step of the server keeps every variable's type.
LEMMA TypeStep == TypeOK /\ [Next]_vars => TypeOK'
<1> SUFFICES ASSUME TypeOK, [Next]_vars PROVE TypeOK'
  OBVIOUS
<1>1. CASE UNCHANGED vars
  BY <1>1 DEF vars, TypeOK
<1>2. ASSUME NEW d \in Docs, DeleteDoc(d) PROVE TypeOK'
  BY <1>2 DEF DeleteDoc, TypeOK
<1>3. ASSUME NEW b \in Blobs, Age(b) PROVE TypeOK'
  <2>1. blob[b] \in [content : Contents, aged : BOOLEAN]
    BY <1>3 DEF Age, Stored, TypeOK
  <2>2. [blob[b] EXCEPT !.aged = TRUE] \in [content : Contents, aged : BOOLEAN]
    BY <2>1
  <2>3. QED
    BY <1>3, <2>2 DEF Age, TypeOK
<1>4. CASE ScanBlobs
  <2>1. Candidates \subseteq Blobs
    BY DEF Candidates
  <2>2. QED
    BY <1>4, <2>1 DEF ScanBlobs, Sweep, TypeOK
<1>5. CASE LockBlobs
  <2>1. Lockable(gc.ids) \subseteq Blobs
    BY DEF Lockable, TypeOK
  <2>2. QED
    BY <1>5, <2>1 DEF LockBlobs, Sweep, TypeOK
<1>6. CASE DeleteRows
  <2>1. gc.ids \subseteq Blobs
    BY DEF TypeOK
  <2>2. gc' \in [pc : {"idle", "scan", "locked", "objects"}, ids : SUBSET Blobs]
    BY <1>6, <2>1 DEF DeleteRows, Sweep
  <2>3. blob' \in [Blobs -> [content : Contents, aged : BOOLEAN] \cup {None}]
    BY <1>6 DEF DeleteRows, TypeOK
  <2>4. QED
    BY <1>6, <2>2, <2>3 DEF DeleteRows, TypeOK
<1>7. CASE DeleteObject
  BY <1>7 DEF DeleteObject, Sweep, TypeOK
<1>8. CASE Restart
  BY <1>8 DEF Restart, Sweep, TypeOK
<1>9. QED
  BY <1>1, <1>2, <1>3, <1>4, <1>5, <1>6, <1>7, <1>8, UploadTypes, PutTypes DEF Next, SweepStep

\* The blob table, the object store, the references and the handlers keep
\* their types in every run of the server.
THEOREM TypeCorrect == Spec => []TypeOK
<1>1. Init => TypeOK
  BY DEF Init, TypeOK, Sweep
<1>2. QED
  BY <1>1, TypeStep, PTL DEF Spec
-------------------------------------------------------------------------------
(* References and rows. *)

\* The rows a sweep has locked are such as no open transaction of put_doc has
\* locked: that is what makes the foreign key hold across the two.
LocksExclude ==
  gc.pc = "locked" => \A b \in gc.ids : ~KeyShared(b)

\* The induction hypothesis of ReferencedHasRow.
RowInv == TypeOK /\ ReferencedHasRow /\ LocksExclude

\* put_doc locks the row it refers to for as long as it has not committed.
LEMMA PutKeepsRows ==
  ASSUME RowInv, NEW p \in Puts, PutStep(p)
  PROVE  (ReferencedHasRow /\ LocksExclude)'
<1> USE DEF RowInv, TypeOK, Idle
<1>1. UNCHANGED <<blob, gc>>
  BY DEF PutStep, CheckBlob, WriteDoc, CommitDoc, AbortDoc
<1>2. \A b : Stored(b)' = Stored(b)
  BY <1>1 DEF Stored
<1>3. ASSUME UNCHANGED ref, \A o \in Puts : put'[o].pc = "hold" => put'[o] = put[o]
      PROVE  (ReferencedHasRow /\ LocksExclude)'
  BY <1>1, <1>2, <1>3 DEF ReferencedHasRow, LocksExclude, Referenced, KeyShared
<1>4. CASE CheckBlob(p)
  BY <1>3, <1>4 DEF CheckBlob, Putting
<1>5. CASE AbortDoc(p)
  BY <1>3, <1>5 DEF AbortDoc
<1>6. CASE WriteDoc(p)
  <2>1. CASE ~Stored(put[p].b)
    BY <1>3, <1>6, <2>1 DEF WriteDoc
  <2>2. CASE Stored(put[p].b)
    <3> DEFINE h == Putting("hold", put[p].d, put[p].b)
    <3>1. put' = [put EXCEPT ![p] = h] /\ UNCHANGED ref /\ ~Locked(put[p].b)
      BY <1>6, <2>2 DEF WriteDoc
    <3>2. h.b = put[p].b
      BY DEF Putting
    <3> HIDE DEF h
    <3>3. ReferencedHasRow'
      BY <1>2, <2>2, <3>1, <3>2 DEF ReferencedHasRow, Referenced
    <3>4. LocksExclude'
      BY <1>1, <3>1, <3>2 DEF LocksExclude, KeyShared, Locked
    <3>5. QED
      BY <3>3, <3>4
  <2>3. QED
    BY <2>1, <2>2
<1>7. CASE CommitDoc(p)
  <2>1. Stored(put[p].b)
    BY <1>7 DEF CommitDoc, ReferencedHasRow
  <2>2. \A o \in Puts : put'[o].pc = "hold" => put'[o] = put[o]
    BY <1>7 DEF CommitDoc
  <2>3. ReferencedHasRow'
    BY <1>2, <1>7, <2>1, <2>2 DEF CommitDoc, ReferencedHasRow, Referenced
  <2>4. LocksExclude'
    BY <1>1, <2>2 DEF LocksExclude, KeyShared
  <2>5. QED
    BY <2>3, <2>4
<1>8. QED
  BY <1>4, <1>5, <1>6, <1>7 DEF PutStep

\* A sweep deletes no row that a document has or is about to have.
LEMMA SweepKeepsRows ==
  ASSUME RowInv, SweepStep
  PROVE  (ReferencedHasRow /\ LocksExclude)'
<1> USE DEF RowInv, TypeOK
<1>1. UNCHANGED <<ref, put>>
  BY DEF SweepStep, ScanBlobs, LockBlobs, DeleteRows, DeleteObject
<1>2. ASSUME UNCHANGED blob PROVE ReferencedHasRow'
  BY <1>1, <1>2 DEF ReferencedHasRow, Referenced, Stored
<1>3. CASE ScanBlobs
  BY <1>2, <1>3 DEF ScanBlobs, LocksExclude, Sweep
<1>4. CASE LockBlobs
  <2>1. LocksExclude'
    BY <1>1, <1>4 DEF LockBlobs, LocksExclude, Sweep, Lockable, KeyShared
  <2>2. QED
    BY <1>2, <1>4, <2>1 DEF LockBlobs
<1>5. CASE DeleteRows
  <2>1. LocksExclude'
    BY <1>5 DEF DeleteRows, LocksExclude, Sweep
  <2>2. CASE ~ForeignKeyHolds(gc.ids)
    BY <1>2, <1>5, <2>1, <2>2 DEF DeleteRows
  <2>3. CASE ForeignKeyHolds(gc.ids)
    <3>1. blob' = [b \in Blobs |-> IF b \in gc.ids THEN None ELSE blob[b]]
      BY <1>5, <2>3 DEF DeleteRows
    <3>2. \A b \in Blobs : Referenced(b) => b \notin gc.ids
      BY <2>3 DEF ForeignKeyHolds
    <3>3. \A p \in Puts : put[p].pc = "hold" => put[p].b \in Blobs /\ put[p].b \notin gc.ids
      BY <1>5 DEF DeleteRows, LocksExclude, KeyShared, Idle
    <3>4. ReferencedHasRow'
      BY <1>1, <3>1, <3>2, <3>3 DEF ReferencedHasRow, Referenced, Stored
    <3>5. QED
      BY <2>1, <3>4
  <2>4. QED
    BY <2>2, <2>3
<1>6. CASE DeleteObject
  BY <1>2, <1>6 DEF DeleteObject, LocksExclude, Sweep
<1>7. QED
  BY <1>3, <1>4, <1>5, <1>6 DEF SweepStep

\* The induction step of ReferencedHasRow.
LEMMA RowStep == RowInv /\ [Next]_vars => RowInv'
<1> SUFFICES ASSUME RowInv, [Next]_vars PROVE (ReferencedHasRow /\ LocksExclude)'
  BY TypeStep DEF RowInv
<1> USE DEF RowInv, TypeOK
<1>1. CASE UNCHANGED vars
  BY <1>1 DEF vars, ReferencedHasRow, LocksExclude, Referenced, Stored, KeyShared
<1>2. ASSUME NEW u \in Uploads, UploadStep(u) PROVE (ReferencedHasRow /\ LocksExclude)'
  <2>1. UNCHANGED <<ref, put, gc>>
    BY <1>2 DEF UploadStep, LookupRow, CompleteUpload, InsertRow, CancelUpload
  <2>2. \A b \in Blobs : Stored(b) => Stored(b)'
    <3>1. CASE InsertRow(u)
      <4>1. \/ blob' = blob
            \/ blob' = [blob EXCEPT ![upload[u].b] = [content |-> upload[u].c, aged |-> FALSE]]
        BY <3>1 DEF InsertRow
      <4>2. [content |-> upload[u].c, aged |-> FALSE] \in [content : Contents, aged : BOOLEAN]
        BY <3>1 DEF InsertRow, Idle
      <4>3. QED
        BY <4>1, <4>2 DEF Stored
    <3>2. QED
      BY <1>2, <3>1 DEF UploadStep, LookupRow, CompleteUpload, CancelUpload, Stored
  <2>3. \A p \in Puts : put[p].pc = "hold" => put[p].b \in Blobs
    BY DEF Idle
  <2>4. QED
    BY <2>1, <2>2, <2>3 DEF ReferencedHasRow, LocksExclude, Referenced, KeyShared
<1>3. ASSUME NEW d \in Docs, DeleteDoc(d) PROVE (ReferencedHasRow /\ LocksExclude)'
  BY <1>3 DEF DeleteDoc, ReferencedHasRow, LocksExclude, Referenced, Stored, KeyShared
<1>4. ASSUME NEW b \in Blobs, Age(b) PROVE (ReferencedHasRow /\ LocksExclude)'
  <2>1. blob[b] \in [content : Contents, aged : BOOLEAN]
    BY <1>4 DEF Age, Stored
  <2>2. blob'[b] \in [content : Contents, aged : BOOLEAN]
    BY <1>4, <2>1 DEF Age
  <2>3. \A c \in Blobs : Stored(c) => Stored(c)'
    BY <1>4, <2>2 DEF Age, Stored
  <2>4. \A p \in Puts : put[p].pc = "hold" => put[p].b \in Blobs
    BY DEF Idle
  <2>5. QED
    BY <1>4, <2>3, <2>4 DEF Age, ReferencedHasRow, LocksExclude, Referenced, KeyShared
<1>5. CASE Restart
  BY <1>5 DEF Restart, ReferencedHasRow, LocksExclude, Referenced, Stored, Idle, Sweep
<1>6. QED
  BY <1>1, <1>2, <1>3, <1>4, <1>5, PutKeepsRows, SweepKeepsRows DEF Next

\* A live document's blob has its row, whatever sweeps, uploads and writes of
\* documents run at the same time (put_doc, delete_doc, sweep).
THEOREM ReferencesHold == Spec => []ReferencedHasRow
<1>1. Init => RowInv
  BY DEF Init, RowInv, TypeOK, ReferencedHasRow, LocksExclude, Referenced, Idle, Sweep
<1>2. QED
  BY <1>1, RowStep, PTL DEF Spec, RowInv
-------------------------------------------------------------------------------
(* Rows and objects. *)

\* u has found no row and will publish, or has published, its content.
Active(u) == upload[u].pc \in {"complete", "insert"}

\* An upload that met no other and no sweep is alone with its id until it has
\* inserted the row: nobody stores one, nobody else publishes, and no sweep is
\* about to delete the object.
AloneUnlessRaced ==
  \A u \in Uploads : Active(u) /\ upload[u].b \notin raced =>
    /\ ~Stored(upload[u].b)
    /\ gc.pc = "objects" => upload[u].b \notin gc.ids
    /\ \A v \in Uploads : v # u /\ Active(v) => upload[v].b # upload[u].b
    /\ upload[u].pc = "insert" => object[upload[u].b] = upload[u].c

\* What a sweep works on: rows that are there until it deletes them, and
\* objects whose rows are gone and stay away.
SweepInv ==
  /\ gc.pc \in {"scan", "locked"} => \A b \in gc.ids : Stored(b)
  /\ gc.pc = "objects" => \A b \in gc.ids \ raced : ~Stored(b)

\* The induction hypothesis of DamageOnlyByRace.
ObjectInv == TypeOK /\ AloneUnlessRaced /\ SweepInv /\ DamageOnlyByRace

\* An upload step: the id is marked as raced, or the upload is alone with it.
LEMMA UploadKeepsObjects ==
  ASSUME ObjectInv, NEW u \in Uploads, UploadStep(u)
  PROVE  (AloneUnlessRaced /\ SweepInv /\ DamageOnlyByRace)'
<1> USE DEF ObjectInv, TypeOK, Idle, Active
<1>1. CASE LookupRow(u)
  <2>1. PICK b \in Blobs, c \in Contents :
          /\ ~Stored(b)
          /\ upload' = [upload EXCEPT ![u] = Uploading("complete", b, c)]
          /\ raced' = IF Overlaps(b) THEN raced \cup {b} ELSE raced
    BY <1>1 DEF LookupRow, MayPublish
  <2>2. raced \subseteq raced' /\ UNCHANGED <<blob, object, gc>> /\ upload[u] = Idle
    BY <1>1, <2>1 DEF LookupRow
  <2>3. ASSUME b \notin raced'
        PROVE  /\ \A v \in Uploads : Active(v) => upload[v].b # b
               /\ gc.pc = "objects" => b \notin gc.ids
    BY <2>1, <2>3 DEF Overlaps
  <2>4. Uploading("complete", b, c).pc = "complete" /\ Uploading("complete", b, c).b = b
    BY DEF Uploading
  <2>5. \A v \in Uploads : v # u => upload'[v] = upload[v]
    BY <2>1
  <2>6. upload'[u].pc = "complete" /\ upload'[u].b = b
    BY <2>1, <2>4
  <2>7. AloneUnlessRaced'
    <3> SUFFICES ASSUME NEW v \in Uploads, Active(v)', upload'[v].b \notin raced'
                 PROVE  /\ ~Stored(upload[v].b)'
                        /\ gc'.pc = "objects" => upload'[v].b \notin gc'.ids
                        /\ \A w \in Uploads : w # v /\ Active(w)' => upload'[w].b # upload'[v].b
                        /\ upload'[v].pc = "insert" => object'[upload'[v].b] = upload'[v].c
      BY DEF AloneUnlessRaced
    <3>1. CASE v = u
      BY <2>1, <2>2, <2>3, <2>5, <2>6, <3>1 DEF Stored
    <3>2. CASE v # u
      <4>1. upload'[v] = upload[v] /\ Active(v) /\ upload[v].b \notin raced
        BY <2>2, <2>5, <3>2
      <4>2. upload[v].b # b
        <5>1. CASE b \in raced'
          BY <4>1, <5>1
        <5>2. CASE b \notin raced'
          BY <2>3, <4>1, <5>2
        <5>3. QED
          BY <5>1, <5>2
      <4>3. QED
        BY <2>2, <2>5, <2>6, <4>1, <4>2 DEF AloneUnlessRaced, Stored
    <3>3. QED
      BY <3>1, <3>2
  <2>8. QED
    BY <2>2, <2>7 DEF SweepInv, DamageOnlyByRace, Stored
<1>2. CASE CompleteUpload(u)
  <2> DEFINE b == upload[u].b
  <2>1. /\ upload[u].pc = "complete" /\ b \in Blobs
        /\ object' = [object EXCEPT ![b] = upload[u].c]
        /\ upload' = [upload EXCEPT ![u].pc = "insert"]
        /\ UNCHANGED <<blob, gc, raced>>
    BY <1>2 DEF CompleteUpload
  <2>2. upload'[u].pc = "insert" /\ upload'[u].b = b /\ upload'[u].c = upload[u].c
    BY <2>1
  <2>3. \A v \in Uploads : v # u => upload'[v] = upload[v]
    BY <2>1
  <2>4. \A x \in Blobs : x # b => object'[x] = object[x]
    BY <2>1
  <2>5. object'[b] = upload[u].c
    BY <2>1
  <2> HIDE DEF b
  <2>6. b \notin raced => ~Stored(b) /\ (\A v \in Uploads : v # u /\ Active(v) => upload[v].b # b)
    BY <2>1 DEF AloneUnlessRaced, b
  <2>7. DamageOnlyByRace'
    BY <2>1, <2>4, <2>6 DEF DamageOnlyByRace, Stored
  <2>8. AloneUnlessRaced'
    <3> SUFFICES ASSUME NEW v \in Uploads, Active(v)', upload'[v].b \notin raced'
                 PROVE  /\ ~Stored(upload[v].b)'
                        /\ gc'.pc = "objects" => upload'[v].b \notin gc'.ids
                        /\ \A w \in Uploads : w # v /\ Active(w)' => upload'[w].b # upload'[v].b
                        /\ upload'[v].pc = "insert" => object'[upload'[v].b] = upload'[v].c
      BY DEF AloneUnlessRaced
    <3>1. \A w \in Uploads : upload'[w].b = upload[w].b /\ (Active(w)' => Active(w))
      BY <2>1, <2>2, <2>3 DEF b
    <3>2. upload[v].b \in Blobs /\ upload[v].b \notin raced /\ Active(v)
      BY <2>1, <3>1
    <3>3. upload'[v].pc = "insert" => object'[upload'[v].b] = upload'[v].c
      <4>1. CASE v = u
        BY <2>2, <2>5, <4>1
      <4>2. CASE v # u
        <5>1. upload[v].b # b
          BY <2>1, <3>2, <4>2 DEF AloneUnlessRaced, b
        <5>2. QED
          BY <2>3, <2>4, <3>2, <4>2, <5>1 DEF AloneUnlessRaced
      <4>3. QED
        BY <4>1, <4>2
    <3>4. QED
      BY <2>1, <3>1, <3>2, <3>3 DEF AloneUnlessRaced, Stored
  <2>9. QED
    BY <2>1, <2>7, <2>8 DEF SweepInv, Stored
<1>3. CASE InsertRow(u)
  <2> DEFINE b == upload[u].b
             row == [content |-> upload[u].c, aged |-> FALSE]
  <2>1. /\ upload[u].pc = "insert" /\ b \in Blobs
        /\ blob' = IF Stored(b) THEN blob ELSE [blob EXCEPT ![b] = row]
        /\ upload' = [upload EXCEPT ![u] = Idle]
        /\ UNCHANGED <<object, gc, raced>>
    BY <1>3 DEF InsertRow
  <2>2. row \in [content : Contents, aged : BOOLEAN] /\ row # None
    <3>1. upload[u].c \in Contents
      BY <2>1
    <3>2. row \in [content : Contents, aged : BOOLEAN]
      BY <3>1
    <3> HIDE DEF row
    <3>3. QED
      BY <3>2
  <2>3. row.content = upload[u].c
    OBVIOUS
  <2>4. \A v \in Uploads : Active(v)' => v # u /\ upload'[v] = upload[v]
    BY <2>1
  <2> HIDE DEF b, row
  <2>5. blob'[b] # None /\ \A x \in Blobs : x # b => blob'[x] = blob[x]
    BY <2>1, <2>2 DEF Stored
  <2>6. b \notin raced => /\ ~Stored(b) /\ object[b] = upload[u].c
                          /\ gc.pc = "objects" => b \notin gc.ids
                          /\ \A v \in Uploads : v # u /\ Active(v) => upload[v].b # b
    BY <2>1 DEF AloneUnlessRaced, b
  <2>7. b \notin raced => blob'[b] = row
    BY <2>1, <2>6
  <2>8. DamageOnlyByRace'
    BY <2>1, <2>3, <2>5, <2>6, <2>7 DEF DamageOnlyByRace, Stored
  <2>9. AloneUnlessRaced'
    <3> SUFFICES ASSUME NEW v \in Uploads, Active(v)', upload'[v].b \notin raced'
                 PROVE  /\ ~Stored(upload[v].b)'
                        /\ gc'.pc = "objects" => upload'[v].b \notin gc'.ids
                        /\ \A w \in Uploads : w # v /\ Active(w)' => upload'[w].b # upload'[v].b
                        /\ upload'[v].pc = "insert" => object'[upload'[v].b] = upload'[v].c
      BY DEF AloneUnlessRaced
    <3>1. v # u /\ upload'[v] = upload[v] /\ Active(v) /\ upload[v].b \notin raced /\ upload[v].b \in Blobs
      BY <2>1, <2>4
    <3>2. upload[v].b # b
      BY <2>1, <3>1 DEF AloneUnlessRaced, b
    <3>3. QED
      BY <2>1, <2>4, <2>5, <3>1, <3>2 DEF AloneUnlessRaced, Stored
  <2>10. SweepInv'
    BY <2>1, <2>5, <2>6 DEF SweepInv, Stored
  <2>11. QED
    BY <2>8, <2>9, <2>10
<1>4. CASE CancelUpload(u)
  <2>1. UNCHANGED <<blob, object, gc, raced>>
    BY <1>4 DEF CancelUpload
  <2>2. \A v \in Uploads : Active(v)' => upload'[v] = upload[v]
    BY <1>4 DEF CancelUpload
  <2>3. QED
    BY <2>1, <2>2 DEF AloneUnlessRaced, SweepInv, DamageOnlyByRace, Stored
<1>5. QED
  BY <1>1, <1>2, <1>3, <1>4 DEF UploadStep

\* A sweep step: rows go before objects, and only rows nobody uploads under.
LEMMA SweepKeepsObjects ==
  ASSUME ObjectInv, SweepStep
  PROVE  (AloneUnlessRaced /\ SweepInv /\ DamageOnlyByRace)'
<1> USE DEF ObjectInv, TypeOK, Active
<1>1. UNCHANGED <<upload, raced>>
  BY DEF SweepStep, ScanBlobs, LockBlobs, DeleteRows, DeleteObject
<1>2. ASSUME UNCHANGED <<blob, object>>, gc'.pc # "objects", SweepInv'
      PROVE  (AloneUnlessRaced /\ SweepInv /\ DamageOnlyByRace)'
  BY <1>1, <1>2 DEF AloneUnlessRaced, DamageOnlyByRace, Stored
<1>3. CASE ScanBlobs
  BY <1>2, <1>3 DEF ScanBlobs, Sweep, SweepInv, Candidates, Stored
<1>4. CASE LockBlobs
  BY <1>2, <1>4 DEF LockBlobs, Sweep, SweepInv, Lockable, Stored
<1>5. CASE DeleteRows
  <2>1. CASE ~ForeignKeyHolds(gc.ids)
    BY <1>2, <1>5, <2>1 DEF DeleteRows, Sweep, SweepInv
  <2>2. CASE ForeignKeyHolds(gc.ids)
    <3>1. /\ gc.pc = "locked" /\ gc'.pc = "objects" /\ gc'.ids = gc.ids
          /\ blob' = [b \in Blobs |-> IF b \in gc.ids THEN None ELSE blob[b]]
          /\ UNCHANGED object
      BY <1>5, <2>2 DEF DeleteRows, Sweep
    <3>2. \A b \in Blobs : ~Stored(b) => ~Stored(b)'
      BY <3>1 DEF Stored
    <3>3. \A u \in Uploads : Active(u) => upload[u].b \in Blobs
      BY DEF Idle
    <3>4. \A u \in Uploads : Active(u) /\ upload[u].b \notin raced => upload[u].b \notin gc.ids
      BY <3>1 DEF AloneUnlessRaced, SweepInv
    <3>5. AloneUnlessRaced'
      BY <1>1, <3>1, <3>2, <3>3, <3>4 DEF AloneUnlessRaced
    <3>6. SweepInv'
      BY <3>1 DEF SweepInv, Stored
    <3>7. DamageOnlyByRace'
      BY <1>1, <3>1 DEF DamageOnlyByRace, Stored
    <3>8. QED
      BY <3>5, <3>6, <3>7
  <2>3. QED
    BY <2>1, <2>2
<1>6. CASE DeleteObject
  <2>1. PICK b \in gc.ids :
          /\ object' = [object EXCEPT ![b] = None] \/ object' = object
          /\ gc' = IF gc.ids = {b} THEN Sweep("idle", {}) ELSE Sweep("objects", gc.ids \ {b})
    BY <1>6 DEF DeleteObject
  <2>2. gc.pc = "objects" /\ b \in Blobs /\ UNCHANGED blob
    BY <1>6, <2>1 DEF DeleteObject
  <2>3. \A x \in Blobs : x # b => object'[x] = object[x]
    BY <2>1
  <2>4. b \notin raced => ~Stored(b)
    BY <2>1, <2>2 DEF SweepInv
  <2>5. gc'.pc \in {"idle", "objects"} /\ (gc'.pc = "objects" => gc'.ids \subseteq gc.ids)
    BY <2>1 DEF Sweep
  <2>6. \A u \in Uploads : Active(u) /\ upload[u].b \notin raced => upload[u].b # b /\ upload[u].b \in Blobs
    BY <2>1, <2>2 DEF AloneUnlessRaced, Idle
  <2>7. AloneUnlessRaced'
    BY <1>1, <2>2, <2>3, <2>5, <2>6 DEF AloneUnlessRaced, Stored
  <2>8. QED
    BY <1>1, <2>2, <2>3, <2>4, <2>5, <2>7 DEF SweepInv, DamageOnlyByRace, Stored
<1>7. QED
  BY <1>3, <1>4, <1>5, <1>6 DEF SweepStep

\* The induction step of DamageOnlyByRace.
LEMMA ObjectStep == ObjectInv /\ [Next]_vars => ObjectInv'
<1> SUFFICES ASSUME ObjectInv, [Next]_vars
             PROVE  (AloneUnlessRaced /\ SweepInv /\ DamageOnlyByRace)'
  BY TypeStep DEF ObjectInv
<1> USE DEF ObjectInv, TypeOK
<1>1. ASSUME UNCHANGED <<blob, object, upload, gc, raced>>
      PROVE  (AloneUnlessRaced /\ SweepInv /\ DamageOnlyByRace)'
  BY <1>1 DEF AloneUnlessRaced, Active, SweepInv, DamageOnlyByRace, Stored
<1>2. CASE UNCHANGED vars
  BY <1>1, <1>2 DEF vars
<1>3. ASSUME NEW p \in Puts, PutStep(p)
      PROVE  (AloneUnlessRaced /\ SweepInv /\ DamageOnlyByRace)'
  BY <1>1, <1>3 DEF PutStep, CheckBlob, WriteDoc, CommitDoc, AbortDoc
<1>4. ASSUME NEW d \in Docs, DeleteDoc(d)
      PROVE  (AloneUnlessRaced /\ SweepInv /\ DamageOnlyByRace)'
  BY <1>1, <1>4 DEF DeleteDoc
<1>5. ASSUME NEW b \in Blobs, Age(b)
      PROVE  (AloneUnlessRaced /\ SweepInv /\ DamageOnlyByRace)'
  <2>1. blob[b] \in [content : Contents, aged : BOOLEAN]
    BY <1>5 DEF Age, Stored
  <2>2. blob'[b] \in [content : Contents, aged : BOOLEAN] /\ blob'[b].content = blob[b].content
    BY <1>5, <2>1 DEF Age
  <2>3. \A x \in Blobs : Stored(x)' = Stored(x) /\ (Stored(x) => blob'[x].content = blob[x].content)
    BY <1>5, <2>2 DEF Age, Stored
  <2>4. UNCHANGED <<object, upload, gc, raced>>
    BY <1>5 DEF Age
  <2>5. \A u \in Uploads : Active(u) => upload[u].b \in Blobs
    BY DEF Active, Idle
  <2>6. AloneUnlessRaced'
    BY <2>3, <2>4, <2>5 DEF AloneUnlessRaced, Active
  <2>7. QED
    BY <2>3, <2>4, <2>6 DEF SweepInv, DamageOnlyByRace
<1>6. CASE Restart
  BY <1>6 DEF Restart, AloneUnlessRaced, Active, SweepInv, DamageOnlyByRace, Stored, Idle, Sweep
<1>7. QED
  BY <1>2, <1>3, <1>4, <1>5, <1>6, UploadKeepsObjects, SweepKeepsObjects DEF Next

\* ObjectInv is an invariant.
LEMMA ObjectInvariant == Spec => []ObjectInv
<1>1. Init => ObjectInv
  BY DEF Init, ObjectInv, TypeOK, AloneUnlessRaced, Active, SweepInv, DamageOnlyByRace,
         Stored, Idle, Sweep
<1>2. QED
  BY <1>1, ObjectStep, PTL DEF Spec

\* A stored object is what its row says, unless uploads of the id overlapped
\* or an upload overlapped a sweep: death of a handler or of the server at any
\* statement of put_blob, put_doc and sweep does no damage.
THEOREM ObjectsMatchRows == Spec => []DamageOnlyByRace
<1>1. QED
  BY ObjectInvariant, PTL DEF ObjectInv

\* The blob of a live document is never overwritten nor deleted, with the same
\* exception.
THEOREM ReferencedStay == Spec => ReferencedIsImmutable
<1>1. RowInv /\ ObjectInv /\ [Next]_vars
      => [\A b \in Blobs \ raced : Referenced(b) => object'[b] = object[b]]_vars
  <2> SUFFICES ASSUME RowInv, ObjectInv, Next, NEW b \in Blobs \ raced, Referenced(b)
               PROVE  object'[b] = object[b]
    OBVIOUS
  <2> USE DEF TypeOK, ObjectInv
  <2>1. Stored(b)
    BY DEF RowInv, ReferencedHasRow
  <2>2. ASSUME NEW u \in Uploads, UploadStep(u) PROVE object'[b] = object[b]
    <3>1. CASE CompleteUpload(u)
      <4>1. Active(u) /\ upload[u].b \in Blobs
        BY <3>1 DEF CompleteUpload, Active, Idle
      <4>2. upload[u].b # b
        BY <2>1, <4>1 DEF AloneUnlessRaced
      <4>3. QED
        BY <3>1, <4>1, <4>2 DEF CompleteUpload
    <3>2. QED
      BY <2>2, <3>1 DEF UploadStep, LookupRow, InsertRow, CancelUpload
  <2>3. CASE DeleteObject
    <3>1. PICK x \in gc.ids : object' = [object EXCEPT ![x] = None] \/ object' = object
      BY <2>3 DEF DeleteObject
    <3>2. x # b
      BY <2>1, <2>3 DEF DeleteObject, SweepInv
    <3>3. QED
      BY <3>1, <3>2
  <2>4. QED
    BY <2>2, <2>3 DEF Next, SweepStep, ScanBlobs, LockBlobs, DeleteRows, PutStep, CheckBlob,
                      WriteDoc, CommitDoc, AbortDoc, DeleteDoc, Age, Restart
<1>2. Init => RowInv
  BY DEF Init, RowInv, TypeOK, ReferencedHasRow, LocksExclude, Referenced, Idle, Sweep
<1>3. QED
  BY <1>1, <1>2, RowStep, ObjectInvariant, PTL DEF Spec, ReferencedIsImmutable
-------------------------------------------------------------------------------
(* Ranges: what parse_range makes of a header is a run of bytes within the *)
(* object, so its length and its ends are integer arithmetic.              *)

USE SizesFit

\* A partial answer is the bytes from start to end, counted right.
LEMMA PartialAnswer ==
  ASSUME NEW h \in Headers, NEW size \in Nat, NEW start \in Nat, NEW end \in Nat,
         start <= end, end < size, ParseRange(h, size) = Bounded(start, end)
  PROVE  /\ Answer(h, size).status = 206
         /\ Answer(h, size).body = start..end
         /\ Answer(h, size).body # {}
         /\ Answer(h, size).length = Cardinality(Answer(h, size).body)
<1> DEFINE r == ParseRange(h, size)
           body == {i \in 0..size - 1 : r.start <= i /\ i < r.end + 1}
<1>1. r.kind = "range" /\ r.start = start /\ r.end = end
  BY DEF Bounded
<1>2. Answer(h, size) = [status |-> 206, length |-> end - start + 1, body |-> start..end]
  <2>1. Answer(h, size) = [status |-> 206, length |-> r.end - r.start + 1, body |-> body]
    BY <1>1 DEF Answer
  <2>2. body = start..end
    BY <1>1
  <2>3. QED
    BY <1>1, <2>1, <2>2
<1>3. Cardinality(start..end) = end - start + 1
  BY FS_Interval
<1>4. start \in start..end
  OBVIOUS
<1>5. QED
  BY <1>2, <1>3, <1>4

\* A refusal sends nothing.
LEMMA RefusedAnswer ==
  ASSUME NEW h, NEW size, ParseRange(h, size) = Unsatisfiable
  PROVE  /\ Answer(h, size).status = 416
         /\ Answer(h, size).length = Cardinality(Answer(h, size).body)
<1>1. Answer(h, size) = [status |-> 416, length |-> 0, body |-> {}]
  BY DEF Answer, Unsatisfiable
<1>2. QED
  BY <1>1, FS_EmptySet

\* Without a range all of the object is sent.
LEMMA WholeAnswer ==
  ASSUME NEW h, NEW size \in Nat, ParseRange(h, size) = NoRange
  PROVE  /\ Answer(h, size).status = 200
         /\ Answer(h, size).body = 0..size - 1
         /\ Answer(h, size).length = Cardinality(Answer(h, size).body)
<1>1. Answer(h, size) = [status |-> 200, length |-> size, body |-> 0..size - 1]
  BY DEF Answer, NoRange
<1>2. Cardinality(0..size - 1) = size
  <2> DEFINE first == 0
             last  == size - 1
  <2>1. first \in Int /\ last \in Int
    OBVIOUS
  <2> HIDE DEF first, last
  <2>2. Cardinality(first..last) = IF first > last THEN 0 ELSE last - first + 1
    BY <2>1, FS_Interval
  <2>3. QED
    BY <2>2 DEF first, last
<1>3. QED
  BY <1>1, <1>2

\* What ExactSizes asks of one header.
Exact(h, size) ==
  LET a == Answer(h, size) IN
  /\ a.length = Cardinality(a.body)
  /\ CASE a.status = 206 -> a.body = Selected(h, size) /\ a.body # {}
       [] a.status = 416 -> Selected(h, size) = {}
       [] a.status = 200 -> /\ a.body = 0..size - 1
                            /\ \/ h.form = "other"
                               \/ \E f \in DOMAIN h \ {"form"} : ~Parses(h[f])

\* It is enough to look at the kind of answer the header gets.
LEMMA ExactByStatus ==
  ASSUME NEW h, NEW size,
         Answer(h, size).length = Cardinality(Answer(h, size).body),
         \/ /\ Answer(h, size).status = 206
            /\ Answer(h, size).body = Selected(h, size) /\ Answer(h, size).body # {}
         \/ /\ Answer(h, size).status = 416
            /\ Selected(h, size) = {}
         \/ /\ Answer(h, size).status = 200
            /\ Answer(h, size).body = 0..size - 1
            /\ h.form = "other" \/ \E f \in DOMAIN h \ {"form"} : ~Parses(h[f])
  PROVE  Exact(h, size)
<1> DEFINE a == Answer(h, size)
           sel == Selected(h, size)
           whole == h.form = "other" \/ \E f \in DOMAIN h \ {"form"} : ~Parses(h[f])
<1> HIDE DEF a, sel, whole
<1>1. /\ a.length = Cardinality(a.body)
      /\ CASE a.status = 206 -> a.body = sel /\ a.body # {}
           [] a.status = 416 -> sel = {}
           [] a.status = 200 -> a.body = 0..size - 1 /\ whole
  <2>1. CASE a.status = 206
    BY <2>1 DEF a, sel
  <2>2. CASE a.status = 416
    BY <2>2 DEF a, sel
  <2>3. CASE a.status = 200
    BY <2>3 DEF a, sel, whole
  <2>4. QED
    BY <2>1, <2>2, <2>3 DEF a, sel
<1>2. QED
  BY <1>1 DEF Exact, a, sel, whole

\* The last bytes of an object.
LEMMA SuffixIsExact ==
  ASSUME NEW size \in Nat, NEW h \in Headers, h.form = "suffix"
  PROVE  Exact(h, size)
<1>1. h \in [form : {"suffix"}, count : 0..MaxU64 + 2] /\ h.count \in Nat
  BY DEF Headers
<1>2. Selected(h, size) = {i \in 0..size - 1 : i >= size - h.count}
  BY DEF Selected
<1>3. ParseRange(h, size) = ParseSuffix(h, size)
  BY DEF ParseRange
<1>4. CASE ~Parses(h.count)
  <2>1. ParseRange(h, size) = NoRange
    BY <1>3, <1>4 DEF ParseSuffix
  <2>2. "count" \in DOMAIN h \ {"form"}
    BY <1>1
  <2>3. QED
    BY <1>4, <2>1, <2>2, WholeAnswer, ExactByStatus
<1>5. CASE Parses(h.count) /\ (h.count = 0 \/ size = 0)
  <2>1. ParseRange(h, size) = Unsatisfiable
    BY <1>3, <1>5 DEF ParseSuffix
  <2>2. Selected(h, size) = {}
    BY <1>1, <1>2, <1>5
  <2>3. QED
    BY <2>1, <2>2, RefusedAnswer, ExactByStatus
<1>6. CASE Parses(h.count) /\ h.count # 0 /\ size # 0
  <2> DEFINE start == SuffixStart(size, h.count)
  <2>1. ParseRange(h, size) = Bounded(start, size - 1)
    BY <1>3, <1>6 DEF ParseSuffix
  <2>2. start \in Nat /\ start <= size - 1 /\ size - 1 \in Nat /\ size - 1 < size
    BY <1>1, <1>6 DEF SuffixStart
  <2>3. Selected(h, size) = start..size - 1
    BY <1>1, <1>2 DEF SuffixStart
  <2> HIDE DEF start
  <2>4. QED
    BY <2>1, <2>2, <2>3, PartialAnswer, ExactByStatus
<1>7. QED
  BY <1>4, <1>5, <1>6

\* The bytes from a first one, to a last one or to the end.
LEMMA FirstIsExact ==
  ASSUME NEW size \in Nat, NEW h \in Headers, h.form \in {"open", "closed"}
  PROVE  Exact(h, size)
<1>1. /\ h.first \in Nat /\ "first" \in DOMAIN h \ {"form"}
      /\ h.form = "closed" => h.last \in Nat /\ "last" \in DOMAIN h \ {"form"}
  BY DEF Headers
<1>2. Selected(h, size) = {i \in 0..size - 1 : h.first <= i /\ (h.form = "closed" => i <= h.last)}
  BY DEF Selected
<1>3. ParseRange(h, size) = ParseFirst(h, size)
  BY DEF ParseRange
<1> DEFINE end == LastByte(h, size)
<1>4. CASE ~Parses(h.first)
  <2>1. ParseRange(h, size) = NoRange
    BY <1>3, <1>4 DEF ParseFirst
  <2>2. QED
    BY <1>1, <1>4, <2>1, WholeAnswer, ExactByStatus
<1>5. CASE Parses(h.first) /\ h.first >= size
  <2>1. ParseRange(h, size) = Unsatisfiable
    BY <1>3, <1>5 DEF ParseFirst
  <2>2. Selected(h, size) = {}
    BY <1>1, <1>2, <1>5
  <2>3. QED
    BY <2>1, <2>2, RefusedAnswer, ExactByStatus
<1>6. CASE Parses(h.first) /\ h.first < size /\ h.form = "closed" /\ ~Parses(h.last)
  <2>1. ParseRange(h, size) = NoRange
    BY <1>1, <1>3, <1>6 DEF ParseFirst
  <2>2. QED
    BY <1>1, <1>6, <2>1, WholeAnswer, ExactByStatus
<1>7. CASE /\ Parses(h.first) /\ h.first < size /\ (h.form = "closed" => Parses(h.last))
           /\ end < h.first
  <2>1. ParseRange(h, size) = Unsatisfiable
    BY <1>1, <1>3, <1>7 DEF ParseFirst
  <2>2. Selected(h, size) = {}
    BY <1>1, <1>2, <1>7 DEF LastByte
  <2>3. QED
    BY <2>1, <2>2, RefusedAnswer, ExactByStatus
<1>8. CASE /\ Parses(h.first) /\ h.first < size /\ (h.form = "closed" => Parses(h.last))
           /\ end >= h.first
  <2>1. end \in Nat /\ end < size
    BY <1>1, <1>8 DEF LastByte
  <2>2. ParseRange(h, size) = Bounded(h.first, end)
    BY <1>1, <1>3, <1>8, <2>1 DEF ParseFirst
  <2>3. Selected(h, size) = h.first..end
    BY <1>1, <1>2, <1>8 DEF LastByte
  <2> HIDE DEF end
  <2>4. QED
    BY <1>1, <1>8, <2>1, <2>2, <2>3, PartialAnswer, ExactByStatus
<1>9. end \in Int
  BY <1>1 DEF LastByte
<1>10. QED
  BY <1>1, <1>4, <1>5, <1>6, <1>7, <1>8, <1>9

\* Every header gets exactly the bytes it selects, with their number, or is
\* refused because there are none; nothing else of a range is ignored than
\* what 64 bits cannot hold.  This is for objects of every size.
THEOREM RangesAlwaysExact == Spec => []RangesAreExact
<1>1. ASSUME NEW size \in 0..MaxSize, NEW h \in Headers PROVE Exact(h, size)
  <2>1. size \in Nat /\ h.form \in {"closed", "open", "suffix", "other"}
    BY DEF Headers
  <2>2. CASE h.form = "other"
    <3>1. ParseRange(h, size) = NoRange
      BY <2>2 DEF ParseRange
    <3>2. QED
      BY <2>1, <2>2, <3>1, WholeAnswer, ExactByStatus
  <2>3. QED
    BY <2>1, <2>2, SuffixIsExact, FirstIsExact
<1>2. ExactSizes = 0..MaxSize
  BY ZenonT(30), <1>1 DEF ExactSizes, Exact
<1>3. RangesAreExact
  BY <1>2 DEF RangesAreExact
<1>4. QED
  BY <1>3, PTL
===============================================================================
