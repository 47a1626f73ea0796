-------------------------- MODULE SyncEngine_proofs ---------------------------
(***************************************************************************)
(* Proofs about SyncEngine for any number of devices, documents, requests  *)
(* in progress, edits and rounds, and any length of a page.                *)
(***************************************************************************)
EXTENDS SyncEngine, FeedPage_proofs

USE LimitsArePositive, BoundsAreNat, SwitchesAreBoolean, DocsAreFinite,
    NullsAreNoValues

(* Types. *)

PullTask  == [pc : {"pull"}, round : Rounds]
CopyTask  == [pc : {"copy"}, page : PageTask, of : Docs, edit : Nat]
PushTask  == [pc : {"push", "send"}, round : Rounds, queue : Seq(Docs), conflict : BOOLEAN]
AwaitTask == [pc : {"await"}, slot : Slots, round : Rounds, queue : Seq(Docs), conflict : BOOLEAN]

\* What a device is doing is told by its pc.
LEMMA TaskByPc ==
  ASSUME TypeOK, NEW c \in Devices
  PROVE  /\ task[c].pc = "pull" => task[c] \in PullTask
         /\ task[c].pc = "apply" => task[c] \in PageTask
         /\ task[c].pc = "copy" => task[c] \in CopyTask
         /\ task[c].pc \in {"push", "send"} => task[c] \in PushTask
         /\ task[c].pc = "await" => task[c] \in AwaitTask
         /\ task[c].pc \in {"idle", "pull", "apply", "copy", "push", "send", "await"}
<1>1. task[c] \in {Resting} \cup PullTask \cup PageTask \cup CopyTask \cup PushTask \cup AwaitTask
  BY DEF TypeOK, Task, PullTask, CopyTask, PushTask, AwaitTask
<1>2. CASE task[c] = Resting
  BY <1>2 DEF Resting
<1>3. CASE task[c] \in PullTask
  BY <1>3 DEF PullTask
<1>4. CASE task[c] \in PageTask
  BY <1>4 DEF PageTask
<1>5. CASE task[c] \in CopyTask
  BY <1>5 DEF CopyTask
<1>6. CASE task[c] \in PushTask
  BY <1>6 DEF PushTask
<1>7. CASE task[c] \in AwaitTask
  BY <1>7 DEF AwaitTask
<1>8. QED
  BY <1>1, <1>2, <1>3, <1>4, <1>5, <1>6, <1>7

\* A device takes up a new task.
LEMMA BecomeType ==
  ASSUME TypeOK, NEW c \in Devices, NEW t, Become(c, t),
         t \in {Resting} \cup PullTask \cup PageTask \cup CopyTask \cup PushTask \cup AwaitTask
  PROVE  /\ task' \in [Devices -> Task] /\ task'[c] = t
         /\ \A e \in Devices : e # c => task'[e] = task[e]
<1>1. t \in Task
  BY DEF Task, PullTask, CopyTask, PushTask, AwaitTask
<1>2. QED
  BY <1>1 DEF Become, TypeOK

\* The cache loses files that may be evicted, and no others.
LEMMA CacheType ==
  ASSUME TypeOK, NEW c \in Devices, NEW rows, NEW files \in SUBSET Docs, Cache(c, rows, files)
  PROVE  /\ cached' \in [Devices -> SUBSET Docs]
         /\ \A e \in Devices : e # c => cached'[e] = cached[e]
         /\ \A b \in files : b \notin Evictable(rows, files) => b \in cached'[c]
<1>1. PICK gone \in SUBSET Evictable(rows, files) : cached' = [cached EXCEPT ![c] = files \ gone]
  BY DEF Cache
<1>2. QED
  BY <1>1 DEF TypeOK

\* The fields of a local row.
LEMMA LocalRowFields ==
  ASSUME NEW r \in LocalRow
  PROVE  /\ r.version \in Nat /\ r.base \in Nat /\ r.blob \in Docs \cup {NoBlob}
         /\ r.meta \in Meta \cup {NoMeta} /\ r.deleted \in BOOLEAN /\ r.dirty \in BOOLEAN
         /\ (r.blob # NoBlob) <=> (r.version > 0 /\ ~r.deleted)
         /\ LiveRow(r) => r.blob \in Docs
BY DEF LocalRow, LiveRow, Present

\* A record is a local row if it has a blob exactly when it is live.
LEMMA MakeLocalRow ==
  ASSUME NEW version \in Nat, NEW base \in Nat, NEW b \in Docs \cup {NoBlob},
         NEW meta \in Meta \cup {NoMeta}, NEW deleted \in BOOLEAN, NEW dirty \in BOOLEAN,
         (b # NoBlob) <=> (version > 0 /\ ~deleted)
  PROVE  [version |-> version, base |-> base, blob |-> b, meta |-> meta,
          deleted |-> deleted, dirty |-> dirty] \in LocalRow
BY DEF LocalRow

\* The rows of one device change in one document.
LEMMA RowType ==
  ASSUME TypeOK, NEW c \in Devices, NEW d \in Docs, NEW r \in LocalRow,
         row' = [row EXCEPT ![c][d] = r]
  PROVE  /\ row' \in [Devices -> [Docs -> LocalRow]]
         /\ row'[c][d] = r /\ \A e \in Docs : e # d => row'[c][e] = row[c][e]
         /\ \A e \in Devices : e # c => row'[e] = row[e]
BY DEF TypeOK

\* The row that a change of metadata writes.
EditedRow(r) == [r EXCEPT !.version = NextVersion(r), !.dirty = TRUE,
                          !.meta = [edit |-> edits + 1, sealed |-> NextVersion(r)]]

DeletedRow(r) == [r EXCEPT !.version = NextVersion(r), !.dirty = TRUE,
                           !.deleted = TRUE, !.blob = NoBlob,
                           !.meta = [edit |-> edits + 1, sealed |-> NextVersion(r)]]

NewRow(d) == [version |-> 1, base |-> 0, blob |-> d, deleted |-> FALSE,
              dirty |-> TRUE, meta |-> [edit |-> edits + 1, sealed |-> 1]]

\* What the users' edits make of a row.
LEMMA EditedRows ==
  ASSUME TypeOK
  PROVE  /\ \A d \in Docs : NewRow(d) \in LocalRow
         /\ \A r \in LocalRow : LiveRow(r) => /\ EditedRow(r) \in LocalRow
                                              /\ DeletedRow(r) \in LocalRow
         /\ \A r \in LocalRow :
              /\ EditedRow(r).version = r.base + 1 /\ EditedRow(r).base = r.base
              /\ EditedRow(r).dirty /\ EditedRow(r).deleted = r.deleted /\ EditedRow(r).blob = r.blob
              /\ EditedRow(r).meta = [edit |-> edits + 1, sealed |-> r.base + 1]
              /\ DeletedRow(r).version = r.base + 1 /\ DeletedRow(r).base = r.base
              /\ DeletedRow(r).dirty /\ DeletedRow(r).deleted /\ DeletedRow(r).blob = NoBlob
              /\ DeletedRow(r).meta = [edit |-> edits + 1, sealed |-> r.base + 1]
<1>1. edits \in Nat
  BY DEF TypeOK
<1>2. [edit |-> edits + 1, sealed |-> 1] \in Meta
      /\ \A n \in Nat : [edit |-> edits + 1, sealed |-> n] \in Meta
  BY <1>1 DEF Meta
<1>3. ASSUME NEW d \in Docs PROVE NewRow(d) \in LocalRow
  BY <1>2 DEF NewRow, LocalRow
<1>4. ASSUME NEW r \in LocalRow
      PROVE  /\ EditedRow(r).version = r.base + 1 /\ EditedRow(r).base = r.base
             /\ EditedRow(r).dirty /\ EditedRow(r).deleted = r.deleted /\ EditedRow(r).blob = r.blob
             /\ EditedRow(r).meta = [edit |-> edits + 1, sealed |-> r.base + 1]
             /\ DeletedRow(r).version = r.base + 1 /\ DeletedRow(r).base = r.base
             /\ DeletedRow(r).dirty /\ DeletedRow(r).deleted /\ DeletedRow(r).blob = NoBlob
             /\ DeletedRow(r).meta = [edit |-> edits + 1, sealed |-> r.base + 1]
  BY DEF LocalRow, EditedRow, DeletedRow, NextVersion
<1>5. ASSUME NEW r \in LocalRow, LiveRow(r)
      PROVE  EditedRow(r) \in LocalRow /\ DeletedRow(r) \in LocalRow
  <2>1. r.base \in Nat /\ NextVersion(r) \in Nat /\ NextVersion(r) > 0 /\ r.blob # NoBlob /\ ~r.deleted
    BY <1>5, LocalRowFields DEF NextVersion, LiveRow, Present
  <2>2. [edit |-> edits + 1, sealed |-> NextVersion(r)] \in Meta
    BY <1>2, <2>1
  <2>3. QED
    BY <2>1, <2>2 DEF LocalRow, EditedRow, DeletedRow
<1>6. QED
  BY <1>3, <1>4, <1>5
-------------------------------------------------------------------------------
(* The inductive invariant.  It says of every row that a device holds, has  *)
(* been sent or waits for, how it relates to the server's row of the        *)
(* document now.                                                            *)

\* s was document d's row at some time, or is now.  Of the row of the current
\* version there is only one.
Past(d, s) ==
  /\ s \in Register!Row
  /\ s.version \in 1..doc[d].version
  /\ s.version = doc[d].version => s = doc[d]
  /\ s.meta \in Meta /\ s.meta.edit \in 1..edits
  /\ s.blob = IF s.deleted THEN NoBlob ELSE d
  /\ ~s.deleted => s.meta.sealed = s.version
  /\ s.deleted => doc[d].deleted

\* The server's table: a row that exists has a number of its own and its blob.
DocOK(d) == \/ doc[d] = Register!NoRow
            \/ Past(d, doc[d]) /\ doc[d].seq > 0

DistinctSeqs == \A d, e \in Docs : (d # e /\ Register!Exists(doc[d])) => doc[d].seq # doc[e].seq

\* What a device may ask: it names a version it was told of, and sends metadata
\* sealed for the next one; it does not write over a tombstone.
RequestOK(q) ==
  /\ q.ifm <= doc[q.id].version
  /\ (q.op = "put" /\ q.ifm = doc[q.id].version) => ~doc[q.id].deleted
  /\ q.op = "put" => /\ q.blob = q.id
                     /\ q.meta.sealed = q.ifm + 1 /\ q.meta.edit \in 1..edits

\* An accepted request has made its row, which may be behind by now.
AcceptedOK(q, s) ==
  /\ Past(q.id, s) /\ s.version = q.ifm + 1
  /\ s.deleted <=> q.op = "delete"
  /\ q.op = "put" => s.meta = q.meta

CallOK(s) ==
  /\ call[s].pc = "open" => RequestOK(call[s].q)
  /\ (call[s].pc = "answered" /\ call[s].code \in {"created", "updated"})
        => AcceptedOK(call[s].q, call[s].row)
  /\ call[s].pc = "answered" => call[s].code # "error"

\* A local row: clean at the version confirmed, or dirty at the next one.
RowOK(c, d) ==
  LET r == row[c][d] IN
  /\ r.version = 0 => r = NoLocalRow
  /\ r.base <= doc[d].version
  /\ r.version = IF r.dirty THEN r.base + 1 ELSE r.base
  /\ Present(r) => r.meta \in Meta /\ r.meta.edit \in 1..edits
  /\ LiveRow(r) => r.blob = d /\ r.meta.sealed = r.version
  /\ (LiveRow(r) /\ ~r.dirty /\ r.version = doc[d].version)
       => r.meta = doc[d].meta /\ r.blob = doc[d].blob /\ ~doc[d].deleted
  /\ (LiveRow(r) /\ r.base = doc[d].version) => ~doc[d].deleted
  /\ (LiveRow(r) /\ r.base = 0) => d \in cached[c] \/ doc[d].deleted

\* The edits waiting on one device were made one after another.
DistinctEdits(c) ==
  \A d, e \in Docs : (d # e /\ row[c][d].dirty /\ row[c][e].dirty)
                       => row[c][d].meta.edit # row[c][e].meta.edit

\* A number the server has given out already.
Given(n) == n = 0 \/ \E d \in Docs : n <= doc[d].seq

CursorOK(c) ==
  /\ Given(cursor[c])
  /\ \A d \in Docs : doc[d].seq <= cursor[c] => row[c][d].base = doc[d].version

\* A page being applied: what is left of it are rows the server had, ahead of
\* the local ones, each document once; with them the device has all rows up to
\* the page's next cursor.
PageOK(c, t) ==
  /\ t.next >= cursor[c] /\ Given(t.next)
  /\ \A i \in DOMAIN t.items : /\ Past(t.items[i].id, t.items[i].rec)
                               /\ row[c][t.items[i].id].base <= t.items[i].rec.version
  /\ \A i, j \in DOMAIN t.items : i # j => t.items[i].id # t.items[j].id
  /\ \A d \in Docs : doc[d].seq <= t.next
       => \/ row[c][d].base = doc[d].version
          \/ \E i \in DOMAIN t.items : t.items[i] = [id |-> d, rec |-> doc[d]]

\* A push being worked through: dirty documents, each once.
QueueOK(c, q) ==
  /\ \A i \in DOMAIN q : row[c][q[i]].dirty
  /\ \A i, j \in DOMAIN q : i # j => q[i] # q[j]

TaskOK(c) ==
  LET t == task[c] IN
  /\ t.pc = "apply" => PageOK(c, t)
  /\ t.pc = "copy" => PageOK(c, t.page) /\ t.edit \in 1..edits
  /\ t.pc \in {"push", "send", "await"} => QueueOK(c, t.queue)
  /\ t.pc \in {"send", "await"} => t.queue # <<>>
  /\ t.pc = "await" => /\ call[t.slot].pc \in {"open", "answered"}
                       /\ call[t.slot].q = RequestFor(Head(t.queue), row[c][Head(t.queue)])

DeviceOK(c) == /\ \A d \in Docs : RowOK(c, d)
               /\ DistinctEdits(c) /\ CursorOK(c) /\ TaskOK(c)

\* A request has one sender.
OneSender == \A c, e \in Devices :
  (task[c].pc = "await" /\ task[e].pc = "await" /\ task[c].slot = task[e].slot) => c = e

IInv == /\ TypeOK
        /\ \A d \in Docs : DocOK(d)
        /\ DistinctSeqs /\ ServerBlobKept
        /\ \A s \in Slots : CallOK(s)
        /\ \A c \in Devices : DeviceOK(c)
        /\ OneSender

-------------------------------------------------------------------------------
(* What stays true of one part of the system while another one moves.      *)

\* The server's rows stay, or move to a later version under a number greater
\* than all, and tombstones to tombstones; edits are counted up.
Forward == /\ \A d \in Docs : \/ doc'[d] = doc[d]
                              \/ /\ doc'[d].version > doc[d].version
                                 /\ \A e \in Docs : doc'[d].seq > doc[e].seq
                                 /\ doc[d].deleted => doc'[d].deleted
           /\ edits' >= edits

\* The numbers in a row.
LEMMA RowFields ==
  ASSUME NEW s \in Register!Row
  PROVE  /\ s.version \in Nat /\ s.seq \in Nat /\ s.deleted \in BOOLEAN
         /\ s.blob \in Docs \cup {NoBlob} /\ s.meta \in Meta \cup {NoMeta}
BY DEF Register!Row

\* A row the server had is one it has had.
LEMMA PastStays ==
  ASSUME TypeOK, TypeOK', Forward, NEW d \in Docs, NEW s, Past(d, s)
  PROVE  Past(d, s)'
<1>1. doc[d] \in Register!Row /\ doc'[d] \in Register!Row /\ edits \in Nat /\ edits' \in Nat
  BY DEF TypeOK
<1>2. /\ doc[d].version \in Nat /\ doc'[d].version \in Nat /\ doc'[d].version >= doc[d].version
      /\ doc'[d].version = doc[d].version => doc'[d] = doc[d]
  BY <1>1, RowFields DEF Forward
<1>3. s.version \in 1..doc[d].version /\ s.meta.edit \in 1..edits
  BY DEF Past
<1>4. edits' >= edits
  BY DEF Forward
<1>5. s.version \in 1..doc'[d].version /\ s.meta.edit \in 1..edits'
  BY <1>1, <1>2, <1>3, <1>4
<1>6. s.version = doc'[d].version => s = doc'[d]
  BY <1>2, <1>3 DEF Past
<1>7. s.deleted => doc'[d].deleted
  BY DEF Past, Forward
<1>8. QED
  BY <1>5, <1>6, <1>7 DEF Past

\* While the table is not written, the server's rows stay as sound as they were.
LEMMA TableKeeps ==
  ASSUME IInv, TypeOK', doc' = doc, edits' >= edits
  PROVE  /\ Forward
         /\ \A d \in Docs : DocOK(d)'
         /\ DistinctSeqs'
<1>1. Forward
  BY DEF Forward
<1>2. ASSUME NEW d \in Docs PROVE DocOK(d)'
  <2>1. CASE doc[d] = Register!NoRow
    BY <2>1 DEF DocOK
  <2>2. CASE Past(d, doc[d]) /\ doc[d].seq > 0
    <3>1. Past(d, doc[d])'
      BY <1>1, <2>2, PastStays DEF IInv
    <3>2. QED
      BY <2>2, <3>1 DEF DocOK
  <2>3. QED
    BY <2>1, <2>2 DEF IInv, DocOK
<1>3. DistinctSeqs'
  BY DEF IInv, DistinctSeqs
<1>4. QED
  BY <1>1, <1>2, <1>3

\* A request in progress stays sound whatever others do.
LEMMA CallKeeps ==
  ASSUME IInv, TypeOK', Forward, NEW s \in Slots, call'[s] = call[s]
  PROVE  CallOK(s)'
<1>1. call[s] \in Call /\ CallOK(s) /\ doc \in [Docs -> Register!Row] /\ doc' \in [Docs -> Register!Row]
      /\ edits \in Nat /\ edits' \in Nat
  BY DEF IInv, TypeOK
<1>2. call[s].pc \in {"open", "answered"} => call[s].q \in Register!Request
  BY <1>1 DEF Call, Register!Quiet
<1>3. CASE call[s].pc = "open"
  <2> DEFINE q == call[s].q
  <2>1. q.id \in Docs /\ q.ifm \in Nat
    BY <1>2, <1>3 DEF Register!Request
  <2>2. RequestOK(q)
    BY <1>1, <1>3 DEF CallOK
  <2> HIDE DEF q
  <2>3. doc[q.id].version \in Nat /\ doc'[q.id].version \in Nat
        /\ doc'[q.id].version >= doc[q.id].version
    BY <1>1, <2>1, RowFields DEF Forward
  <2>4. q.ifm <= doc'[q.id].version
    BY <2>1, <2>2, <2>3 DEF RequestOK
  <2>5. q.op = "put" => q.meta.edit \in 1..edits'
    BY <1>1, <2>2 DEF RequestOK, Forward
  <2>8. (q.op = "put" /\ q.ifm = doc'[q.id].version) => ~doc'[q.id].deleted
    <3>1. SUFFICES ASSUME q.ifm = doc'[q.id].version PROVE doc'[q.id] = doc[q.id]
      BY <2>2, <2>3 DEF RequestOK
    <3>2. doc[q.id].version = doc'[q.id].version
      BY <2>1, <2>2, <2>3, <3>1 DEF RequestOK
    <3>3. QED
      BY <2>1, <2>3, <3>2 DEF Forward
  <2>6. RequestOK(q)'
    BY <2>2, <2>4, <2>5, <2>8 DEF RequestOK, q
  <2>7. QED
    BY <1>3, <2>6 DEF CallOK, q
<1>4. CASE call[s].pc = "answered" /\ call[s].code \in {"created", "updated"}
  <2> DEFINE q == call[s].q
             r == call[s].row
  <2>1. q.id \in Docs
    BY <1>2, <1>4 DEF Register!Request
  <2>2. AcceptedOK(q, r)
    BY <1>1, <1>4 DEF CallOK
  <2> HIDE DEF q, r
  <2>3. Past(q.id, r)'
    <3> DEFINE id == q.id
    <3>1. Past(id, r)
      BY <2>2 DEF AcceptedOK
    <3> HIDE DEF id
    <3>2. TypeOK
      BY DEF IInv
    <3>3. QED
      BY <2>1, <3>1, <3>2, PastStays DEF id, q, r
  <2>4. AcceptedOK(q, r)'
    BY <2>2, <2>3 DEF AcceptedOK, q, r
  <2>5. QED
    BY <1>1, <1>4, <2>4 DEF CallOK, q, r
<1>5. CASE call[s].pc # "open" /\ ~(call[s].pc = "answered" /\ call[s].code \in {"created", "updated"})
  BY <1>1, <1>5 DEF CallOK
<1>6. QED
  BY <1>3, <1>4, <1>5

\* What Forward says of numbers.
LEMMA ForwardNumbers ==
  ASSUME TypeOK, TypeOK', Forward, NEW d \in Docs
  PROVE  /\ doc[d].version \in Nat /\ doc'[d].version \in Nat
         /\ doc[d].seq \in Nat /\ doc'[d].seq \in Nat
         /\ doc'[d].version >= doc[d].version /\ doc'[d].seq >= doc[d].seq
         /\ doc'[d].version = doc[d].version => doc'[d] = doc[d]
         /\ edits \in Nat /\ edits' \in Nat /\ edits' >= edits
<1>1. doc[d] \in Register!Row /\ doc'[d] \in Register!Row /\ edits \in Nat /\ edits' \in Nat
  BY DEF TypeOK
<1>2. /\ doc[d].version \in Nat /\ doc'[d].version \in Nat
      /\ doc[d].seq \in Nat /\ doc'[d].seq \in Nat
  BY <1>1, RowFields
<1>3. CASE doc'[d] = doc[d]
  BY <1>1, <1>2, <1>3 DEF Forward
<1>4. CASE doc'[d] # doc[d]
  <2>1. doc'[d].version > doc[d].version /\ doc'[d].seq > doc[d].seq
    BY <1>4 DEF Forward
  <2>2. QED
    BY <1>1, <1>2, <2>1 DEF Forward
<1>5. QED
  BY <1>3, <1>4

\* A number that was given out is still given, and no row that moves now gets
\* one at or below it.
LEMMA GivenStays ==
  ASSUME TypeOK, TypeOK', Forward, NEW n \in Nat, Given(n)
  PROVE  /\ Given(n)'
         /\ \A d \in Docs : doc'[d].seq <= n => doc'[d] = doc[d]
<1>1. Given(n)'
  <2>1. CASE n = 0
    BY <2>1 DEF Given
  <2>2. ASSUME NEW d \in Docs, n <= doc[d].seq PROVE Given(n)'
    <3>1. n <= doc'[d].seq
      BY <2>2, ForwardNumbers
    <3>2. QED
      BY <3>1 DEF Given
  <2>3. QED
    BY <2>1, <2>2 DEF Given
<1>2. ASSUME NEW d \in Docs, doc'[d].seq <= n, doc'[d] # doc[d] PROVE FALSE
  <2>1. \A e \in Docs : doc'[d].seq > doc[e].seq
    BY <1>2 DEF Forward
  <2>2. doc'[d].seq \in Nat /\ doc[d].seq \in Nat
    BY ForwardNumbers
  <2>3. CASE n = 0
    BY <1>2, <2>1, <2>2, <2>3
  <2>4. ASSUME NEW e \in Docs, n <= doc[e].seq PROVE FALSE
    <3>1. doc[e].seq \in Nat
      BY ForwardNumbers
    <3>2. QED
      BY <1>2, <2>1, <2>2, <2>4, <3>1
  <2>5. QED
    BY <2>3, <2>4 DEF Given
<1>3. QED
  BY <1>1, <1>2

\* A local row that nobody touches stays sound while the server moves on: a
\* clean row is behind then.
LEMMA RowKeeps ==
  ASSUME TypeOK, TypeOK', Forward, NEW c \in Devices, NEW d \in Docs, RowOK(c, d),
         row'[c][d] = row[c][d],
         (LiveRow(row[c][d]) /\ row[c][d].base = 0) => d \in cached'[c] \/ doc[d].deleted
  PROVE  RowOK(c, d)'
<1> DEFINE r == row[c][d]
<1>1. r \in LocalRow /\ row'[c][d] = r
  BY DEF TypeOK
<1>2. /\ r.version \in Nat /\ r.base \in Nat /\ r.dirty \in BOOLEAN
  BY <1>1, LocalRowFields
<1> HIDE DEF r
<1>3. /\ r.version = 0 => r = NoLocalRow
      /\ r.base <= doc[d].version
      /\ r.version = IF r.dirty THEN r.base + 1 ELSE r.base
      /\ Present(r) => r.meta \in Meta /\ r.meta.edit \in 1..edits
      /\ LiveRow(r) => r.blob = d /\ r.meta.sealed = r.version
      /\ (LiveRow(r) /\ ~r.dirty /\ r.version = doc[d].version)
           => r.meta = doc[d].meta /\ r.blob = doc[d].blob /\ ~doc[d].deleted
      /\ (LiveRow(r) /\ r.base = doc[d].version) => ~doc[d].deleted
  BY DEF RowOK, r
<1>4. r.base <= doc'[d].version
  BY <1>2, <1>3, ForwardNumbers
<1>5. Present(r) => r.meta.edit \in 1..edits'
  BY <1>3, ForwardNumbers
<1>6. (LiveRow(r) /\ ~r.dirty /\ r.version = doc'[d].version)
        => r.meta = doc'[d].meta /\ r.blob = doc'[d].blob /\ ~doc'[d].deleted
  <2>1. SUFFICES ASSUME LiveRow(r), ~r.dirty, r.version = doc'[d].version
                 PROVE  doc'[d] = doc[d]
    BY <1>3
  <2>2. doc[d].version = doc'[d].version
    BY <1>2, <1>3, <2>1, ForwardNumbers
  <2>3. QED
    BY <2>2, ForwardNumbers
<1>7. (LiveRow(r) /\ r.base = 0) => d \in cached'[c] \/ doc'[d].deleted
  BY DEF r, Forward
<1>10. (LiveRow(r) /\ r.base = doc'[d].version) => ~doc'[d].deleted
  <2>1. SUFFICES ASSUME LiveRow(r), r.base = doc'[d].version
                 PROVE  doc'[d] = doc[d]
    BY <1>3
  <2>2. doc[d].version = doc'[d].version
    BY <1>2, <1>3, <2>1, ForwardNumbers
  <2>3. QED
    BY <2>2, ForwardNumbers
<1>8. RowOK(c, d)' = /\ r.version = 0 => r = NoLocalRow
                     /\ r.base <= doc'[d].version
                     /\ r.version = IF r.dirty THEN r.base + 1 ELSE r.base
                     /\ Present(r) => r.meta \in Meta /\ r.meta.edit \in 1..edits'
                     /\ LiveRow(r) => r.blob = d /\ r.meta.sealed = r.version
                     /\ (LiveRow(r) /\ ~r.dirty /\ r.version = doc'[d].version)
                          => r.meta = doc'[d].meta /\ r.blob = doc'[d].blob /\ ~doc'[d].deleted
                     /\ (LiveRow(r) /\ r.base = doc'[d].version) => ~doc'[d].deleted
                     /\ (LiveRow(r) /\ r.base = 0) => d \in cached'[c] \/ doc'[d].deleted
  BY <1>1 DEF RowOK, LiveRow, Present
<1>9. QED
  BY <1>3, <1>4, <1>5, <1>6, <1>7, <1>8, <1>10

\* So does the cursor of a device whose rows keep what they are based on.
LEMMA CursorKeeps ==
  ASSUME TypeOK, TypeOK', Forward, NEW c \in Devices, CursorOK(c), cursor'[c] = cursor[c],
         \A d \in Docs : doc'[d] = doc[d] /\ row[c][d].base = doc[d].version
                           => row'[c][d].base = doc[d].version
  PROVE  CursorOK(c)'
<1>1. cursor[c] \in Nat /\ Given(cursor[c])
  BY DEF CursorOK, TypeOK
<1>2. /\ \A n \in Nat : Given(n) => /\ Given(n)'
                                    /\ \A d \in Docs : doc'[d].seq <= n => doc'[d] = doc[d]
  BY GivenStays
<1>3. Given(cursor[c])' /\ \A d \in Docs : doc'[d].seq <= cursor[c] => doc'[d] = doc[d]
  BY <1>1, <1>2 DEF Given
<1>4. QED
  BY <1>3 DEF CursorOK, Given

\* The items of a page being applied.
LEMMA PageItems ==
  ASSUME NEW t \in PageTask
  PROVE  /\ t.items \in Seq([id : Docs, rec : Register!Row]) /\ t.next \in Nat
         /\ \A i \in DOMAIN t.items : /\ t.items[i].id \in Docs /\ t.items[i].rec \in Register!Row
                                      /\ t.items[i] = [id |-> t.items[i].id, rec |-> t.items[i].rec]
         /\ t.pc = "apply" /\ t.round \in Rounds /\ t.more \in BOOLEAN
<1>1. /\ t.items \in Seq([id : Docs, rec : Register!Row]) /\ t.next \in Nat
      /\ t.pc = "apply" /\ t.round \in Rounds /\ t.more \in BOOLEAN
  BY DEF PageTask, Pages
<1>2. \A i \in DOMAIN t.items : t.items[i] \in [id : Docs, rec : Register!Row]
  <2> DEFINE Items == [id : Docs, rec : Register!Row]
             seq   == t.items
  <2>1. seq \in Seq(Items)
    BY <1>1
  <2> HIDE DEF Items, seq
  <2>2. \A i \in DOMAIN seq : seq[i] \in Items
    BY <2>1
  <2>3. QED
    BY <2>2 DEF Items, seq
<1>3. QED
  BY <1>1, <1>2

\* A page being applied stays sound while the server moves on: what moved has
\* numbers beyond it.
LEMMA PageKeeps ==
  ASSUME TypeOK, TypeOK', Forward, NEW c \in Devices, NEW t \in PageTask, PageOK(c, t),
         cursor'[c] = cursor[c],
         \A d \in Docs : row'[c][d].base = row[c][d].base
  PROVE  PageOK(c, t)'
<1>1. t.next \in Nat /\ Given(t.next) /\ t.next >= cursor[c]
  BY PageItems DEF PageOK
<1>2. \A n \in Nat : Given(n) => /\ Given(n)'
                                 /\ \A d \in Docs : doc'[d].seq <= n => doc'[d] = doc[d]
  BY GivenStays
<1>3. Given(t.next)' /\ \A d \in Docs : doc'[d].seq <= t.next => doc'[d] = doc[d]
  BY <1>1, <1>2 DEF Given
<1>4. ASSUME NEW i \in DOMAIN t.items
      PROVE  /\ Past(t.items[i].id, t.items[i].rec)'
             /\ row'[c][t.items[i].id].base <= t.items[i].rec.version
  <2>1. t.items[i].id \in Docs
    BY <1>4, PageItems
  <2>2. Past(t.items[i].id, t.items[i].rec) /\ row[c][t.items[i].id].base <= t.items[i].rec.version
    BY <1>4 DEF PageOK
  <2>3. QED
    BY <2>1, <2>2, PastStays
<1>5. \A i, j \in DOMAIN t.items : i # j => t.items[i].id # t.items[j].id
  BY DEF PageOK
<1>6. ASSUME NEW d \in Docs, doc'[d].seq <= t.next
      PROVE  \/ row'[c][d].base = doc'[d].version
             \/ \E i \in DOMAIN t.items : t.items[i] = [id |-> d, rec |-> doc'[d]]
  BY <1>3, <1>6 DEF PageOK
<1>7. QED
  BY <1>1, <1>3, <1>4, <1>5, <1>6 DEF PageOK

\* A task that nobody touches stays sound.
LEMMA TaskKeeps ==
  ASSUME TypeOK, TypeOK', Forward, NEW c \in Devices, TaskOK(c),
         task'[c] = task[c], row'[c] = row[c], cursor'[c] = cursor[c],
         task[c].pc = "await" => /\ call'[task[c].slot].pc \in {"open", "answered"}
                                 /\ call'[task[c].slot].q = call[task[c].slot].q
  PROVE  TaskOK(c)'
<1> DEFINE t == task[c]
<1>1. CASE t.pc = "apply"
  <2>1. t \in PageTask /\ PageOK(c, t)
    BY <1>1, TaskByPc DEF TaskOK
  <2>2. PageOK(c, t)'
    <3>1. PICK x \in PageTask : x = t /\ x = t'
      BY <2>1
    <3>2. PageOK(c, x)'
      BY <2>1, <3>1, PageKeeps
    <3>3. QED
      BY <3>1, <3>2 DEF PageOK
  <2>3. QED
    BY <1>1, <2>2 DEF TaskOK
<1>2. CASE t.pc = "copy"
  <2> DEFINE p == t.page
  <2>1. p \in PageTask /\ PageOK(c, p) /\ t.edit \in 1..edits
    BY <1>2, TaskByPc DEF TaskOK, CopyTask
  <2>2. PICK x \in PageTask : x = p /\ x = p'
    BY <2>1
  <2>3. PageOK(c, p)'
    <3>1. PageOK(c, x)'
      BY <2>1, <2>2, PageKeeps
    <3> HIDE DEF p
    <3>2. QED
      BY <2>2, <3>1 DEF PageOK
  <2>4. t.edit \in 1..edits'
    BY <2>1 DEF Forward, TypeOK
  <2>5. QED
    BY <1>2, <2>3, <2>4 DEF TaskOK
<1>3. CASE t.pc \in {"push", "send"}
  BY <1>3 DEF TaskOK, QueueOK
<1>4. CASE t.pc = "await"
  <2>1. /\ QueueOK(c, t.queue) /\ t.queue # <<>> /\ call[t.slot].pc \in {"open", "answered"}
        /\ call[t.slot].q = RequestFor(Head(t.queue), row[c][Head(t.queue)])
    BY <1>4 DEF TaskOK
  <2>2. PICK x : x = t /\ x = t'
    OBVIOUS
  <2>3. PICK r : r = row[c] /\ r = row'[c]
    OBVIOUS
  <2>4. QueueOK(c, t.queue)'
    BY <2>1, <2>2, <2>3 DEF QueueOK
  <2>5. /\ call'[x.slot].pc \in {"open", "answered"}
        /\ call'[x.slot].q = RequestFor(Head(x.queue), r[Head(x.queue)])
    BY <1>4, <2>1, <2>2, <2>3
  <2>6. RequestFor(Head(t.queue), row[c][Head(t.queue)])' = RequestFor(Head(x.queue), r[Head(x.queue)])
    BY <2>2, <2>3 DEF RequestFor
  <2>7. QED
    BY <1>4, <2>1, <2>2, <2>4, <2>5, <2>6 DEF TaskOK
<1>5. CASE t.pc \in {"idle", "pull"}
  BY <1>5 DEF TaskOK
<1>6. QED
  BY <1>1, <1>2, <1>3, <1>4, <1>5, TaskByPc

\* A device that nobody touches stays sound.
LEMMA DeviceKeeps ==
  ASSUME TypeOK, TypeOK', Forward, NEW c \in Devices, DeviceOK(c),
         task'[c] = task[c], row'[c] = row[c], cursor'[c] = cursor[c], cached'[c] = cached[c],
         task[c].pc = "await" => /\ call'[task[c].slot].pc \in {"open", "answered"}
                                 /\ call'[task[c].slot].q = call[task[c].slot].q
  PROVE  DeviceOK(c)'
<1>1. \A d \in Docs : RowOK(c, d)'
  BY RowKeeps DEF DeviceOK, RowOK
<1>2. DistinctEdits(c)'
  BY DEF DeviceOK, DistinctEdits
<1>3. CursorOK(c)'
  BY CursorKeeps DEF DeviceOK
<1>4. TaskOK(c)'
  BY TaskKeeps DEF DeviceOK
<1>5. QED
  BY <1>1, <1>2, <1>3, <1>4 DEF DeviceOK

(* A step of one device: the others stay as they are, and so does the table. *)

\* What a step of device c leaves alone.
OthersStay(c) ==
  /\ doc' = doc /\ edits' >= edits /\ blob \subseteq blob'
  /\ \A e \in Devices : e # c => /\ row'[e] = row[e] /\ cursor'[e] = cursor[e]
                                 /\ cached'[e] = cached[e] /\ task'[e] = task[e]

\* A step of one device that starts and ends no request.
LEMMA DeviceStep ==
  ASSUME IInv, TypeOK', NEW c \in Devices, OthersStay(c), call' = call,
         DeviceOK(c)', task'[c].pc # "await"
  PROVE  IInv'
<1>1. /\ TypeOK /\ Forward /\ (\A d \in Docs : DocOK(d)') /\ DistinctSeqs'
  BY TableKeeps DEF IInv, OthersStay
<1>2. \A s \in Slots : CallOK(s)'
  BY <1>1, CallKeeps
<1>3. ASSUME NEW e \in Devices, e # c PROVE DeviceOK(e)'
  <2>1. DeviceOK(e)
    BY DEF IInv
  <2>2. task[e].pc = "await" => call[task[e].slot].pc \in {"open", "answered"}
    BY <2>1 DEF DeviceOK, TaskOK
  <2>3. QED
    BY <1>1, <1>3, <2>1, <2>2, DeviceKeeps DEF OthersStay
<1>4. ServerBlobKept'
  BY DEF IInv, ServerBlobKept, OthersStay
<1>5. OneSender'
  BY DEF IInv, OneSender, OthersStay
<1>6. QED
  BY <1>1, <1>2, <1>3, <1>4, <1>5 DEF IInv
-------------------------------------------------------------------------------
(* Users' steps. *)

\* A new document: its row, and its blob in the cache, where it must stay.
LEMMA NewDocumentEffect ==
  ASSUME TypeOK, NEW c \in Devices, NEW d \in Docs, NEW fetched \in SUBSET Docs,
         NewDocument(c, d, fetched)
  PROVE  /\ row' \in [Devices -> [Docs -> LocalRow]]
         /\ row'[c][d] = NewRow(d) /\ \A x \in Docs : x # d => row'[c][x] = row[c][x]
         /\ cached' \in [Devices -> SUBSET Docs]
         /\ \A e \in Devices : e # c => row'[e] = row[e] /\ cached'[e] = cached[e]
         /\ \A b \in cached[c] \cup {d} :
              (\E x \in Docs : row'[c][x].dirty /\ row'[c][x].blob = b) => b \in cached'[c]
         /\ edits' = edits + 1 /\ edits \in Nat /\ edits' \in Nat
<1>1. row' = [row EXCEPT ![c][d] = NewRow(d)] /\ NewRow(d) \in LocalRow
  BY EditedRows DEF NewDocument, NewRow
<1>2. /\ row' \in [Devices -> [Docs -> LocalRow]]
      /\ row'[c][d] = NewRow(d) /\ \A x \in Docs : x # d => row'[c][x] = row[c][x]
      /\ \A e \in Devices : e # c => row'[e] = row[e]
  BY <1>1, RowType
<1>3. /\ Cache(c, row'[c], cached[c] \cup fetched \cup {d})
      /\ cached[c] \cup fetched \cup {d} \in SUBSET Docs
  BY DEF NewDocument, TypeOK
<1>4. /\ cached' \in [Devices -> SUBSET Docs]
      /\ \A e \in Devices : e # c => cached'[e] = cached[e]
      /\ \A b \in cached[c] \cup fetched \cup {d} :
           b \notin Evictable(row'[c], cached[c] \cup fetched \cup {d}) => b \in cached'[c]
  BY <1>3, CacheType
<1>5. \A b \in cached[c] \cup {d} :
        (\E x \in Docs : row'[c][x].dirty /\ row'[c][x].blob = b) => b \in cached'[c]
  BY <1>4 DEF Evictable
<1>6. edits' = edits + 1 /\ edits \in Nat
  BY DEF NewDocument, TypeOK
<1>7. QED
  BY <1>2, <1>4, <1>5, <1>6

\* A row that was never pushed and its blob.
LEMMA UnpushedIsDirty ==
  ASSUME TypeOK, NEW c \in Devices, NEW d \in Docs, RowOK(c, d),
         LiveRow(row[c][d]), row[c][d].base = 0
  PROVE  row[c][d].dirty /\ row[c][d].blob = d /\ (d \in cached[c] \/ doc[d].deleted)
<1>1. row[c][d] \in LocalRow
  BY DEF TypeOK
<1>2. QED
  BY <1>1, LocalRowFields DEF RowOK, LiveRow, Present

\* An evicted cache still has the blobs that were never pushed.
LEMMA CacheKeepsUnpushed ==
  ASSUME IInv, NEW c \in Devices, NEW files \in SUBSET Docs, cached[c] \subseteq files,
         Cache(c, row[c], files)
  PROVE  \A d \in Docs : (LiveRow(row[c][d]) /\ row[c][d].base = 0)
                           => d \in cached'[c] \/ doc[d].deleted
<1>1. SUFFICES ASSUME NEW d \in Docs, LiveRow(row[c][d]), row[c][d].base = 0,
                      ~doc[d].deleted
               PROVE  d \in cached'[c]
  OBVIOUS
<1>2. row[c][d].dirty /\ row[c][d].blob = d /\ d \in cached[c]
  BY <1>1, UnpushedIsDirty DEF IInv, DeviceOK
<1>3. d \in files /\ d \notin Evictable(row[c], files)
  BY <1>2 DEF Evictable
<1>4. QED
  BY <1>3, CacheType DEF IInv

\* A new row on a device that knows nothing of the document: the device stays
\* sound but for its task.
LEMMA NewDocumentRows ==
  ASSUME IInv, TypeOK', NEW c \in Devices, NEW d \in FreshDocs, NEW fetched \in SUBSET Docs,
         NewDocument(c, d, fetched), doc' = doc, cursor' = cursor
  PROVE  /\ \A x \in Docs : RowOK(c, x)' /\ row'[c][x].base = row[c][x].base
         /\ DistinctEdits(c)' /\ CursorOK(c)' /\ Forward
         /\ \A e \in Devices : e # c => row'[e] = row[e] /\ cached'[e] = cached[e]
<1>0. TypeOK /\ d \in Docs /\ DeviceOK(c)
  BY DEF IInv, FreshDocs
<1>1. /\ row'[c][d] = NewRow(d) /\ \A x \in Docs : x # d => row'[c][x] = row[c][x]
      /\ \A e \in Devices : e # c => row'[e] = row[e] /\ cached'[e] = cached[e]
      /\ \A b \in cached[c] \cup {d} :
           (\E x \in Docs : row'[c][x].dirty /\ row'[c][x].blob = b) => b \in cached'[c]
      /\ edits' = edits + 1 /\ edits \in Nat
  BY <1>0, NewDocumentEffect
<1>2. Forward
  BY <1>1 DEF Forward
<1>3. row[c][d] = NoLocalRow
  <2>1. row[c][d].version \in Nat /\ ~Present(row[c][d])
    BY <1>0, LocalRowFields DEF TypeOK, FreshDocs
  <2>2. QED
    BY <1>0, <2>1 DEF DeviceOK, RowOK, Present
<1>4. doc[d].version \in Nat
  BY <1>0, <1>2, ForwardNumbers
<1>5. RowOK(c, d)'
  <2>1. NewRow(d).dirty /\ NewRow(d).blob = d
    BY DEF NewRow
  <2>2. d \in cached'[c]
    BY <1>0, <1>1, <2>1
  <2>3. [edit |-> edits + 1, sealed |-> 1] \in Meta /\ edits + 1 \in 1..edits'
    BY <1>1 DEF Meta
  <2>5. ~doc[d].deleted
    <3>1. ~Register!Exists(doc[d]) /\ DocOK(d)
      BY <1>0 DEF FreshDocs, IInv
    <3>2. Past(d, doc[d]) => Register!Exists(doc[d])
      BY <1>4 DEF Past, Register!Exists
    <3>3. QED
      BY <3>1, <3>2 DEF DocOK, Register!NoRow
  <2>4. QED
    BY <1>1, <1>4, <2>2, <2>3, <2>5 DEF RowOK, NewRow, Present, LiveRow
<1>6. ASSUME NEW x \in Docs, x # d PROVE RowOK(c, x)'
  <2>1. RowOK(c, x) /\ row'[c][x] = row[c][x]
    BY <1>0, <1>1, <1>6 DEF DeviceOK
  <2>2. (LiveRow(row[c][x]) /\ row[c][x].base = 0) => x \in cached'[c] \/ doc[x].deleted
    BY <1>0, <1>1, <2>1, UnpushedIsDirty
  <2>3. QED
    BY <1>0, <1>2, <2>1, <2>2, RowKeeps
<1>7. \A x \in Docs : row'[c][x].base = row[c][x].base
  BY <1>1, <1>3 DEF NewRow, NoLocalRow
<1>8. DistinctEdits(c)'
  <2>1. row'[c][d].meta.edit = edits + 1
    BY <1>1 DEF NewRow
  <2>2. ASSUME NEW x \in Docs, x # d, row'[c][x].dirty PROVE row'[c][x].meta.edit # edits + 1
    <3>1. row'[c][x] = row[c][x] /\ row[c][x] \in LocalRow /\ RowOK(c, x)
      BY <1>0, <1>1, <2>2 DEF TypeOK, DeviceOK
    <3>2. row[c][x].meta.edit \in 1..edits
      BY <2>2, <3>1, LocalRowFields DEF RowOK, Present
    <3>3. QED
      BY <1>1, <3>1, <3>2
  <2>3. QED
    BY <1>0, <1>1, <2>1, <2>2 DEF DistinctEdits, DeviceOK
<1>9. CursorOK(c)'
  BY <1>0, <1>2, <1>7, CursorKeeps DEF DeviceOK
<1>10. QED
  BY <1>1, <1>2, <1>5, <1>6, <1>7, <1>8, <1>9

\* A user adds a document.
LEMMA AddStep ==
  ASSUME IInv, NEW c \in Devices, Add(c) PROVE IInv'
<1>0. TypeOK /\ DeviceOK(c)
  BY DEF IInv
<1>1. PICK d \in FreshDocs : NewDocument(c, d, {})
  BY DEF Add
<1>2. d \in Docs /\ {} \in SUBSET Docs
  BY DEF FreshDocs
<1>3. TypeOK'
  BY <1>0, <1>1, <1>2, NewDocumentEffect DEF Add, TypeOK, server, bounds
<1>4. /\ \A x \in Docs : RowOK(c, x)'
      /\ DistinctEdits(c)' /\ CursorOK(c)' /\ Forward
      /\ \A e \in Devices : e # c => row'[e] = row[e] /\ cached'[e] = cached[e]
  BY <1>1, <1>2, <1>3, NewDocumentRows DEF Add, server
<1>5. TaskOK(c)'
  BY DEF Add, Idle, TaskOK
<1>6. OthersStay(c) /\ call' = call /\ task'[c].pc # "await"
  BY <1>4 DEF OthersStay, Add, Forward, server, Idle
<1>7. QED
  BY <1>3, <1>4, <1>5, <1>6, DeviceStep DEF DeviceOK

\* A user's edit of a row: it is based on what it was based on, and it is the
\* latest of the device.
LEMMA EditStep ==
  ASSUME IInv, TypeOK', NEW c \in Devices, NEW d \in Docs, NEW r, r \in LocalRow,
         Idle(c), LiveRow(row[c][d]),
         row' = [row EXCEPT ![c][d] = r],
         r.dirty, r.base = row[c][d].base, r.version = r.base + 1,
         r.meta = [edit |-> edits + 1, sealed |-> r.version],
         r.blob = row[c][d].blob \/ r.deleted,
         edits' = edits + 1,
         UNCHANGED <<server, blob, cursor, cached, task, bounds>>
  PROVE  IInv'
<1>0. /\ TypeOK /\ DeviceOK(c) /\ RowOK(c, d) /\ edits \in Nat
      /\ doc' = doc /\ call' = call /\ cached' = cached /\ cursor' = cursor /\ task' = task
      /\ blob' = blob
  BY DEF IInv, DeviceOK, TypeOK, server
<1>1. /\ row'[c][d] = r /\ \A x \in Docs : x # d => row'[c][x] = row[c][x]
      /\ \A e \in Devices : e # c => row'[e] = row[e]
  BY <1>0 DEF TypeOK
<1>2. Forward /\ OthersStay(c)
  BY <1>0, <1>1 DEF Forward, OthersStay
<1>3. r.base \in Nat /\ r.version \in Nat /\ r.version > 0 /\ r.base <= doc[d].version
  BY <1>0, LocalRowFields DEF RowOK
<1>4. RowOK(c, d)'
  <2>1. [edit |-> edits + 1, sealed |-> r.version] \in Meta /\ edits + 1 \in 1..edits'
    BY <1>0, <1>3 DEF Meta
  <2>2. LiveRow(r) => r.blob = d
    BY <1>0 DEF RowOK, LiveRow
  <2>3. /\ (LiveRow(r) /\ r.base = 0) => d \in cached[c] \/ doc[d].deleted
        /\ (LiveRow(r) /\ r.base = doc[d].version) => ~doc[d].deleted
    BY <1>0 DEF RowOK
  <2>4. r.meta.sealed = r.version /\ r.meta.edit = edits + 1
    OBVIOUS
  <2>5. QED
    BY <1>0, <1>1, <1>3, <2>1, <2>2, <2>3, <2>4 DEF RowOK, Present, LiveRow
<1>5. ASSUME NEW x \in Docs, x # d PROVE RowOK(c, x)'
  <2>1. RowOK(c, x) /\ row'[c][x] = row[c][x]
    BY <1>0, <1>1, <1>5 DEF DeviceOK
  <2>2. (LiveRow(row[c][x]) /\ row[c][x].base = 0) => x \in cached'[c] \/ doc[x].deleted
    BY <1>0, <2>1, UnpushedIsDirty
  <2>3. QED
    BY <1>0, <1>2, <2>1, <2>2, RowKeeps
<1>6. DistinctEdits(c)'
  <2>1. row'[c][d].meta.edit = edits + 1
    BY <1>1
  <2>2. ASSUME NEW x \in Docs, x # d, row'[c][x].dirty PROVE row'[c][x].meta.edit # edits + 1
    <3>1. row'[c][x] = row[c][x] /\ row[c][x] \in LocalRow /\ RowOK(c, x)
      BY <1>0, <1>1, <2>2 DEF TypeOK, DeviceOK
    <3>2. row[c][x].meta.edit \in 1..edits
      BY <2>2, <3>1, LocalRowFields DEF RowOK, Present
    <3>3. QED
      BY <1>0, <3>1, <3>2
  <2>3. QED
    BY <1>0, <1>1, <2>1, <2>2 DEF DistinctEdits, DeviceOK
<1>7. \A x \in Docs : row'[c][x].base = row[c][x].base
  BY <1>1
<1>8. CursorOK(c)'
  BY <1>0, <1>2, <1>7, CursorKeeps DEF DeviceOK
<1>9. TaskOK(c)' /\ task'[c].pc # "await"
  BY <1>0 DEF Idle, TaskOK
<1>10. QED
  BY <1>0, <1>2, <1>4, <1>5, <1>6, <1>8, <1>9, DeviceStep DEF DeviceOK

\* A user changes metadata.
LEMMA UpdateMetaStep ==
  ASSUME IInv, NEW c \in Devices, NEW d \in Docs, UpdateMeta(c, d) PROVE IInv'
<1> DEFINE old == row[c][d]
           r   == EditedRow(old)
<1>1. TypeOK /\ old \in LocalRow /\ LiveRow(old) /\ edits \in Nat /\ RowOK(c, d)
  BY DEF IInv, TypeOK, UpdateMeta, DeviceOK
<1>2. /\ row' = [row EXCEPT ![c][d] = r] /\ replaced' = replaced \cup {old.meta.edit}
      /\ edits' = edits + 1
  BY DEF UpdateMeta, EditedRow
<1>3. /\ r \in LocalRow /\ r.version = r.base + 1 /\ r.base = old.base
      /\ r.dirty /\ r.blob = old.blob
      /\ r.meta = [edit |-> edits + 1, sealed |-> r.version]
  BY <1>1, EditedRows
<1>4. old.meta.edit \in 1..edits
  BY <1>1 DEF RowOK, LiveRow
<1> HIDE DEF old, r
<1>5. TypeOK'
  BY <1>1, <1>2, <1>3, <1>4, RowType DEF UpdateMeta, TypeOK, server, bounds
<1>6. QED
  BY <1>1, <1>2, <1>3, <1>5, EditStep DEF UpdateMeta, old

\* A user deletes a document.
LEMMA DeleteStep ==
  ASSUME IInv, NEW c \in Devices, NEW d \in Docs, Delete(c, d) PROVE IInv'
<1> DEFINE old == row[c][d]
           r   == DeletedRow(old)
<1>1. TypeOK /\ old \in LocalRow /\ LiveRow(old) /\ edits \in Nat /\ RowOK(c, d)
  BY DEF IInv, TypeOK, Delete, DeviceOK
<1>2. /\ row' = [row EXCEPT ![c][d] = r]
      /\ replaced' = replaced \cup {old.meta.edit, edits + 1}
      /\ edits' = edits + 1
  BY DEF Delete, DeletedRow
<1>3. /\ r \in LocalRow /\ r.version = r.base + 1 /\ r.base = old.base
      /\ r.dirty /\ r.deleted
      /\ r.meta = [edit |-> edits + 1, sealed |-> r.version]
  BY <1>1, EditedRows
<1>4. old.meta.edit \in 1..edits
  BY <1>1 DEF RowOK, LiveRow
<1> HIDE DEF old, r
<1>5. TypeOK'
  BY <1>1, <1>2, <1>3, <1>4, RowType DEF Delete, TypeOK, server, bounds
<1>6. QED
  BY <1>1, <1>2, <1>3, <1>5, EditStep DEF Delete, old

\* The cache changes, and keeps what was never pushed.
LEMMA BrowseStep ==
  ASSUME IInv, NEW c \in Devices, NEW files \in SUBSET Docs, cached[c] \subseteq files,
         Idle(c), Cache(c, row[c], files),
         UNCHANGED <<server, blob, row, cursor, task, history, bounds>>
  PROVE  IInv'
<1>0. /\ TypeOK /\ DeviceOK(c)
      /\ doc' = doc /\ call' = call /\ row' = row /\ cursor' = cursor /\ task' = task
      /\ blob' = blob /\ edits' = edits
  BY DEF IInv, server, history
<1>1. TypeOK'
  BY <1>0, CacheType DEF TypeOK, history, bounds
<1>2. Forward /\ OthersStay(c)
  BY <1>0, CacheType DEF Forward, OthersStay, TypeOK
<1>3. ASSUME NEW d \in Docs PROVE RowOK(c, d)'
  <2>1. (LiveRow(row[c][d]) /\ row[c][d].base = 0) => d \in cached'[c] \/ doc[d].deleted
    BY CacheKeepsUnpushed
  <2>2. QED
    BY <1>0, <1>1, <1>2, <2>1, RowKeeps DEF DeviceOK
<1>4. DistinctEdits(c)' /\ CursorOK(c)'
  BY <1>0 DEF DeviceOK, DistinctEdits, CursorOK, Given
<1>5. TaskOK(c)' /\ task'[c].pc # "await"
  BY <1>0 DEF Idle, TaskOK
<1>6. QED
  BY <1>0, <1>1, <1>2, <1>3, <1>4, <1>5, DeviceStep DEF DeviceOK

\* A user opens a document.
LEMMA OpenStep ==
  ASSUME IInv, NEW c \in Devices, NEW d \in Docs, Open(c, d) PROVE IInv'
<1>1. cached[c] \cup {row[c][d].blob} \in SUBSET Docs
  BY DEF IInv, TypeOK, Open
<1>2. QED
  BY <1>1, BrowseStep DEF Open

\* A user moves the cache limit.
LEMMA SetCacheLimitStep ==
  ASSUME IInv, NEW c \in Devices, SetCacheLimit(c) PROVE IInv'
<1>1. cached[c] \in SUBSET Docs
  BY DEF IInv, TypeOK
<1>2. QED
  BY <1>1, BrowseStep DEF SetCacheLimit
-------------------------------------------------------------------------------
(* Pull. *)

\* A step that changes only what the device is about to do, and its blobs on
\* the server.
LEMMA TaskStep ==
  ASSUME IInv, TypeOK', NEW c \in Devices, NEW t, Become(c, t),
         UNCHANGED <<server, local, history>>, blob \subseteq blob',
         TaskOK(c)', task'[c].pc # "await"
  PROVE  IInv'
<1>0. /\ TypeOK /\ DeviceOK(c) /\ edits \in Nat
      /\ doc' = doc /\ call' = call /\ row' = row /\ cursor' = cursor /\ cached' = cached
      /\ edits' = edits
  BY DEF IInv, server, local, history, TypeOK
<1>1. \A e \in Devices : e # c => task'[e] = task[e]
  BY <1>0 DEF Become, TypeOK
<1>2. OthersStay(c)
  BY <1>0, <1>1 DEF OthersStay
<1>3. \A d \in Docs : RowOK(c, d)'
  BY <1>0 DEF DeviceOK, RowOK
<1>4. DistinctEdits(c)' /\ CursorOK(c)'
  BY <1>0 DEF DeviceOK, DistinctEdits, CursorOK, Given
<1>5. QED
  BY <1>0, <1>2, <1>3, <1>4, DeviceStep DEF DeviceOK

\* The device rests: whatever it was doing is over.
LEMMA RestStep ==
  ASSUME IInv, NEW c \in Devices, Become(c, Resting),
         UNCHANGED <<server, local, history>>, blob \subseteq blob', blob' \subseteq Docs,
         interrupts' \in 0..MaxInterrupts, collects' \in 0..MaxCollects
  PROVE  IInv'
<1>1. TypeOK /\ Resting \in {Resting} \cup PullTask \cup PageTask \cup CopyTask \cup PushTask \cup AwaitTask
  BY DEF IInv
<1>2. task' \in [Devices -> Task] /\ task'[c] = Resting
  BY <1>1, BecomeType
<1>3. TypeOK'
  BY <1>1, <1>2 DEF TypeOK, server, local, history
<1>4. TaskOK(c)' /\ task'[c].pc # "await"
  BY <1>2 DEF TaskOK, Resting
<1>5. UNCHANGED <<server, local, history>> /\ blob \subseteq blob'
  OBVIOUS
<1>6. QED
  BY <1>3, <1>4, <1>5, TaskStep

\* A sync starts.
LEMMA StartSyncStep ==
  ASSUME IInv, NEW c \in Devices, StartSync(c) PROVE IInv'
<1> DEFINE t == [pc |-> "pull", round |-> 1]
<1>1. TypeOK /\ Become(c, t) /\ UNCHANGED <<server, blob, local, history, bounds>>
  BY DEF IInv, StartSync
<1>2. t \in PullTask
  BY DEF PullTask, Rounds
<1>3. task' \in [Devices -> Task] /\ task'[c] = t
  BY <1>1, <1>2, BecomeType
<1>4. TypeOK'
  BY <1>1, <1>3 DEF TypeOK, server, local, history, bounds
<1>5. TaskOK(c)' /\ task'[c].pc # "await"
  BY <1>3 DEF TaskOK
<1>6. UNCHANGED <<server, local, history>> /\ blob \subseteq blob'
  BY <1>1
<1> HIDE DEF t
<1>7. QED
  BY <1>1, <1>4, <1>5, <1>6, TaskStep

\* The server's table can be paged through: its rows have numbers of their own.
LEMMA TableIsNumbered ==
  ASSUME IInv
  PROVE  Numbered(doc) /\ DOMAIN doc = Docs /\ \A d \in Docs : doc[d] \in Register!Row
<1>1. DOMAIN doc = Docs /\ \A d \in Docs : doc[d] \in Register!Row /\ doc[d].seq \in Nat
  BY RowFields DEF IInv, TypeOK
<1>2. ASSUME NEW d \in Docs, doc[d].seq > 0 PROVE Register!Exists(doc[d])
  <2>1. CASE doc[d] = Register!NoRow
    BY <1>2, <2>1 DEF Register!NoRow
  <2>2. CASE Past(d, doc[d])
    BY <1>1, <2>2, RowFields DEF Past, Register!Exists
  <2>3. QED
    BY <2>1, <2>2 DEF IInv, DocOK
<1>3. \A d, e \in Docs : (d # e /\ doc[d].seq > 0) => doc[d].seq # doc[e].seq
  BY <1>2 DEF IInv, DistinctSeqs
<1>4. QED
  BY <1>1, <1>3 DEF Numbered

\* A row with a number is there.
LEMMA NumberedIsPast ==
  ASSUME IInv, NEW d \in Docs, doc[d].seq > 0
  PROVE  Past(d, doc[d])
BY DEF IInv, DocOK, Register!NoRow

\* The page a device is given is sound.
LEMMA PageIsSound ==
  ASSUME IInv, NEW c \in Devices, NEW page, page = Changes(doc, cursor[c], PageLimit),
         NEW round \in Rounds,
         NEW t, t = [pc |-> "apply", round |-> round, items |-> page.items,
                     next |-> page.next, more |-> page.more]
  PROVE  t \in PageTask /\ PageOK(c, t)
<1>0. TypeOK /\ DeviceOK(c) /\ cursor[c] \in Nat
  BY DEF IInv, TypeOK
<1>1. Numbered(doc) /\ DOMAIN doc = Docs /\ \A d \in Docs : doc[d] \in Register!Row
  BY TableIsNumbered
<1>2. Complete(page, doc, cursor[c])
  BY <1>0, <1>1, PageIsComplete
<1> DEFINE Items == {Item(doc, d) : d \in Docs}
<1>3. /\ page.items \in Seq(Items)
      /\ \A i, j \in DOMAIN page.items : i # j => page.items[i].id # page.items[j].id
      /\ \A i \in DOMAIN page.items : page.items[i].rec.seq > cursor[c]
      /\ \A d \in Docs : (cursor[c] < doc[d].seq /\ doc[d].seq <= page.next)
           => \E i \in DOMAIN page.items : page.items[i] = Item(doc, d)
      /\ page.next \in Nat /\ page.next >= cursor[c]
      /\ page.next = cursor[c] \/ \E d \in Docs : page.next = doc[d].seq
      /\ page.more \in BOOLEAN
  BY <1>1, <1>2 DEF Complete
<1> DEFINE Rows == [id : Docs, rec : Register!Row]
<1> HIDE DEF Items
<1>4. \A i \in DOMAIN page.items : page.items[i] \in Items
  BY <1>3
<1>5. \A x \in Items : x \in Rows /\ x.id \in Docs /\ x.rec = doc[x.id]
  BY <1>1 DEF Items, Item
<1>6. page.items \in Seq([id : Docs, rec : Register!Row])
  <2> DEFINE items == page.items
  <2>1. items \in Seq(Items)
    BY <1>3
  <2> HIDE DEF Rows, items
  <2>2. items \in Seq(Rows)
    BY <1>5, <2>1, SeqMonotone
  <2>3. QED
    BY <2>2 DEF Rows, items
<1>7. t \in PageTask
  BY <1>3, <1>6 DEF PageTask, Pages
<1>8. t.items = page.items /\ t.next = page.next
  OBVIOUS
<1>9. Given(page.next)
  <2>1. CASE page.next = cursor[c]
    BY <1>0, <2>1 DEF DeviceOK, CursorOK
  <2>2. ASSUME NEW d \in Docs, page.next = doc[d].seq PROVE Given(page.next)
    BY <1>3, <2>2 DEF Given
  <2>3. QED
    BY <1>3, <2>1, <2>2
<1>10. ASSUME NEW i \in DOMAIN page.items
       PROVE  /\ Past(page.items[i].id, page.items[i].rec)
              /\ row[c][page.items[i].id].base <= page.items[i].rec.version
  <2> DEFINE d == page.items[i].id
  <2>1. d \in Docs /\ page.items[i].rec = doc[d]
    BY <1>4, <1>5
  <2>2. doc[d].seq > cursor[c] /\ doc[d].seq \in Nat
    BY <1>1, <1>3, <2>1, RowFields
  <2> HIDE DEF d
  <2>3. Past(d, doc[d])
    BY <1>0, <2>1, <2>2, NumberedIsPast
  <2>4. row[c][d].base <= doc[d].version
    BY <1>0, <2>1 DEF DeviceOK, RowOK
  <2>5. QED
    BY <2>1, <2>3, <2>4 DEF d
<1>11. ASSUME NEW d \in Docs, doc[d].seq <= page.next
       PROVE  \/ row[c][d].base = doc[d].version
              \/ \E i \in DOMAIN page.items : page.items[i] = [id |-> d, rec |-> doc[d]]
  <2>1. doc[d].seq \in Nat
    BY <1>1, RowFields
  <2>2. CASE doc[d].seq <= cursor[c]
    BY <1>0, <2>2 DEF DeviceOK, CursorOK
  <2>3. CASE cursor[c] < doc[d].seq
    BY <1>3, <1>11, <2>3 DEF Item
  <2>4. QED
    BY <1>0, <2>1, <2>2, <2>3
<1>12. /\ t.next >= cursor[c] /\ Given(t.next)
       /\ \A i, j \in DOMAIN t.items : i # j => t.items[i].id # t.items[j].id
  BY <1>3, <1>8, <1>9
<1>13. \A i \in DOMAIN t.items : /\ Past(t.items[i].id, t.items[i].rec)
                                 /\ row[c][t.items[i].id].base <= t.items[i].rec.version
  BY <1>8, <1>10
<1>14. \A d \in Docs : doc[d].seq <= t.next
         => \/ row[c][d].base = doc[d].version
            \/ \E i \in DOMAIN t.items : t.items[i] = [id |-> d, rec |-> doc[d]]
  BY <1>8, <1>11
<1>15. PageOK(c, t)
  BY <1>12, <1>13, <1>14 DEF PageOK
<1>16. QED
  BY <1>7, <1>15

\* GET /v1/changes.
LEMMA GetPageStep ==
  ASSUME IInv, NEW c \in Devices, GetPage(c) PROVE IInv'
<1> DEFINE page == Changes(doc, cursor[c], PageLimit)
           t == [pc |-> "apply", round |-> task[c].round, items |-> page.items,
                 next |-> page.next, more |-> page.more]
<1>1. TypeOK /\ Become(c, t) /\ UNCHANGED <<server, blob, local, history, bounds>>
  BY DEF IInv, GetPage
<1>2. task[c].round \in Rounds
  BY <1>1, TaskByPc DEF GetPage, PullTask
<1>3. t.pc = "apply"
  OBVIOUS
<1> HIDE DEF page
<1>4. t \in PageTask /\ PageOK(c, t)
  BY <1>2, PageIsSound DEF page
<1> HIDE DEF t
<1>5. task' \in [Devices -> Task] /\ task'[c] = t
  BY <1>1, <1>4, BecomeType
<1>6. TypeOK'
  BY <1>1, <1>5 DEF TypeOK, server, local, history, bounds
<1>8. TaskOK(c)' /\ task'[c].pc # "await"
  <2>1. PICK x \in PageTask : x = t /\ x = task'[c]
    BY <1>4, <1>5
  <2>2. Forward
    BY <1>1 DEF Forward, server, history, TypeOK
  <2>3. PageOK(c, x)'
    BY <1>1, <1>4, <1>6, <2>1, <2>2, PageKeeps DEF IInv, local
  <2>4. PageOK(c, task[c])'
    BY <2>1, <2>3 DEF PageOK
  <2>5. QED
    BY <1>3, <2>1, <2>4 DEF TaskOK
<1>9. UNCHANGED <<server, local, history>> /\ blob \subseteq blob'
  BY <1>1
<1>10. QED
  BY <1>1, <1>6, <1>8, <1>9, TaskStep

\* What is left of a page once its first item is done with.
LEMMA RestOfPage ==
  ASSUME NEW t \in PageTask, t.items # <<>>, NEW u, u = [t EXCEPT !.items = Tail(@)]
  PROVE  /\ u \in PageTask /\ u.next = t.next /\ u.pc = "apply" /\ u.round = t.round
         /\ 1 \in DOMAIN t.items /\ Head(t.items) = t.items[1]
         /\ \A i \in DOMAIN u.items : i + 1 \in DOMAIN t.items /\ u.items[i] = t.items[i + 1]
         /\ \A i \in DOMAIN t.items : i # 1 => i - 1 \in DOMAIN u.items
         /\ DOMAIN t.items \subseteq Nat \ {0} /\ DOMAIN u.items \subseteq Nat \ {0}
<1> DEFINE Items == [id : Docs, rec : Register!Row]
           s     == t.items
<1>1. s \in Seq(Items) /\ s # <<>>
  BY PageItems
<1>2. u \in [pc : {"apply"}, round : Rounds, items : {Tail(s)}, next : Nat, more : BOOLEAN]
      /\ u.next = t.next /\ u.pc = "apply" /\ u.round = t.round /\ u.items = Tail(s)
  BY DEF PageTask
<1> HIDE DEF Items, s
<1>3. /\ Tail(s) \in Seq(Items) /\ 1 \in DOMAIN s /\ Head(s) = s[1]
      /\ \A i \in DOMAIN Tail(s) : i + 1 \in DOMAIN s /\ Tail(s)[i] = s[i + 1]
      /\ \A i \in DOMAIN s : i # 1 => i - 1 \in DOMAIN Tail(s)
      /\ DOMAIN s \subseteq Nat \ {0} /\ DOMAIN Tail(s) \subseteq Nat \ {0}
  BY <1>1
<1>4. u \in PageTask
  BY <1>2, <1>3 DEF PageTask, Pages, Items
<1>5. QED
  BY <1>2, <1>3, <1>4 DEF s

\* An item whose version the row is based on now can go.
LEMMA ItemDone ==
  ASSUME IInv, NEW c \in Devices, NEW t \in PageTask, PageOK(c, t), t.items # <<>>,
         NEW u, u = [t EXCEPT !.items = Tail(@)],
         doc' = doc, cursor' = cursor, edits' = edits,
         row'[c][Head(t.items).id].base = Head(t.items).rec.version,
         \A d \in Docs : d # Head(t.items).id => row'[c][d].base = row[c][d].base
  PROVE  u \in PageTask /\ PageOK(c, u)'
<1>0. TypeOK
  BY DEF IInv
<1>1. /\ u \in PageTask /\ u.next = t.next
      /\ 1 \in DOMAIN t.items /\ Head(t.items) = t.items[1]
      /\ \A i \in DOMAIN u.items : i + 1 \in DOMAIN t.items /\ u.items[i] = t.items[i + 1]
      /\ \A i \in DOMAIN t.items : i # 1 => i - 1 \in DOMAIN u.items
      /\ DOMAIN t.items \subseteq Nat \ {0} /\ DOMAIN u.items \subseteq Nat \ {0}
  BY RestOfPage, ZenonT(40)
<1> DEFINE id  == Head(t.items).id
           rec == Head(t.items).rec
<1>2. id \in Docs /\ Past(id, rec) /\ row[c][id].base <= rec.version
  BY <1>1, PageItems DEF PageOK
<1>3. rec.version \in Nat /\ rec.version <= doc[id].version /\ doc[id].version \in Nat
      /\ row[c][id].base \in Nat
  <2>1. rec \in Register!Row /\ doc[id] \in Register!Row /\ row[c][id] \in LocalRow
    BY <1>0, <1>2 DEF Past, TypeOK
  <2>2. rec.version \in 1..doc[id].version
    BY <1>2 DEF Past
  <2>3. QED
    BY <2>1, <2>2, RowFields, LocalRowFields
<1>4. ASSUME NEW i \in DOMAIN u.items
      PROVE  /\ Past(u.items[i].id, u.items[i].rec)'
             /\ row'[c][u.items[i].id].base <= u.items[i].rec.version
  <2>1. i + 1 \in DOMAIN t.items /\ u.items[i] = t.items[i + 1] /\ i + 1 # 1
    <3>1. i \in Nat \ {0} /\ i + 1 \in DOMAIN t.items /\ u.items[i] = t.items[i + 1]
      BY <1>1, <1>4
    <3>2. QED
      BY <3>1
  <2>2. t.items[i + 1].id # t.items[1].id /\ t.items[i + 1].id \in Docs
    BY <1>1, <2>1, PageItems DEF PageOK
  <2>3. Past(t.items[i + 1].id, t.items[i + 1].rec)
        /\ row[c][t.items[i + 1].id].base <= t.items[i + 1].rec.version
    BY <2>1 DEF PageOK
  <2>4. row'[c][t.items[i + 1].id].base = row[c][t.items[i + 1].id].base
    BY <1>1, <2>2
  <2>5. QED
    BY <2>1, <2>3, <2>4 DEF Past
<1>5. ASSUME NEW i \in DOMAIN u.items, NEW j \in DOMAIN u.items, i # j
      PROVE  u.items[i].id # u.items[j].id
  <2>1. i \in Int /\ j \in Int /\ i + 1 # j + 1
    BY SMTT(30), <1>1, <1>5
  <2>2. QED
    BY SMTT(30), <1>1, <2>1 DEF PageOK
<1>6. ASSUME NEW d \in Docs, doc[d].seq <= t.next
      PROVE  \/ row'[c][d].base = doc[d].version
             \/ \E i \in DOMAIN u.items : u.items[i] = [id |-> d, rec |-> doc[d]]
  <2>1. CASE d = id /\ row[c][d].base = doc[d].version
    <3>1. row'[c][id].base = rec.version
      OBVIOUS
    <3>2. rec.version = doc[id].version
      BY <1>2, <1>3, <2>1
    <3>3. QED
      BY <2>1, <3>1, <3>2
  <2>2. CASE d # id /\ row[c][d].base = doc[d].version
    BY <2>2
  <2>3. ASSUME NEW i \in DOMAIN t.items, t.items[i] = [id |-> d, rec |-> doc[d]]
        PROVE  \/ row'[c][d].base = doc[d].version
               \/ \E j \in DOMAIN u.items : u.items[j] = [id |-> d, rec |-> doc[d]]
    <3>1. CASE i = 1
      <4>1. Head(t.items) = [id |-> d, rec |-> doc[d]]
        BY <1>1, <2>3, <3>1
      <4>2. id = d /\ rec = doc[d]
        BY <4>1
      <4>3. QED
        BY <4>2
    <3>2. CASE i # 1
      <4>1. i \in Int /\ (i - 1) + 1 = i /\ i - 1 \in DOMAIN u.items
        BY <1>1, <3>2
      <4>2. u.items[i - 1] = t.items[i]
        BY <1>1, <4>1
      <4>3. QED
        BY <2>3, <4>1, <4>2
    <3>3. QED
      BY <3>1, <3>2
  <2>4. QED
    BY <1>6, <2>1, <2>2, <2>3 DEF PageOK
<1>7. u.next >= cursor'[c] /\ Given(u.next)'
  BY <1>1 DEF PageOK, Given
<1>8. \A d \in Docs : doc'[d].seq <= u.next
        => \/ row'[c][d].base = doc'[d].version
           \/ \E i \in DOMAIN u.items : u.items[i] = [id |-> d, rec |-> doc'[d]]
  BY <1>1, <1>6
<1>9. PageOK(c, u)'
  BY <1>4, <1>5, <1>7, <1>8 DEF PageOK
<1>10. QED
  BY <1>1, <1>9

\* A pulled row is sound: clean at the version of a row the server had.
LEMMA OverwriteEffect ==
  ASSUME IInv, NEW c \in Devices, NEW d \in Docs, NEW rec, Past(d, rec),
         row[c][d].base <= rec.version, Overwrite(c, d, rec)
  PROVE  /\ row' \in [Devices -> [Docs -> LocalRow]]
         /\ row'[c][d] = Pulled(row[c][d], rec)
         /\ \A x \in Docs : x # d => row'[c][x] = row[c][x]
         /\ \A e \in Devices : e # c => row'[e] = row[e]
<1>0. TypeOK /\ RowOK(c, d) /\ row[c][d] \in LocalRow
  BY DEF IInv, DeviceOK, TypeOK
<1> DEFINE r == Pulled(row[c][d], rec)
<1>1. row' = [row EXCEPT ![c][d] = r]
  BY DEF Overwrite, Pulled
<1>2. /\ rec.version \in Nat /\ rec.version > 0 /\ rec.deleted \in BOOLEAN
      /\ rec.meta \in Meta /\ rec.blob = IF rec.deleted THEN NoBlob ELSE d
  BY <1>0, RowFields DEF Past, TypeOK
<1>3. r \in LocalRow
  <2>1. rec.blob \in Docs \cup {NoBlob} /\ ((rec.blob # NoBlob) <=> (rec.version > 0 /\ ~rec.deleted))
    BY <1>2
  <2>2. QED
    BY <1>2, <2>1, MakeLocalRow DEF Pulled
<1> HIDE DEF r
<1>4. /\ row' \in [Devices -> [Docs -> LocalRow]]
      /\ row'[c][d] = r /\ \A x \in Docs : x # d => row'[c][x] = row[c][x]
      /\ \A e \in Devices : e # c => row'[e] = row[e]
  BY <1>0, <1>1, <1>3, RowType
<1>5. QED
  BY <1>4 DEF r

LEMMA OverwriteRows ==
  ASSUME IInv, TypeOK', NEW c \in Devices, NEW d \in Docs, NEW rec, Past(d, rec),
         row[c][d].base <= rec.version, Overwrite(c, d, rec),
         doc' = doc, cursor' = cursor, edits' = edits, cached' = cached
  PROVE  /\ \A x \in Docs : RowOK(c, x)'
         /\ DistinctEdits(c)' /\ CursorOK(c)'
         /\ row'[c][d].base = rec.version
         /\ \A x \in Docs : x # d => row'[c][x].base = row[c][x].base
<1>0. TypeOK /\ DeviceOK(c) /\ edits \in Nat
  BY DEF IInv, TypeOK
<1>1. /\ row'[c][d] = Pulled(row[c][d], rec)
      /\ \A x \in Docs : x # d => row'[c][x] = row[c][x]
  BY OverwriteEffect
<1>2. Forward
  BY <1>0 DEF Forward
<1>3. /\ rec.version \in Nat /\ rec.version > 0 /\ rec.version <= doc[d].version
      /\ doc[d].version \in Nat /\ row[c][d].base \in Nat
  BY <1>0, RowFields, LocalRowFields DEF Past, TypeOK
<1>4. RowOK(c, d)'
  BY <1>1, <1>3 DEF RowOK, Pulled, Past, LiveRow, Present
<1>5. ASSUME NEW x \in Docs, x # d PROVE RowOK(c, x)'
  <2>1. (LiveRow(row[c][x]) /\ row[c][x].base = 0) => x \in cached'[c] \/ doc[x].deleted
    BY <1>0, <1>5 DEF DeviceOK, RowOK
  <2>2. QED
    BY <1>0, <1>1, <1>2, <1>5, <2>1, RowKeeps DEF DeviceOK
<1>6. DistinctEdits(c)'
  BY <1>0, <1>1 DEF DistinctEdits, DeviceOK, Pulled
<1>7. row'[c][d].base = rec.version
  BY <1>1 DEF Pulled
<1>8. CursorOK(c)'
  <2>1. \A x \in Docs : row[c][x].base = doc[x].version => row'[c][x].base = doc[x].version
    BY <1>1, <1>3, <1>7
  <2>2. QED
    BY <1>0, <1>2, <2>1, CursorKeeps DEF DeviceOK
<1>9. QED
  BY <1>1, <1>4, <1>5, <1>6, <1>7, <1>8

\* A sound page makes a sound task, and so does a copy to be made of an edit.
LEMMA PageTaskOK ==
  ASSUME NEW c \in Devices, NEW t \in PageTask, task'[c] = t, PageOK(c, t)'
  PROVE  TaskOK(c)' /\ task'[c].pc # "await"
BY PageItems DEF TaskOK, PageOK

LEMMA CopyTaskOK ==
  ASSUME NEW c \in Devices, NEW t \in CopyTask, task'[c] = t, PageOK(c, t.page)',
         t.edit \in 1..edits'
  PROVE  TaskOK(c)' /\ task'[c].pc # "await"
<1>1. t.pc = "copy"
  BY DEF CopyTask
<1>2. QED
  BY <1>1 DEF TaskOK, PageOK

\* Page t is record rec of document id and, after it, page u.
Splits(t, u, id, rec) == /\ t.items # <<>> /\ u = [t EXCEPT !.items = Tail(@)]
                         /\ id = Head(t.items).id /\ rec = Head(t.items).rec

\* The task after an item: the rest of the page, or a copy to make first.
LEMMA AfterItem ==
  ASSUME IInv, NEW c \in Devices, NEW t \in PageTask, PageOK(c, t),
         NEW u, NEW id, NEW rec, Splits(t, u, id, rec),
         NEW v, v = u \/ \E n \in 1..edits :
                           v = [pc |-> "copy", page |-> u, of |-> id, edit |-> n],
         Become(c, v), UNCHANGED <<server, blob, cursor, history, bounds>>,
         row' \in [Devices -> [Docs -> LocalRow]], cached' \in [Devices -> SUBSET Docs],
         row'[c][id].base = rec.version,
         \A d \in Docs : d # id => row'[c][d].base = row[c][d].base
  PROVE  TypeOK' /\ TaskOK(c)' /\ task'[c].pc # "await" /\ task'[c] = v
<1>0. /\ TypeOK /\ edits \in Nat /\ doc' = doc /\ cursor' = cursor /\ edits' = edits
  BY DEF IInv, TypeOK, server, history
<1>1. u \in PageTask /\ PageOK(c, u)'
  BY <1>0, ItemDone DEF Splits
<1>2. u.pc = "apply" /\ id \in Docs
  BY RestOfPage, PageItems DEF Splits
<1>3. v \in PageTask \cup CopyTask
  <2>1. ASSUME NEW n \in 1..edits, v = [pc |-> "copy", page |-> u, of |-> id, edit |-> n]
        PROVE  v \in CopyTask
    BY <1>0, <1>1, <1>2, <2>1 DEF CopyTask
  <2>2. QED
    BY <1>1, <2>1
<1>4. task' \in [Devices -> Task] /\ task'[c] = v
  BY <1>0, <1>3, BecomeType
<1>5. TypeOK'
  BY <1>0, <1>4 DEF TypeOK, server, history, bounds
<1>6. TaskOK(c)' /\ task'[c].pc # "await"
  <2>1. CASE v = u
    BY <1>1, <1>4, <2>1, PageTaskOK
  <2>2. ASSUME NEW n \in 1..edits, v = [pc |-> "copy", page |-> u, of |-> id, edit |-> n]
        PROVE  TaskOK(c)' /\ task'[c].pc # "await"
    <3>1. v.pc = "copy" /\ v.page = u /\ v.edit = n
      BY <2>2
    <3>2. PageOK(c, v.page)'
      BY <1>1, <3>1 DEF PageOK
    <3>3. v \in CopyTask
      BY <1>3, <3>1, PageItems
    <3>4. QED
      BY <1>0, <1>4, <2>2, <3>1, <3>2, <3>3, CopyTaskOK
  <2>3. QED
    BY <2>1, <2>2
<1>7. QED
  BY <1>4, <1>5, <1>6

\* A dirty row holds an edit.
LEMMA DirtyIsEdit ==
  ASSUME IInv, NEW c \in Devices, NEW d \in Docs, row[c][d].dirty
  PROVE  /\ row[c][d].meta \in Meta /\ row[c][d].meta.edit \in 1..edits
         /\ row[c][d].version = row[c][d].base + 1 /\ Present(row[c][d])
<1>1. RowOK(c, d) /\ row[c][d] \in LocalRow
  BY DEF IInv, TypeOK, DeviceOK
<1>2. QED
  BY <1>1, LocalRowFields DEF RowOK, Present

\* What a step with a record may be.
LEMMA ItemCases ==
  ASSUME NEW c \in Devices, ApplyItem(c), 
         NEW u, NEW d, NEW rec, Splits(task[c], u, d, rec), NEW r, r = row[c][d]
  PROVE  \/ /\ Conflicting(r, rec) /\ Overwrite(c, d, rec)
            /\ Become(c, IF NeedsCopy(r)
                         THEN [pc |-> "copy", page |-> u, of |-> d, edit |-> r.meta.edit]
                         ELSE u)
         \/ r.dirty /\ ~Conflicting(r, rec) /\ Become(c, u) /\ row' = row
         \/ ~r.dirty /\ Overwrite(c, d, rec) /\ Become(c, u)
BY DEF ApplyItem, Splits

\* A file goes before its row: only a tombstone takes the blob of a document.
LEMMA DropBlobStep ==
  ASSUME IInv, NEW c \in Devices, DropBlob(c) PROVE IInv'
<1>0. /\ TypeOK /\ DeviceOK(c) /\ doc' = doc /\ call' = call /\ row' = row /\ cursor' = cursor
      /\ task' = task /\ edits' = edits /\ blob' = blob /\ UNCHANGED <<history, bounds>>
  BY DEF IInv, TypeOK, DropBlob, server, history
<1>1. task[c] \in PageTask /\ task[c].items # <<>> /\ PageOK(c, task[c])
  BY <1>0, TaskByPc DEF DropBlob, DeviceOK, TaskOK
<1>2. PICK id, rec : id = Head(task[c].items).id /\ rec = Head(task[c].items).rec
  OBVIOUS
<1>3. id \in Docs /\ Past(id, rec)
  <2>1. 1 \in DOMAIN task[c].items /\ Head(task[c].items) = task[c].items[1]
    BY <1>1, RestOfPage
  <2>2. QED
    BY <1>1, <1>2, <2>1, PageItems DEF PageOK
<1>4. PICK b : b = row[c][id].blob
  OBVIOUS
<1>5. b # NoBlob /\ b # rec.blob /\ cached' = [cached EXCEPT ![c] = @ \ {b}]
  BY <1>2, <1>4 DEF DropBlob, Superseded
<1>6. b = id /\ rec.deleted
  <2>1. row[c][id] \in LocalRow /\ RowOK(c, id)
    BY <1>0, <1>3 DEF TypeOK, DeviceOK
  <2>2. LiveRow(row[c][id])
    BY <1>4, <1>5, <2>1, LocalRowFields DEF LiveRow, Present
  <2>3. QED
    BY <1>3, <1>4, <1>5, <2>1, <2>2 DEF RowOK, Past
<1>7. doc[id].deleted
  BY <1>3, <1>6 DEF Past
<1>8. /\ cached' \in [Devices -> SUBSET Docs]
      /\ \A e \in Devices : e # c => cached'[e] = cached[e]
      /\ \A x \in Docs : x # id /\ x \in cached[c] => x \in cached'[c]
  BY <1>0, <1>5, <1>6 DEF TypeOK
<1>9. TypeOK'
  BY <1>0, <1>8 DEF TypeOK, history, bounds
<1>10. Forward /\ OthersStay(c)
  BY <1>0, <1>8 DEF Forward, OthersStay, TypeOK
<1>11. ASSUME NEW x \in Docs PROVE RowOK(c, x)'
  <2>1. (LiveRow(row[c][x]) /\ row[c][x].base = 0) => x \in cached'[c] \/ doc[x].deleted
    BY <1>0, <1>7, <1>8 DEF DeviceOK, RowOK
  <2>2. QED
    BY <1>0, <1>9, <1>10, <2>1, RowKeeps DEF DeviceOK
<1>12. DistinctEdits(c)' /\ CursorOK(c)'
  BY <1>0 DEF DeviceOK, DistinctEdits, CursorOK, Given
<1>13. TaskOK(c)' /\ task'[c].pc # "await"
  <2>1. task'[c] = task[c] /\ PageOK(c, task[c])'
    BY <1>0, <1>1 DEF PageOK, Past, Given
  <2>2. QED
    BY <1>1, <2>1, PageTaskOK
<1>14. QED
  BY <1>0, <1>9, <1>10, <1>11, <1>12, <1>13, DeviceStep DEF DeviceOK

\* One record of the page is applied.
LEMMA ApplyItemStep ==
  ASSUME IInv, NEW c \in Devices, ApplyItem(c) PROVE IInv'
<1>0. /\ TypeOK /\ DeviceOK(c) /\ edits \in Nat /\ cached' = cached
      /\ doc' = doc /\ call' = call /\ cursor' = cursor /\ edits' = edits /\ blob' = blob
  BY DEF IInv, TypeOK, ApplyItem, server, history
<1>1. task[c] \in PageTask /\ task[c].items # <<>> /\ PageOK(c, task[c])
  BY <1>0, TaskByPc DEF ApplyItem, DeviceOK, TaskOK
<1>2. PICK t \in PageTask : t = task[c]
  BY <1>1
<1>3. t.items # <<>> /\ PageOK(c, t)
  BY <1>1, <1>2
<1>4. PICK u, d, rec : Splits(t, u, d, rec)
  BY <1>3 DEF Splits
<1>6. d \in Docs /\ Past(d, rec) /\ row[c][d].base <= rec.version
  <2>1. 1 \in DOMAIN t.items /\ Head(t.items) = t.items[1]
    BY <1>3, <1>4, RestOfPage DEF Splits
  <2>2. QED
    BY <1>3, <1>4, <2>1, PageItems DEF PageOK, Splits
<1>7. PICK r : r = row[c][d]
  OBVIOUS
<1>8. r \in LocalRow /\ r.base \in Nat /\ rec.version \in Nat
  <2>1. r \in LocalRow /\ rec \in Register!Row
    BY <1>0, <1>6, <1>7 DEF TypeOK, Past
  <2>2. QED
    BY <2>1, RowFields, LocalRowFields
<1>9. PICK v : /\ Become(c, v)
               /\ v = u \/ \E n \in 1..edits : v = [pc |-> "copy", page |-> u, of |-> d, edit |-> n]
               /\ \/ Overwrite(c, d, rec)
                  \/ r.dirty /\ ~Conflicting(r, rec) /\ row' = row
  <2> DEFINE copy == [pc |-> "copy", page |-> u, of |-> d, edit |-> r.meta.edit]
  <2>1. CASE Conflicting(r, rec) /\ Overwrite(c, d, rec)
             /\ Become(c, IF NeedsCopy(r) THEN copy ELSE u)
    <3>1. r.meta.edit \in 1..edits
      BY <1>6, <1>7, <2>1, DirtyIsEdit DEF Conflicting
    <3>2. \E n \in 1..edits : copy = [pc |-> "copy", page |-> u, of |-> d, edit |-> n]
      BY <3>1
    <3> HIDE DEF copy
    <3>3. QED
      BY <2>1, <3>2
  <2>2. CASE r.dirty /\ ~Conflicting(r, rec) /\ Become(c, u) /\ row' = row
    BY <2>2
  <2>3. CASE ~r.dirty /\ Overwrite(c, d, rec) /\ Become(c, u)
    BY <2>3
  <2>4. QED
    BY <1>2, <1>4, <1>7, <2>1, <2>2, <2>3, ItemCases
<1>10. UNCHANGED <<server, blob, cursor, history, bounds>>
  BY DEF ApplyItem
<1>11. /\ row' \in [Devices -> [Docs -> LocalRow]]
       /\ row'[c][d].base = rec.version
       /\ \A x \in Docs : x # d => row'[c][x].base = row[c][x].base
       /\ \A e \in Devices : e # c => row'[e] = row[e]
  <2>1. CASE Overwrite(c, d, rec)
    <3>1. Pulled(row[c][d], rec).base = rec.version
      BY DEF Pulled
    <3>2. QED
      BY <1>6, <2>1, <3>1, OverwriteEffect
  <2>2. CASE r.dirty /\ ~Conflicting(r, rec) /\ row' = row
    <3>1. r.base = rec.version
      BY <1>6, <1>7, <1>8, <2>2 DEF Conflicting
    <3>2. QED
      BY <1>0, <1>7, <2>2, <3>1 DEF TypeOK
  <2>3. QED
    BY <1>9, <2>1, <2>2
<1>12. TypeOK' /\ TaskOK(c)' /\ task'[c].pc # "await"
  <2>1. cached' \in [Devices -> SUBSET Docs]
    BY <1>0 DEF TypeOK
  <2>2. QED
    BY <1>3, <1>4, <1>9, <1>10, <1>11, <2>1, AfterItem
<1>13. (\A x \in Docs : RowOK(c, x)') /\ DistinctEdits(c)' /\ CursorOK(c)'
  <2>1. CASE Overwrite(c, d, rec)
    BY <1>0, <1>6, <1>12, <2>1, OverwriteRows
  <2>2. CASE row' = row
    BY <1>0, <2>2 DEF DeviceOK, RowOK, DistinctEdits, CursorOK, Given
  <2>3. QED
    BY <1>9, <2>1, <2>2
<1>14. OthersStay(c)
  BY <1>0, <1>9, <1>11 DEF OthersStay, Become, TypeOK
<1>15. QED
  BY <1>0, <1>12, <1>13, <1>14, DeviceStep DEF DeviceOK

\* The conflict copy is made.
LEMMA MakeCopyStep ==
  ASSUME IInv, NEW c \in Devices, MakeCopy(c) PROVE IInv'
<1> DEFINE t == task[c]
           u == t.page
<1>0. TypeOK /\ DeviceOK(c) /\ doc' = doc /\ call' = call /\ cursor' = cursor /\ blob' = blob
  BY DEF IInv, MakeCopy, server
<1>1. t \in CopyTask /\ u \in PageTask /\ PageOK(c, u) /\ t.edit \in 1..edits /\ t.of \in Docs
  BY <1>0, TaskByPc DEF MakeCopy, CopyTask, DeviceOK, TaskOK
<1>2. PICK d \in FreshDocs : NewDocument(c, d, {t.of})
  BY DEF MakeCopy
<1>3. d \in Docs /\ {t.of} \in SUBSET Docs
  BY <1>1 DEF FreshDocs
<1>4. Become(c, u) /\ replaced' = replaced \cup {t.edit} /\ UNCHANGED bounds
  BY DEF MakeCopy
<1>5. task' \in [Devices -> Task] /\ task'[c] = u /\ \A e \in Devices : e # c => task'[e] = task[e]
  BY <1>0, <1>1, <1>4, BecomeType
<1>6. /\ row' \in [Devices -> [Docs -> LocalRow]] /\ cached' \in [Devices -> SUBSET Docs]
      /\ edits' = edits + 1 /\ edits \in Nat
  BY <1>0, <1>2, <1>3, NewDocumentEffect
<1>7. TypeOK'
  BY <1>0, <1>1, <1>4, <1>5, <1>6 DEF TypeOK, bounds
<1>8. /\ \A x \in Docs : RowOK(c, x)' /\ row'[c][x].base = row[c][x].base
      /\ DistinctEdits(c)' /\ CursorOK(c)' /\ Forward
      /\ \A e \in Devices : e # c => row'[e] = row[e] /\ cached'[e] = cached[e]
  BY <1>0, <1>2, <1>3, <1>7, NewDocumentRows
<1>9. PICK x \in PageTask : x = u /\ x = task'[c]
  BY <1>1, <1>5
<1>10. PageOK(c, x)'
  BY <1>0, <1>1, <1>7, <1>8, <1>9, PageKeeps
<1>11. TaskOK(c)' /\ task'[c].pc # "await"
  <2>1. task'[c].pc = "apply"
    BY <1>1, <1>5, PageItems
  <2>2. PageOK(c, task[c])'
    BY <1>9, <1>10 DEF PageOK
  <2>3. QED
    BY <2>1, <2>2 DEF TaskOK
<1>12. OthersStay(c)
  BY <1>0, <1>5, <1>6, <1>8 DEF OthersStay
<1>13. QED
  BY <1>0, <1>7, <1>8, <1>11, <1>12, DeviceStep DEF DeviceOK

\* The old blob is nowhere to be found.
LEMMA CopyFailsStep ==
  ASSUME IInv, NEW c \in Devices, CopyFails(c) PROVE IInv'
BY RestStep DEF CopyFails, bounds, IInv, TypeOK

\* The old blob is evicted before it can be read.
LEMMA CopyEvictedStep ==
  ASSUME IInv, NEW c \in Devices, CopyEvicted(c) PROVE IInv'
<1>0. /\ TypeOK /\ DeviceOK(c) /\ cached[c] \in SUBSET Docs
      /\ doc' = doc /\ call' = call /\ row' = row /\ cursor' = cursor
      /\ blob' = blob /\ edits' = edits
  BY DEF IInv, TypeOK, CopyEvicted, server, history
<1>1. Become(c, Resting) /\ Cache(c, row[c], cached[c])
  BY DEF CopyEvicted
<1>2. task' \in [Devices -> Task] /\ task'[c] = Resting /\ \A e \in Devices : e # c => task'[e] = task[e]
  BY <1>0, <1>1, BecomeType
<1>3. cached' \in [Devices -> SUBSET Docs] /\ \A e \in Devices : e # c => cached'[e] = cached[e]
  BY <1>0, <1>1, CacheType
<1>4. TypeOK'
  BY <1>0, <1>2, <1>3 DEF CopyEvicted, TypeOK, history, bounds
<1>5. Forward /\ OthersStay(c)
  BY <1>0, <1>2, <1>3 DEF Forward, OthersStay, TypeOK
<1>6. ASSUME NEW d \in Docs PROVE RowOK(c, d)'
  <2>1. (LiveRow(row[c][d]) /\ row[c][d].base = 0) => d \in cached'[c] \/ doc[d].deleted
    BY <1>0, <1>1, CacheKeepsUnpushed
  <2>2. QED
    BY <1>0, <1>4, <1>5, <2>1, RowKeeps DEF DeviceOK
<1>7. DistinctEdits(c)' /\ CursorOK(c)'
  BY <1>0 DEF DeviceOK, DistinctEdits, CursorOK, Given
<1>8. TaskOK(c)' /\ task'[c].pc # "await"
  BY <1>2 DEF Resting, TaskOK
<1>9. QED
  BY <1>0, <1>4, <1>5, <1>6, <1>7, <1>8, DeviceStep DEF DeviceOK

\* The queue of a push: the dirty rows of the device, each once.
LEMMA QueueIsSound ==
  ASSUME IInv, NEW c \in Devices, NEW q, q = DirtyByAge(c)
  PROVE  q \in Seq(Docs) /\ QueueOK(c, q)
<1> DEFINE Dirty == {e \in Docs : row[c][e].dirty}
           key   == [d \in Dirty |-> row[c][d].meta.edit]
<1>1. IsFiniteSet(Dirty) /\ Dirty \subseteq Docs /\ DOMAIN key = Dirty
  <2>1. Dirty \subseteq Docs
    OBVIOUS
  <2> HIDE DEF Dirty
  <2>2. QED
    BY <2>1, FS_Subset
<1>2. \A d \in Dirty : key[d] = row[c][d].meta.edit /\ key[d] \in Nat
  <2>1. edits \in Nat /\ \A d \in Dirty : row[c][d].meta.edit \in 1..edits
    BY DirtyIsEdit DEF IInv, TypeOK
  <2>2. QED
    BY <2>1
<1>3. \A d, e \in Dirty : d # e => key[d] # key[e]
  BY <1>2 DEF IInv, DeviceOK, DistinctEdits
<1>4. q = SortedBy(key)
  BY DEF DirtyByAge
<1>5. \A d \in Dirty : row[c][d].dirty
  OBVIOUS
<1> HIDE DEF Dirty, key
<1>6. q \in Seq(Dirty) /\ \A i, j \in DOMAIN q : i # j => q[i] # q[j]
  BY <1>1, <1>2, <1>3, <1>4, SortedByKey
<1>7. q \in Seq(Docs)
  BY <1>1, <1>6, SeqMonotone
<1>8. \A i \in DOMAIN q : q[i] \in Dirty
  BY <1>6
<1>9. QED
  BY <1>5, <1>6, <1>7, <1>8 DEF QueueOK

\* The cursor moves past a page that was applied.
LEMMA EndPageStep ==
  ASSUME IInv, NEW c \in Devices, EndPage(c) PROVE IInv'
<1> DEFINE t == task[c]
           u == IF t.more THEN [pc |-> "pull", round |-> t.round]
                ELSE [pc |-> "push", round |-> t.round, queue |-> DirtyByAge(c), conflict |-> FALSE]
<1>0. /\ TypeOK /\ DeviceOK(c) /\ edits \in Nat
      /\ doc' = doc /\ call' = call /\ row' = row /\ cached' = cached /\ edits' = edits /\ blob' = blob
      /\ UNCHANGED <<replaced, bounds>>
  BY DEF IInv, TypeOK, EndPage, server, history
<1>1. t \in PageTask /\ t.items = <<>> /\ PageOK(c, t)
  BY <1>0, TaskByPc DEF EndPage, DeviceOK, TaskOK
<1>2. t.round \in Rounds /\ t.next \in Nat
  BY <1>1, PageItems
<1>3. PICK q : q = DirtyByAge(c) /\ q \in Seq(Docs) /\ QueueOK(c, q)
  BY QueueIsSound
<1>4. Become(c, u) /\ cursor' = [cursor EXCEPT ![c] = t.next]
  BY DEF EndPage
<1>5. \/ u = [pc |-> "pull", round |-> t.round]
      \/ u = [pc |-> "push", round |-> t.round, queue |-> q, conflict |-> FALSE]
  BY <1>3
<1> HIDE DEF u
<1>6. u \in PullTask \cup PushTask
  <2>1. [pc |-> "pull", round |-> t.round] \in PullTask
    BY <1>2 DEF PullTask
  <2>2. [pc |-> "push", round |-> t.round, queue |-> q, conflict |-> FALSE] \in PushTask
    BY <1>2, <1>3 DEF PushTask
  <2>3. QED
    BY <1>5, <2>1, <2>2
<1>7. task' \in [Devices -> Task] /\ task'[c] = u /\ \A e \in Devices : e # c => task'[e] = task[e]
  BY <1>0, <1>4, <1>6, BecomeType
<1>8. TypeOK'
  BY <1>0, <1>2, <1>4, <1>7 DEF TypeOK, bounds
<1>9. cursor'[c] = t.next /\ \A e \in Devices : e # c => cursor'[e] = cursor[e]
  BY <1>0, <1>4 DEF TypeOK
<1>10. CursorOK(c)'
  <2>1. Given(t.next) /\ \A d \in Docs : doc[d].seq <= t.next => row[c][d].base = doc[d].version
    BY <1>1 DEF PageOK
  <2>2. QED
    BY <1>0, <1>9, <2>1 DEF CursorOK, Given
<1>11. TaskOK(c)' /\ task'[c].pc # "await"
  <2>1. QueueOK(c, q)'
    BY <1>0, <1>3 DEF QueueOK
  <2>2. QED
    BY <1>5, <1>7, <2>1 DEF TaskOK, QueueOK
<1>12. (\A d \in Docs : RowOK(c, d)') /\ DistinctEdits(c)'
  BY <1>0 DEF DeviceOK, RowOK, DistinctEdits
<1>13. OthersStay(c)
  BY <1>0, <1>7, <1>9 DEF OthersStay
<1>14. QED
  BY <1>0, <1>8, <1>10, <1>11, <1>12, <1>13, DeviceStep DEF DeviceOK
-------------------------------------------------------------------------------
(* Push. *)

LEMMA PushTaskOK ==
  ASSUME NEW c \in Devices, NEW t \in PushTask, task'[c] = t, QueueOK(c, t.queue)',
         t.pc = "send" => t.queue # <<>>
  PROVE  TaskOK(c)' /\ task'[c].pc # "await"
<1>1. t.pc \in {"push", "send"}
  BY DEF PushTask
<1>2. QED
  BY <1>1 DEF TaskOK, QueueOK

\* The blob of a new document is uploaded.
LEMMA UploadStep ==
  ASSUME IInv, NEW c \in Devices, Upload(c) PROVE IInv'
<1>0. TypeOK /\ DeviceOK(c) /\ UNCHANGED <<server, local, history, bounds>> /\ row' = row
  BY DEF IInv, Upload, local
<1>1. PICK t \in PushTask : t = task[c]
  BY <1>0, TaskByPc DEF Upload
<1>2. t.queue # <<>> /\ QueueOK(c, t.queue)
  BY <1>0, <1>1, TaskByPc DEF Upload, DeviceOK, TaskOK
<1>3. Head(t.queue) \in Docs /\ blob \subseteq blob' /\ blob' \subseteq Docs
  <2>1. Head(t.queue) \in Docs
    BY <1>1, <1>2 DEF PushTask
  <2>2. QED
    BY <1>0, <1>1, <2>1 DEF Upload, TypeOK
<1>4. PICK u : u = [t EXCEPT !.pc = "send"]
  OBVIOUS
<1>5. u \in PushTask /\ u.queue = t.queue
  BY <1>4 DEF PushTask
<1>6. CASE Become(c, Resting)
  BY <1>0, <1>3, <1>6, RestStep DEF TypeOK, bounds
<1> SUFFICES ASSUME Become(c, u) PROVE IInv'
  BY <1>1, <1>4, <1>6 DEF Upload
<1>7. task' \in [Devices -> Task] /\ task'[c] = u
  BY <1>0, <1>5, BecomeType
<1>8. TypeOK'
  BY <1>0, <1>3, <1>7 DEF TypeOK, server, local, history, bounds
<1>9. QueueOK(c, u.queue)'
  BY <1>0, <1>2, <1>5 DEF QueueOK
<1>10. TaskOK(c)' /\ task'[c].pc # "await"
  BY <1>2, <1>5, <1>7, <1>9, PushTaskOK
<1>11. QED
  BY <1>0, <1>3, <1>8, <1>10, TaskStep

\* Another round, or the end of the sync.
LEMMA EndPushStep ==
  ASSUME IInv, NEW c \in Devices, EndPush(c) PROVE IInv'
<1> DEFINE t == task[c]
           again == [pc |-> "pull", round |-> t.round + 1]
<1>0. /\ TypeOK /\ UNCHANGED <<server, blob, local, history, bounds>>
      /\ Become(c, IF t.conflict /\ t.round < MaxRounds THEN again ELSE Resting)
  BY DEF IInv, EndPush
<1>1. t \in PushTask /\ t.round \in Rounds
  BY <1>0, TaskByPc DEF EndPush, PushTask
<1>2. CASE t.conflict /\ t.round < MaxRounds
  <2>1. again \in PullTask /\ again.pc = "pull"
    BY <1>1, <1>2 DEF PullTask, Rounds
  <2>2. Become(c, again)
    BY <1>0, <1>2
  <2> HIDE DEF again
  <2>3. task' \in [Devices -> Task] /\ task'[c] = again
    BY <1>0, <2>1, <2>2, BecomeType
  <2>4. TypeOK'
    BY <1>0, <2>3 DEF TypeOK, server, local, history, bounds
  <2>5. TaskOK(c)' /\ task'[c].pc # "await"
    BY <2>1, <2>3 DEF TaskOK
  <2>6. QED
    BY <1>0, <2>2, <2>4, <2>5, TaskStep
<1>3. CASE ~(t.conflict /\ t.round < MaxRounds)
  BY <1>0, <1>3, RestStep DEF bounds, TypeOK
<1>4. QED
  BY <1>2, <1>3

\* The app is killed, or a request fails.
LEMMA InterruptStep ==
  ASSUME IInv, NEW c \in Devices, Interrupt(c) PROVE IInv'
<1>1. interrupts' \in 0..MaxInterrupts /\ collects' \in 0..MaxCollects
  BY DEF Interrupt, IInv, TypeOK
<1>2. blob' = blob /\ blob \subseteq Docs
  BY DEF Interrupt, IInv, TypeOK
<1>3. QED
  BY <1>1, <1>2, RestStep DEF Interrupt

\* A step of one device at one request, which no other device waits for.
LEMMA SlotStep ==
  ASSUME IInv, TypeOK', NEW c \in Devices, OthersStay(c), NEW s \in Slots,
         \A x \in Slots : x # s => call'[x] = call[x],
         CallOK(s)', DeviceOK(c)',
         \A e \in Devices : (e # c /\ task[e].pc = "await") => task[e].slot # s,
         task'[c].pc = "await" => task'[c].slot = s
  PROVE  IInv'
<1>1. /\ TypeOK /\ Forward /\ (\A d \in Docs : DocOK(d)') /\ DistinctSeqs'
  BY TableKeeps DEF IInv, OthersStay
<1>2. ASSUME NEW x \in Slots PROVE CallOK(x)'
  BY <1>1, <1>2, CallKeeps
<1>3. ASSUME NEW e \in Devices, e # c PROVE DeviceOK(e)'
  <2>1. DeviceOK(e)
    BY DEF IInv
  <2>2. task[e].pc = "await" => /\ call[task[e].slot].pc \in {"open", "answered"}
                                /\ task[e].slot \in Slots /\ task[e].slot # s
    BY <1>1, <1>3, <2>1, TaskByPc DEF DeviceOK, TaskOK, AwaitTask
  <2>3. QED
    BY <1>1, <1>3, <2>1, <2>2, DeviceKeeps DEF OthersStay
<1>4. ServerBlobKept'
  BY DEF IInv, ServerBlobKept, OthersStay
<1>5. OneSender'
  BY DEF IInv, OneSender, OthersStay
<1>6. QED
  BY <1>1, <1>2, <1>3, <1>4, <1>5 DEF IInv

\* The request for a dirty row is one a device may make.
LEMMA RequestIsSound ==
  ASSUME IInv, NEW c \in Devices, NEW d \in Docs, row[c][d].dirty,
         NEW q, q = RequestFor(d, row[c][d])
  PROVE  /\ q \in Register!Request /\ q.id = d /\ q.ifm = row[c][d].base /\ RequestOK(q)
         /\ (q.op = "delete") <=> row[c][d].deleted
         /\ q.op \in {"put", "delete"}
         /\ q.op = "put" => q.meta = row[c][d].meta
<1> DEFINE r == row[c][d]
<1>1. r \in LocalRow /\ RowOK(c, d)
  BY DEF IInv, TypeOK, DeviceOK
<1>2. /\ r.meta \in Meta /\ r.meta.edit \in 1..edits /\ r.version = r.base + 1 /\ Present(r)
      /\ r.base \in Nat /\ r.deleted \in BOOLEAN /\ r.base <= doc[d].version
  BY <1>1, DirtyIsEdit, LocalRowFields DEF RowOK
<1>3. CASE r.deleted
  <2>1. q = [op |-> "delete", id |-> d, ifm |-> r.base, blob |-> NoBlob, meta |-> NoMeta]
    BY <1>3 DEF RequestFor
  <2>2. QED
    BY <1>2, <1>3, <2>1 DEF Register!Request, RequestOK
<1>4. CASE ~r.deleted
  <2>1. q = [op |-> "put", id |-> d, ifm |-> r.base, blob |-> r.blob, meta |-> r.meta]
    BY <1>4 DEF RequestFor
  <2>2. r.blob = d /\ r.meta.sealed = r.base + 1 /\ (r.base = doc[d].version => ~doc[d].deleted)
    BY <1>1, <1>2, <1>4 DEF RowOK, LiveRow
  <2>3. QED
    BY <1>2, <1>4, <2>1, <2>2 DEF Register!Request, RequestOK
<1>5. QED
  BY <1>2, <1>3, <1>4

\* The head of a queue and what is left of it.
LEMMA QueueHead ==
  ASSUME NEW c \in Devices, NEW q \in Seq(Docs), q # <<>>, QueueOK(c, q)
  PROVE  /\ Head(q) \in Docs /\ row[c][Head(q)].dirty
         /\ Tail(q) \in Seq(Docs) /\ QueueOK(c, Tail(q))
         /\ \A i \in DOMAIN Tail(q) : Tail(q)[i] \in Docs /\ Tail(q)[i] # Head(q)
<1>1. /\ Head(q) = q[1] /\ 1 \in DOMAIN q /\ q[1] \in Docs /\ Tail(q) \in Seq(Docs)
      /\ \A i \in DOMAIN Tail(q) : /\ i \in Nat \ {0} /\ i + 1 \in DOMAIN q /\ Tail(q)[i] = q[i + 1]
                                   /\ q[i + 1] \in Docs
  OBVIOUS
<1>2. \A i \in DOMAIN q : row[c][q[i]].dirty
  BY DEF QueueOK
<1>3. \A i \in DOMAIN Tail(q) : i + 1 # 1 /\ q[i + 1] # q[1]
  BY <1>1 DEF QueueOK
<1>4. ASSUME NEW i \in DOMAIN Tail(q), NEW j \in DOMAIN Tail(q), i # j PROVE Tail(q)[i] # Tail(q)[j]
  <2>1. i + 1 # j + 1
    BY <1>1, <1>4
  <2>2. QED
    BY <1>1, <2>1 DEF QueueOK
<1>5. QueueOK(c, Tail(q))
  BY <1>1, <1>2, <1>4 DEF QueueOK
<1>6. QED
  BY <1>1, <1>2, <1>3, <1>5

\* PUT or DELETE.
LEMMA SendStep ==
  ASSUME IInv, NEW c \in Devices, Send(c) PROVE IInv'
<1>0. /\ TypeOK /\ DeviceOK(c) /\ doc' = doc /\ blob' = blob /\ row' = row /\ cursor' = cursor
      /\ cached' = cached /\ edits' = edits /\ edits \in Nat /\ UNCHANGED <<history, bounds>>
  BY DEF IInv, TypeOK, Send, local, history
<1>1. PICK t \in PushTask : t = task[c]
  BY <1>0, TaskByPc DEF Send
<1>2. t.queue # <<>> /\ QueueOK(c, t.queue) /\ t.queue \in Seq(Docs)
      /\ t.round \in Rounds /\ t.conflict \in BOOLEAN
  BY <1>0, <1>1, TaskByPc DEF Send, DeviceOK, TaskOK, PushTask
<1>3. PICK d : d = Head(t.queue) /\ d \in Docs /\ row[c][d].dirty
  BY <1>2, QueueHead
<1>4. PICK q : q = RequestFor(d, row[c][d])
  OBVIOUS
<1>5. q \in Register!Request /\ RequestOK(q)
  BY <1>3, <1>4, RequestIsSound
<1>6. PICK s \in Slots :
        /\ call[s] = Register!Quiet
        /\ call' = [call EXCEPT ![s] = Register!Open(q)]
        /\ Become(c, [pc |-> "await", slot |-> s, round |-> t.round,
                      queue |-> t.queue, conflict |-> t.conflict])
  BY <1>1, <1>3, <1>4 DEF Send
<1>7. PICK u : u = [pc |-> "await", slot |-> s, round |-> t.round,
                    queue |-> t.queue, conflict |-> t.conflict]
  OBVIOUS
<1>8. u \in AwaitTask /\ u.pc = "await" /\ u.slot = s /\ u.queue = t.queue
  BY <1>2, <1>7 DEF AwaitTask
<1>9. task' \in [Devices -> Task] /\ task'[c] = u /\ \A e \in Devices : e # c => task'[e] = task[e]
  BY <1>0, <1>6, <1>7, <1>8, BecomeType
<1>10. Register!Open(q) \in Call /\ Register!Open(q).pc = "open" /\ Register!Open(q).q = q
  BY <1>5 DEF Call, Register!Open
<1>11. /\ call' \in [Slots -> Call] /\ call'[s] = Register!Open(q)
       /\ \A x \in Slots : x # s => call'[x] = call[x]
  BY <1>0, <1>6, <1>10 DEF TypeOK
<1>12. TypeOK'
  BY <1>0, <1>9, <1>11 DEF TypeOK, history, bounds
<1>13. CallOK(s)'
  <2>1. RequestOK(q)'
    BY <1>0, <1>5 DEF RequestOK
  <2>2. QED
    BY <1>10, <1>11, <2>1 DEF CallOK, RequestOK
<1>14. TaskOK(c)'
  <2>1. QueueOK(c, t.queue)'
    BY <1>0, <1>2 DEF QueueOK
  <2>2. call'[u.slot].pc = "open" /\ call'[u.slot].q = q
    BY <1>8, <1>10, <1>11
  <2>3. q = RequestFor(Head(u.queue), row'[c][Head(u.queue)])
    BY <1>0, <1>3, <1>4, <1>8
  <2>4. task'[c] = u /\ u.pc = "await" /\ u.queue = t.queue /\ u.queue # <<>>
    BY <1>2, <1>8, <1>9
  <2>5. QED
    BY <2>1, <2>2, <2>3, <2>4 DEF TaskOK
<1>15. (\A x \in Docs : RowOK(c, x)') /\ DistinctEdits(c)' /\ CursorOK(c)'
  BY <1>0 DEF DeviceOK, RowOK, DistinctEdits, CursorOK, Given
<1>16. OthersStay(c)
  BY <1>0, <1>9 DEF OthersStay
<1>17. ASSUME NEW e \in Devices, e # c, task[e].pc = "await" PROVE task[e].slot # s
  <2>1. call[task[e].slot].pc \in {"open", "answered"}
    BY <1>17 DEF IInv, DeviceOK, TaskOK
  <2>2. QED
    BY <1>6, <2>1 DEF Register!Quiet
<1>18. task'[c].slot = s
  BY <1>8, <1>9
<1>19. QED
  BY <1>11, <1>12, <1>13, <1>14, <1>15, <1>16, <1>17, <1>18, SlotStep DEF DeviceOK

\* The row an accepted request makes clean.
Confirmed(r, rec) == [r EXCEPT !.version = rec.version, !.base = rec.version,
                               !.blob = rec.blob, !.deleted = rec.deleted, !.dirty = FALSE]

\* An accepted request: the device has the row that the server wrote.
LEMMA ConfirmedRows ==
  ASSUME IInv, NEW c \in Devices, NEW d \in Docs, row[c][d].dirty,
         NEW rec, AcceptedOK(RequestFor(d, row[c][d]), rec),
         row' = [row EXCEPT ![c][d] = Confirmed(@, rec)],
         UNCHANGED <<doc, cursor, cached, edits>>,
         call' \in [Slots -> Call], blob' = blob, task' \in [Devices -> Task],
         UNCHANGED <<replaced, bounds>>
  PROVE  /\ TypeOK' /\ (\A x \in Docs : RowOK(c, x)') /\ DistinctEdits(c)' /\ CursorOK(c)'
         /\ \A x \in Docs : x # d => row'[c][x] = row[c][x]
         /\ \A e \in Devices : e # c => row'[e] = row[e]
<1> DEFINE q == RequestFor(d, row[c][d])
<1>0. /\ TypeOK /\ DeviceOK(c) /\ row[c][d] \in LocalRow /\ doc[d] \in Register!Row
      /\ edits \in Nat
  BY DEF IInv, TypeOK
<1>1. PICK r : r = row[c][d]
  OBVIOUS
<1>2. /\ q.id = d /\ q.ifm = r.base /\ (q.op = "delete" <=> r.deleted) /\ q.op \in {"put", "delete"}
      /\ q.op = "put" => q.meta = r.meta
  BY <1>1, RequestIsSound
<1>3. /\ Past(d, rec) /\ rec.version = r.base + 1 /\ (rec.deleted <=> r.deleted)
      /\ ~rec.deleted => rec.meta = r.meta
  BY <1>2 DEF AcceptedOK
<1> HIDE DEF q
<1>4. /\ r \in LocalRow /\ r.base \in Nat /\ r.meta \in Meta /\ r.meta.edit \in 1..edits
      /\ rec.version \in Nat /\ rec.version > 0 /\ rec.version <= doc[d].version /\ rec.deleted \in BOOLEAN
      /\ doc[d].version \in Nat
      /\ rec.blob = IF rec.deleted THEN NoBlob ELSE d
  <2>1. rec \in Register!Row /\ rec.version \in 1..doc[d].version
        /\ rec.blob = IF rec.deleted THEN NoBlob ELSE d
    BY <1>3 DEF Past
  <2>2. rec.version \in Nat /\ rec.deleted \in BOOLEAN /\ doc[d].version \in Nat
    BY <1>0, <2>1, RowFields
  <2>3. r \in LocalRow /\ r.base \in Nat
    BY <1>0, <1>1, LocalRowFields
  <2>4. QED
    BY <1>1, <2>1, <2>2, <2>3, DirtyIsEdit
<1>5. PICK n : n = Confirmed(r, rec)
  OBVIOUS
<1>6. /\ n.version = rec.version /\ n.base = rec.version /\ n.blob = rec.blob /\ n.meta = r.meta
      /\ n.deleted = rec.deleted /\ n.dirty = FALSE
  BY <1>4, <1>5 DEF Confirmed, LocalRow
<1>7. n \in LocalRow
  <2>1. rec.blob \in Docs \cup {NoBlob} /\ ((rec.blob # NoBlob) <=> (rec.version > 0 /\ ~rec.deleted))
    BY <1>4
  <2>2. QED
    BY <1>4, <1>5, <2>1 DEF Confirmed, LocalRow
<1>8. /\ row' \in [Devices -> [Docs -> LocalRow]]
      /\ row'[c][d] = n /\ \A x \in Docs : x # d => row'[c][x] = row[c][x]
      /\ \A e \in Devices : e # c => row'[e] = row[e]
  <2>1. row' = [row EXCEPT ![c][d] = n]
    BY <1>0, <1>1, <1>5 DEF TypeOK
  <2>2. QED
    BY <1>0, <1>7, <2>1, RowType
<1>9. TypeOK'
  BY <1>0, <1>8 DEF TypeOK, bounds
<1>10. Forward
  BY <1>0 DEF Forward
<1>11. RowOK(c, d)'
  <2>1. rec.version = doc[d].version => rec = doc[d]
    BY <1>3 DEF Past
  <2>2. ~rec.deleted => r.meta.sealed = rec.version /\ rec.meta = r.meta
    BY <1>3 DEF Past
  <2>3. QED
    BY <1>4, <1>6, <1>8, <2>1, <2>2 DEF RowOK, LiveRow, Present
<1>12. ASSUME NEW x \in Docs, x # d PROVE RowOK(c, x)'
  <2>1. RowOK(c, x) /\ row'[c][x] = row[c][x]
    BY <1>0, <1>8, <1>12 DEF DeviceOK
  <2>2. (LiveRow(row[c][x]) /\ row[c][x].base = 0) => x \in cached'[c] \/ doc[x].deleted
    BY <1>0, <2>1 DEF RowOK
  <2>3. QED
    BY <1>0, <1>9, <1>10, <2>1, <2>2, RowKeeps
<1>13. DistinctEdits(c)'
  BY <1>0, <1>6, <1>8 DEF DeviceOK, DistinctEdits
<1>14. CursorOK(c)'
  <2>1. \A x \in Docs : row[c][x].base = doc[x].version => row'[c][x].base = doc[x].version
    BY <1>1, <1>3, <1>4, <1>6, <1>8
  <2>2. QED
    BY <1>0, <1>9, <1>10, <2>1, CursorKeeps DEF DeviceOK
<1>15. QED
  BY <1>8, <1>9, <1>11, <1>12, <1>13, <1>14

\* The answer to a request.
LEMMA ReceiveStep ==
  ASSUME IInv, NEW c \in Devices, Receive(c) PROVE IInv'
<1>0. /\ TypeOK /\ DeviceOK(c) /\ doc' = doc /\ blob' = blob /\ cursor' = cursor
      /\ cached' = cached /\ edits' = edits /\ edits \in Nat /\ UNCHANGED <<replaced, bounds>>
  BY DEF IInv, TypeOK, Receive, history, Register!Return
<1>1. PICK t \in AwaitTask : t = task[c]
  BY <1>0, TaskByPc DEF Receive
<1>2. /\ t.queue # <<>> /\ QueueOK(c, t.queue) /\ t.queue \in Seq(Docs)
      /\ t.round \in Rounds /\ t.conflict \in BOOLEAN /\ t.slot \in Slots
      /\ task[c].pc = "await"
      /\ call[t.slot].q = RequestFor(Head(t.queue), row[c][Head(t.queue)])
  BY <1>0, <1>1, TaskByPc DEF Receive, DeviceOK, TaskOK, AwaitTask
<1>3. PICK d, rest : /\ d = Head(t.queue) /\ d \in Docs /\ row[c][d].dirty
                     /\ rest = Tail(t.queue) /\ rest \in Seq(Docs) /\ QueueOK(c, rest)
                     /\ \A i \in DOMAIN rest : rest[i] # d /\ rest[i] \in Docs
  <2>1. /\ Head(t.queue) \in Docs /\ row[c][Head(t.queue)].dirty
        /\ Tail(t.queue) \in Seq(Docs) /\ QueueOK(c, Tail(t.queue))
        /\ \A i \in DOMAIN Tail(t.queue) : /\ Tail(t.queue)[i] \in Docs
                                           /\ Tail(t.queue)[i] # Head(t.queue)
    BY <1>2, QueueHead
  <2>2. QED
    BY <2>1
<1>4. PICK s : s = t.slot /\ s \in Slots
  BY <1>2
<1>5. PICK rec : rec = call[s].row
  OBVIOUS
<1>6. PICK u : u = [pc |-> "push", round |-> t.round, queue |-> rest, conflict |-> t.conflict]
  OBVIOUS
<1>7. PICK w : w = [u EXCEPT !.conflict = TRUE]
  OBVIOUS
<1>8. u \in PushTask /\ u.queue = rest /\ u.pc = "push"
  BY <1>2, <1>3, <1>6 DEF PushTask
<1>9. w \in PushTask /\ w.queue = rest /\ w.pc = "push"
  BY <1>7, <1>8 DEF PushTask
<1>10. /\ call' \in [Slots -> Call] /\ call'[s] = Register!Quiet
      /\ \A x \in Slots : x # s => call'[x] = call[x]
  BY <1>0, <1>1, <1>4 DEF Receive, Register!Return, Call, TypeOK
<1>11. CallOK(s)'
  BY <1>10 DEF CallOK, Register!Quiet
<1>12. ASSUME NEW e \in Devices, e # c, task[e].pc = "await" PROVE task[e].slot # s
  BY <1>1, <1>2, <1>4, <1>12 DEF IInv, OneSender
<1>13. \/ /\ call[s].pc = "answered" /\ call[s].code \in {"created", "updated"}
          /\ row' = [row EXCEPT ![c][d] = Confirmed(@, rec)] /\ Become(c, u)
       \/ Become(c, w) /\ row' = row
       \/ Become(c, Resting) /\ row' = row
  BY <1>1, <1>3, <1>4, <1>5, <1>6, <1>7 DEF Receive, Answer, Confirmed
<1>14. CASE /\ call[s].pc = "answered" /\ call[s].code \in {"created", "updated"}
            /\ row' = [row EXCEPT ![c][d] = Confirmed(@, rec)] /\ Become(c, u)
  <2>1. AcceptedOK(RequestFor(d, row[c][d]), rec)
    BY <1>2, <1>3, <1>4, <1>5, <1>14 DEF IInv, CallOK
  <2>2. task' \in [Devices -> Task] /\ task'[c] = u /\ \A e \in Devices : e # c => task'[e] = task[e]
    BY <1>0, <1>14, <1>8, BecomeType
  <2>3. /\ TypeOK' /\ (\A x \in Docs : RowOK(c, x)') /\ DistinctEdits(c)' /\ CursorOK(c)'
        /\ \A x \in Docs : x # d => row'[c][x] = row[c][x]
        /\ \A e \in Devices : e # c => row'[e] = row[e]
    BY ZenonT(60), <1>0, <1>3, <1>10, <1>14, <2>1, <2>2, ConfirmedRows
  <2>4. QueueOK(c, u.queue)'
    <3>1. \A i \in DOMAIN rest : row'[c][rest[i]] = row[c][rest[i]]
      BY <1>3, <2>3
    <3>2. \A i \in DOMAIN rest : row'[c][rest[i]].dirty
      BY <1>3, <3>1 DEF QueueOK
    <3>3. \A i, j \in DOMAIN rest : i # j => rest[i] # rest[j]
      BY <1>3 DEF QueueOK
    <3>4. QED
      BY <1>8, <3>2, <3>3 DEF QueueOK
  <2>5. TaskOK(c)' /\ task'[c].pc # "await"
    BY <1>8, <2>2, <2>4, PushTaskOK
  <2>6. OthersStay(c)
    BY <1>0, <2>2, <2>3 DEF OthersStay
  <2>7. QED
    BY <1>4, <1>10, <1>11, <1>12, <2>3, <2>5, <2>6, SlotStep DEF DeviceOK
<1>15. ASSUME row' = row,
              NEW v, Become(c, v), v = Resting \/ v = w
       PROVE  IInv'
  <2>1. task' \in [Devices -> Task] /\ task'[c] = v /\ \A e \in Devices : e # c => task'[e] = task[e]
    BY <1>0, <1>15, <1>9, BecomeType
  <2>2. TypeOK'
    BY <1>0, <1>10, <1>15, <2>1 DEF TypeOK, bounds
  <2>3. (\A x \in Docs : RowOK(c, x)') /\ DistinctEdits(c)' /\ CursorOK(c)'
    BY <1>0, <1>15 DEF DeviceOK, RowOK, DistinctEdits, CursorOK, Given
  <2>4. TaskOK(c)' /\ task'[c].pc # "await"
    <3>1. CASE v = Resting
      BY <2>1, <3>1 DEF TaskOK, Resting
    <3>2. CASE v = w
      <4>1. QueueOK(c, w.queue)'
        BY <1>3, <1>15, <1>9 DEF QueueOK
      <4>2. QED
        BY <1>9, <2>1, <3>2, <4>1, PushTaskOK
    <3>3. QED
      BY <1>15, <3>1, <3>2
  <2>5. OthersStay(c)
    BY <1>0, <1>15, <2>1 DEF OthersStay
  <2>6. QED
    BY <1>4, <1>10, <1>11, <1>12, <2>2, <2>3, <2>4, <2>5, SlotStep DEF DeviceOK
<1>16. QED
  BY <1>13, <1>14, <1>15
-------------------------------------------------------------------------------
(* The server's steps. *)

\* A step of the server at one request: the devices stay as they are.
LEMMA ServerKeeps ==
  ASSUME IInv, Forward, NEW s \in Slots,
         doc' \in [Docs -> Register!Row], call' \in [Slots -> Call],
         \A x \in Slots : x # s => call'[x] = call[x],
         UNCHANGED <<blob, local, task, history, bounds>>,
         \A d \in Docs : DocOK(d)', DistinctSeqs', ServerBlobKept',
         TypeOK' => CallOK(s)',
         (\E c \in Devices : task[c].pc = "await" /\ task[c].slot = s)
           => call'[s].pc \in {"open", "answered"} /\ call'[s].q = call[s].q
  PROVE  IInv'
<1>1. /\ TypeOK /\ row' = row /\ cursor' = cursor /\ cached' = cached /\ task' = task
      /\ edits' = edits
  BY DEF IInv, local, history
<1>2. TypeOK'
  BY <1>1 DEF TypeOK, history, bounds
<1>3. ASSUME NEW x \in Slots PROVE CallOK(x)'
  BY <1>2, <1>3, CallKeeps
<1>4. ASSUME NEW c \in Devices PROVE DeviceOK(c)'
  <2>1. DeviceOK(c)
    BY DEF IInv
  <2>2. task[c].pc = "await" => /\ call[task[c].slot].pc \in {"open", "answered"}
                                /\ task[c].slot \in Slots
    BY <1>1, <2>1, TaskByPc DEF DeviceOK, TaskOK, AwaitTask
  <2>3. task[c].pc = "await" => /\ call'[task[c].slot].pc \in {"open", "answered"}
                                /\ call'[task[c].slot].q = call[task[c].slot].q
    BY <2>2
  <2>4. task'[c] = task[c] /\ row'[c] = row[c] /\ cursor'[c] = cursor[c] /\ cached'[c] = cached[c]
    BY <1>1
  <2>5. QED
    BY <1>1, <1>2, <2>1, <2>3, <2>4, DeviceKeeps
<1>5. OneSender'
  BY <1>1 DEF IInv, OneSender
<1>6. QED
  BY <1>2, <1>3, <1>4, <1>5 DEF IInv

\* A request that is open.
LEMMA OpenRequest ==
  ASSUME IInv, NEW s \in Slots, call[s].pc = "open"
  PROVE  /\ call[s].q \in Register!Request /\ call[s].q.id \in Docs /\ RequestOK(call[s].q)
         /\ call[s].q.op \in {"put", "delete"} /\ call[s].q.ifm \in Nat
<1>1. call[s] \in Call /\ CallOK(s)
  BY DEF IInv, TypeOK
<1>2. call[s].q \in Register!Request
  BY <1>1 DEF Call, Register!Quiet
<1>3. QED
  BY <1>1, <1>2 DEF CallOK, Register!Request

\* A new number is above all.
LEMMA NextNumber ==
  ASSUME TypeOK, NEW n, n = 1 + Max({doc[d].seq : d \in Docs}), NEW e \in Docs
  PROVE  n \in Nat /\ \A d \in Docs : n > doc[d].seq
<1>1. PICK key : key = [d \in Docs |-> doc[d].seq]
  OBVIOUS
<1>2. PICK S : S = {doc[d].seq : d \in Docs}
  OBVIOUS
<1>3. \A d \in Docs : doc[d].seq \in Nat
  BY RowFields DEF TypeOK
<1>4. /\ DOMAIN key = Docs /\ \A d \in Docs : key[d] = doc[d].seq
      /\ S = {key[d] : d \in DOMAIN key}
  BY <1>1, <1>2
<1>5. IsFiniteSet(DOMAIN key) /\ DOMAIN key # {} /\ \A d \in DOMAIN key : key[d] \in Nat
  BY <1>3, <1>4
<1>6. Max(S) \in S /\ \A m \in S : m <= Max(S)
  BY <1>4, <1>5, MaxIsGreatest
<1>7. PICK m : m = Max(S) /\ n = 1 + m
  BY <1>2
<1>8. m \in Nat
  BY <1>2, <1>3, <1>6, <1>7
<1>9. \A d \in Docs : doc[d].seq <= m
  BY <1>2, <1>6, <1>7
<1>10. QED
  BY <1>3, <1>7, <1>8, <1>9

\* What an accepted write leaves.
LEMMA ApplyEffect ==
  ASSUME IInv, NEW s \in Slots, ServerApply(s)
  PROVE  \E q \in Register!Request, wrote \in Register!Row :
           /\ call[s].pc = "open" /\ q = call[s].q /\ q.id \in Docs /\ RequestOK(q)
           /\ doc[q.id].version = q.ifm /\ q.ifm \in Nat
           /\ (q.op = "delete" /\ wrote.deleted) \/ (q.op = "put" /\ ~wrote.deleted /\ wrote.meta = q.meta)
           /\ wrote.version = q.ifm + 1 /\ wrote.seq > 0 /\ \A e \in Docs : wrote.seq > doc[e].seq
           /\ wrote.blob = IF wrote.deleted THEN NoBlob ELSE q.id
           /\ q.op = "put" => q.id \in blob
           /\ wrote.meta \in Meta /\ wrote.meta.edit \in 1..edits
           /\ ~wrote.deleted => wrote.meta.sealed = wrote.version
           /\ doc' = [doc EXCEPT ![q.id] = wrote]
           /\ call' = [call EXCEPT ![s] = Register!Answered(q, Register!Accepted(q), wrote)]
<1>1. TypeOK /\ call[s].pc = "open" /\ edits \in Nat
  BY DEF IInv, TypeOK, ServerApply, Register!Apply
<1>2. PICK q : q = call[s].q
  OBVIOUS
<1>3. q \in Register!Request /\ q.id \in Docs /\ RequestOK(q) /\ q.op \in {"put", "delete"} /\ q.ifm \in Nat
  BY <1>1, <1>2, OpenRequest
<1>4. PICK old : old = doc[q.id]
  OBVIOUS
<1>5. PICK n, wrote :
        /\ n \in 1..MaxSeq /\ wrote = Register!Written(q, old, n)
        /\ doc' = [doc EXCEPT ![q.id] = wrote]
        /\ call' = [call EXCEPT ![s] = Register!Answered(q, Register!Accepted(q), wrote)]
  <2>1. PICK n \in 1..MaxSeq :
          /\ doc' = [doc EXCEPT ![q.id] = Register!Written(q, old, n)]
          /\ \/ call' = [call EXCEPT ![s] = Register!Answered(q, Register!Accepted(q), Register!Written(q, old, n))]
             \/ call' = [call EXCEPT ![s] = Register!Answered(q, "error", Register!NoRow)]
    BY <1>2, <1>4 DEF ServerApply, Register!Apply
  <2>2. call' # [call EXCEPT ![s] = Register!Answered(q, "error", Register!NoRow)]
    BY <1>1 DEF ServerApply, Register!Answered, TypeOK
  <2>3. QED
    BY <2>1, <2>2
<1>6. /\ old.version = q.ifm /\ old \in Register!Row
      /\ q.op = "delete" => Register!Exists(old)
      /\ q.op = "put" => q.blob \in blob
  BY <1>1, <1>2, <1>3, <1>4 DEF ServerApply, Register!Apply, TypeOK
<1>7. doc'[q.id] = wrote
  BY <1>1, <1>3, <1>5 DEF TypeOK
<1>8. wrote.seq = n
  BY <1>5 DEF Register!Written, Register!PutRow, Register!Tombstone
<1>9. n \in Nat /\ n > 0 /\ \A e \in Docs : n > doc[e].seq
  <2>1. doc'[q.id].seq = n /\ n \in Nat /\ n > 0
    BY <1>5, <1>7, <1>8 DEF ServerApply
  <2>2. n = 1 + Max({doc[e].seq : e \in Docs})
    BY <1>2, <2>1 DEF ServerApply
  <2>3. QED
    BY <1>1, <1>3, <2>1, <2>2, NextNumber
<1>10. CASE q.op = "put"
  <2>1. wrote = [version |-> q.ifm + 1, blob |-> q.blob, meta |-> q.meta, deleted |-> FALSE, seq |-> n]
    BY <1>5, <1>10 DEF Register!Written, Register!PutRow
  <2>2. q.blob = q.id /\ q.meta \in Meta /\ q.meta.sealed = q.ifm + 1 /\ q.meta.edit \in 1..edits
    BY <1>3, <1>10 DEF RequestOK, Register!Request
  <2>3. wrote \in Register!Row
    BY <1>3, <1>9, <2>1, <2>2 DEF Register!Row
  <2>4. QED
    BY <1>1, <1>2, <1>3, <1>4, <1>5, <1>6, <1>9, <1>10, <2>1, <2>2, <2>3
<1>11. CASE q.op = "delete"
  <2>1. wrote = [version |-> q.ifm + 1, blob |-> NoBlob, meta |-> old.meta, deleted |-> TRUE, seq |-> n]
    BY <1>5, <1>11 DEF Register!Written, Register!Tombstone
  <2>2. old.meta \in Meta /\ old.meta.edit \in 1..edits
    <3>1. old # Register!NoRow
      BY <1>6, <1>11 DEF Register!Exists, Register!NoRow
    <3>2. QED
      BY <1>3, <1>4, <3>1 DEF IInv, DocOK, Past
  <2>3. wrote \in Register!Row
    BY <1>3, <1>9, <2>1, <2>2 DEF Register!Row
  <2>4. QED
    BY <1>1, <1>2, <1>3, <1>4, <1>5, <1>6, <1>9, <1>11, <2>1, <2>2, <2>3
<1>12. QED
  BY <1>3, <1>10, <1>11

\* A write is accepted.
LEMMA ServerApplyStep ==
  ASSUME IInv, NEW s \in Slots, ServerApply(s) PROVE IInv'
<1>1. PICK q \in Register!Request, wrote \in Register!Row :
        /\ call[s].pc = "open" /\ q = call[s].q /\ q.id \in Docs /\ RequestOK(q)
        /\ doc[q.id].version = q.ifm /\ q.ifm \in Nat
        /\ (q.op = "delete" /\ wrote.deleted) \/ (q.op = "put" /\ ~wrote.deleted /\ wrote.meta = q.meta)
        /\ wrote.version = q.ifm + 1 /\ wrote.seq > 0 /\ \A e \in Docs : wrote.seq > doc[e].seq
        /\ wrote.blob = IF wrote.deleted THEN NoBlob ELSE q.id
        /\ q.op = "put" => q.id \in blob
        /\ wrote.meta \in Meta /\ wrote.meta.edit \in 1..edits
        /\ ~wrote.deleted => wrote.meta.sealed = wrote.version
        /\ doc' = [doc EXCEPT ![q.id] = wrote]
        /\ call' = [call EXCEPT ![s] = Register!Answered(q, Register!Accepted(q), wrote)]
  BY ApplyEffect
<1>2. PICK d : d = q.id /\ d \in Docs
  BY <1>1
<1>3. /\ TypeOK /\ edits \in Nat /\ edits' = edits /\ blob' = blob
      /\ UNCHANGED <<blob, local, task, history, bounds>>
  BY DEF IInv, TypeOK, ServerApply, history
<1>4. /\ doc' \in [Docs -> Register!Row] /\ doc'[d] = wrote
      /\ \A e \in Docs : e # d => doc'[e] = doc[e]
  BY <1>1, <1>2, <1>3 DEF TypeOK
<1>5. Register!Accepted(q) \in {"created", "updated"}
  BY DEF Register!Accepted
<1>6. PICK a : a = Register!Answered(q, Register!Accepted(q), wrote)
  OBVIOUS
<1>7. /\ a.pc = "answered" /\ a.q = q /\ a.code \in {"created", "updated"} /\ a.row = wrote
      /\ a \in Call
  BY <1>1, <1>5, <1>6 DEF Register!Answered, Call, Register!Codes
<1>8. /\ call' \in [Slots -> Call] /\ call'[s] = a
      /\ \A x \in Slots : x # s => call'[x] = call[x]
  BY <1>1, <1>3, <1>6, <1>7 DEF TypeOK
<1>9. Forward
  <2>1. doc[d].deleted => wrote.deleted
    BY <1>1, <1>2 DEF RequestOK
  <2>2. QED
    BY <1>1, <1>2, <1>3, <1>4, <2>1 DEF Forward
<1>10. Past(d, wrote)'
  BY <1>1, <1>2, <1>3, <1>4 DEF Past
<1>11. TypeOK'
  BY <1>3, <1>4, <1>8 DEF TypeOK, local, history, bounds
<1>12. ASSUME NEW e \in Docs PROVE DocOK(e)'
  <2>1. CASE e = d
    BY <1>1, <1>4, <1>10, <2>1 DEF DocOK
  <2>2. CASE e # d /\ doc[e] = Register!NoRow
    BY <1>4, <2>2 DEF DocOK
  <2>3. CASE e # d /\ Past(e, doc[e]) /\ doc[e].seq > 0
    <3>1. PICK x : x = doc[e] /\ x = doc'[e]
      BY <1>4, <2>3
    <3>2. Past(e, x)'
      BY <1>3, <1>9, <1>11, <2>3, <3>1, PastStays
    <3>3. QED
      BY <2>3, <3>1, <3>2 DEF DocOK, Past
  <2>4. QED
    BY <2>1, <2>2, <2>3 DEF IInv, DocOK
<1>13. DistinctSeqs'
  <2>1. \A e \in Docs : e # d => wrote.seq # doc'[e].seq
    <3>1. wrote.seq \in Nat /\ \A e \in Docs : doc[e].seq \in Nat
      BY <1>3, RowFields DEF TypeOK
    <3>2. QED
      BY <1>1, <1>4, <3>1
  <2>2. QED
    BY <1>4, <2>1 DEF IInv, DistinctSeqs
<1>14. ServerBlobKept'
  BY <1>1, <1>2, <1>3, <1>4 DEF IInv, ServerBlobKept, Register!Live
<1>15. CallOK(s)'
  <2>1. AcceptedOK(q, wrote)'
    BY <1>1, <1>2, <1>10 DEF AcceptedOK
  <2>2. QED
    BY <1>7, <1>8, <2>1 DEF CallOK, AcceptedOK
<1>16. call'[s].pc \in {"open", "answered"} /\ call'[s].q = call[s].q
  BY <1>1, <1>7, <1>8
<1>17. QED
  BY <1>3, <1>4, <1>8, <1>9, <1>12, <1>13, <1>14, <1>15, <1>16, ServerKeeps

\* No device waits for request s.
Unawaited(s) == \A c \in Devices : task[c].pc = "await" => task[c].slot # s

\* The server answers without a write, or an answer goes unheard.
LEMMA AnswerStep ==
  ASSUME IInv, NEW s \in Slots, NEW a \in Call,
         doc' = doc, call' = [call EXCEPT ![s] = a],
         UNCHANGED <<blob, local, task, history, bounds>>,
         \/ a = Register!Quiet
         \/ a.pc = "answered" /\ a.code \notin {"created", "updated", "error"} /\ a.q = call[s].q,
         a = Register!Quiet => Unawaited(s)
  PROVE  IInv'
<1>1. TypeOK /\ edits' = edits /\ edits \in Nat /\ blob' = blob
  BY DEF IInv, TypeOK, history
<1>2. /\ call' \in [Slots -> Call] /\ call'[s] = a
      /\ \A x \in Slots : x # s => call'[x] = call[x]
  BY <1>1 DEF TypeOK
<1>3. TypeOK'
  BY <1>1, <1>2 DEF TypeOK, local, history, bounds
<1>4. Forward /\ (\A d \in Docs : DocOK(d)') /\ DistinctSeqs'
  BY <1>1, <1>3, TableKeeps
<1>5. ServerBlobKept'
  BY <1>1 DEF IInv, ServerBlobKept
<1>6. CallOK(s)'
  BY <1>2 DEF CallOK, Register!Quiet
<1>7. (\E c \in Devices : task[c].pc = "await" /\ task[c].slot = s)
        => call'[s].pc \in {"open", "answered"} /\ call'[s].q = call[s].q
  BY <1>2 DEF Unawaited
<1>8. doc' \in [Docs -> Register!Row]
  BY <1>3 DEF TypeOK
<1>9. QED
  BY <1>2, <1>4, <1>5, <1>6, <1>7, <1>8, ServerKeeps

\* A 412.
LEMMA ServerRefuseStep ==
  ASSUME IInv, NEW s \in Slots, ServerRefuse(s) PROVE IInv'
<1> DEFINE a == Register!Answered(call[s].q, "mismatch", doc[call[s].q.id])
<1>1. /\ call[s].pc = "open" /\ doc' = doc /\ call' = [call EXCEPT ![s] = a]
      /\ UNCHANGED <<blob, local, task, history, bounds>>
  BY DEF ServerRefuse, Register!Refuse
<1>2. call[s].q \in Register!Request /\ doc[call[s].q.id] \in Register!Row
  BY <1>1, OpenRequest DEF IInv, TypeOK
<1>3. a \in Call /\ a.pc = "answered" /\ a.code = "mismatch" /\ a.q = call[s].q
  BY <1>2 DEF Call, Register!Answered, Register!Codes
<1>4. a # Register!Quiet
  BY <1>3 DEF Register!Quiet
<1> HIDE DEF a
<1>5. QED
  BY <1>1, <1>3, <1>4, AnswerStep

\* A 404.
LEMMA ServerNotFoundStep ==
  ASSUME IInv, NEW s \in Slots, ServerNotFound(s) PROVE IInv'
<1>1. PICK code \in {"not_found", "blob_not_found"} :
        /\ call[s].pc = "open" /\ doc' = doc
        /\ call' = [call EXCEPT ![s] = Register!Answered(call[s].q, code, Register!NoRow)]
        /\ UNCHANGED <<blob, local, task, history, bounds>>
  BY DEF ServerNotFound, Register!NotFound
<1> DEFINE a == Register!Answered(call[s].q, code, Register!NoRow)
<1>2. call[s].q \in Register!Request /\ Register!NoRow \in Register!Row
  BY <1>1, OpenRequest DEF Register!Row, Register!NoRow
<1>3. a \in Call /\ a.pc = "answered" /\ a.code = code /\ a.q = call[s].q
  BY <1>2 DEF Call, Register!Answered, Register!Codes
<1>4. a # Register!Quiet /\ code \notin {"created", "updated", "error"}
  BY <1>3 DEF Register!Quiet
<1>5. call' = [call EXCEPT ![s] = a]
  BY <1>1
<1> HIDE DEF a
<1>6. QED
  BY <1>1, <1>3, <1>4, <1>5, AnswerStep

\* An answer goes unheard.
LEMMA UnheardStep ==
  ASSUME IInv, NEW s \in Slots, Unheard(s) PROVE IInv'
<1>1. Register!Quiet \in Call
  BY DEF Call
<1>2. /\ doc' = doc /\ call' = [call EXCEPT ![s] = Register!Quiet]
      /\ UNCHANGED <<blob, local, task, history, bounds>>
      /\ Unawaited(s)
  BY DEF Unheard, Register!Return, Unawaited
<1>3. PICK a \in Call : a = Register!Quiet
  BY <1>1
<1>4. QED
  BY <1>2, <1>3, AnswerStep

\* The collector deletes a blob that no live row points at.
LEMMA CollectStep ==
  ASSUME IInv, NEW b \in Docs, Collect(b) PROVE IInv'
<1>1. /\ TypeOK /\ doc' = doc /\ call' = call /\ row' = row /\ cursor' = cursor
      /\ cached' = cached /\ task' = task /\ edits' = edits /\ edits \in Nat /\ replaced' = replaced
  BY DEF IInv, TypeOK, Collect, server, local, history
<1>2. TypeOK'
  BY <1>1 DEF Collect, TypeOK
<1>3. Forward /\ (\A d \in Docs : DocOK(d)') /\ DistinctSeqs'
  BY <1>1, <1>2, TableKeeps
<1>4. \A s \in Slots : CallOK(s)'
  BY <1>1, <1>2, <1>3, CallKeeps
<1>5. ASSUME NEW c \in Devices PROVE DeviceOK(c)'
  <2>1. DeviceOK(c)
    BY DEF IInv
  <2>2. task[c].pc = "await" => call[task[c].slot].pc \in {"open", "answered"}
    BY <2>1 DEF DeviceOK, TaskOK
  <2>3. task'[c] = task[c] /\ row'[c] = row[c] /\ cursor'[c] = cursor[c] /\ cached'[c] = cached[c]
        /\ call'[task[c].slot] = call[task[c].slot]
    BY <1>1
  <2>4. QED
    BY <1>1, <1>2, <1>3, <2>1, <2>2, <2>3, DeviceKeeps
<1>6. ServerBlobKept'
  <2>1. ASSUME NEW d \in Docs, Register!Live(doc[d]) PROVE d \in blob /\ d # b
    <3>1. doc[d].blob = d
      BY <2>1 DEF IInv, DocOK, Past, Register!Live, Register!Exists, Register!NoRow
    <3>2. QED
      BY <2>1, <3>1 DEF Collect, Unreferenced, IInv, ServerBlobKept
  <2>2. QED
    BY <1>1, <2>1 DEF ServerBlobKept, Collect
<1>7. OneSender'
  BY <1>1 DEF IInv, OneSender
<1>8. QED
  BY <1>2, <1>3, <1>4, <1>5, <1>6, <1>7 DEF IInv
-------------------------------------------------------------------------------
(* The invariant is inductive. *)

LEMMA InvariantInit == Init => IInv
<1> SUFFICES ASSUME Init PROVE IInv
  OBVIOUS
<1>1. /\ doc = [d \in Docs |-> Register!NoRow] /\ call = [s \in Slots |-> Register!Quiet]
      /\ blob = {} /\ edits = 0 /\ replaced = {} /\ interrupts = 0 /\ collects = 0
      /\ row = [c \in Devices |-> [d \in Docs |-> NoLocalRow]]
      /\ cursor = [c \in Devices |-> 0] /\ cached = [c \in Devices |-> {}]
      /\ task = [c \in Devices |-> Resting]
  BY DEF Init, Register!Init
<1>2. /\ Register!NoRow \in Register!Row /\ Register!NoRow.version = 0 /\ Register!NoRow.seq = 0
      /\ NoLocalRow \in LocalRow /\ Resting \in Task /\ Register!Quiet \in Call
  BY DEF Register!Row, Register!NoRow, LocalRow, NoLocalRow, Task, Call
<1>3. TypeOK
  BY <1>1, <1>2 DEF TypeOK
<1>4. (\A d \in Docs : DocOK(d)) /\ DistinctSeqs /\ ServerBlobKept
  BY <1>1, <1>2 DEF DocOK, DistinctSeqs, ServerBlobKept, Register!Live, Register!Exists
<1>5. \A s \in Slots : CallOK(s)
  BY <1>1 DEF CallOK, Register!Quiet
<1>6. ASSUME NEW c \in Devices PROVE DeviceOK(c)
  <2>1. ASSUME NEW d \in Docs PROVE RowOK(c, d)
    <3>1. row[c][d] = NoLocalRow /\ doc[d].version = 0
      BY <1>1, <1>2
    <3>2. QED
      BY <3>1 DEF RowOK, NoLocalRow, Present, LiveRow
  <2>2. DistinctEdits(c) /\ CursorOK(c)
    BY <1>1, <1>2 DEF DistinctEdits, CursorOK, Given, NoLocalRow
  <2>3. TaskOK(c)
    BY <1>1 DEF TaskOK, Resting
  <2>4. QED
    BY <2>1, <2>2, <2>3 DEF DeviceOK
<1>7. OneSender
  BY <1>1 DEF OneSender, Resting
<1>8. QED
  BY <1>3, <1>4, <1>5, <1>6, <1>7 DEF IInv

LEMMA InvariantStutter ==
  ASSUME IInv, UNCHANGED vars PROVE IInv'
<1>1. /\ doc' = doc /\ call' = call /\ blob' = blob /\ row' = row /\ cursor' = cursor
      /\ cached' = cached /\ task' = task /\ edits' = edits /\ replaced' = replaced
      /\ interrupts' = interrupts /\ collects' = collects
  BY DEF vars, server, local, history, bounds
<1>2. TypeOK'
  BY <1>1 DEF IInv, TypeOK
<1>3. edits' >= edits
  BY <1>1 DEF IInv, TypeOK
<1>4. Forward /\ (\A d \in Docs : DocOK(d)') /\ DistinctSeqs'
  BY <1>1, <1>2, <1>3, TableKeeps
<1>5. \A s \in Slots : CallOK(s)'
  BY <1>1, <1>2, <1>4, CallKeeps
<1>6. ASSUME NEW c \in Devices PROVE DeviceOK(c)'
  <2>1. DeviceOK(c) /\ TypeOK
    BY DEF IInv
  <2>2. task[c].pc = "await" => call[task[c].slot].pc \in {"open", "answered"}
    BY <2>1 DEF DeviceOK, TaskOK
  <2>3. QED
    BY <1>1, <1>2, <1>4, <2>1, <2>2, DeviceKeeps
<1>7. ServerBlobKept' /\ OneSender'
  BY <1>1 DEF IInv, ServerBlobKept, OneSender
<1>8. QED
  BY <1>2, <1>4, <1>5, <1>6, <1>7 DEF IInv

LEMMA InvariantStep == IInv /\ [Next]_vars => IInv'
<1> SUFFICES ASSUME IInv, [Next]_vars PROVE IInv'
  OBVIOUS
<1>1. ASSUME NEW c \in Devices, UserStep(c) PROVE IInv'
  BY <1>1, AddStep, SetCacheLimitStep, UpdateMetaStep, DeleteStep, OpenStep DEF UserStep
<1>2. ASSUME NEW c \in Devices, StartSync(c) PROVE IInv'
  BY <1>2, StartSyncStep
<1>3. ASSUME NEW c \in Devices, SyncStep(c) PROVE IInv'
  BY <1>3, GetPageStep, DropBlobStep, ApplyItemStep, MakeCopyStep, CopyFailsStep, CopyEvictedStep,
     EndPageStep, UploadStep, SendStep, ReceiveStep, EndPushStep DEF SyncStep
<1>4. ASSUME NEW c \in Devices, Interrupt(c) PROVE IInv'
  BY <1>4, InterruptStep
<1>5. ASSUME NEW s \in Slots, ServerStep(s) PROVE IInv'
  BY <1>5, ServerApplyStep, ServerRefuseStep, ServerNotFoundStep, UnheardStep DEF ServerStep
<1>6. ASSUME NEW d \in Docs, Collect(d) PROVE IInv'
  BY <1>6, CollectStep
<1>7. CASE UNCHANGED vars
  BY <1>7, InvariantStutter
<1>8. QED
  BY <1>1, <1>2, <1>3, <1>4, <1>5, <1>6, <1>7 DEF Next

\* The invariant holds always.
THEOREM Invariant == Spec => []IInv
<1>1. Init => IInv
  BY InvariantInit
<1>2. IInv /\ [Next]_vars => IInv'
  BY InvariantStep
<1>3. QED
  BY <1>1, <1>2, PTL DEF Spec

\* Every variable keeps its type; a local row has a blob exactly when it is
\* there and no tombstone (store.rs, sync.rs).
THEOREM TypesHold == Spec => []TypeOK
<1>1. IInv => TypeOK
  BY DEF IInv
<1>2. QED
  BY <1>1, Invariant, PTL

\* Every live document, local or on the server, carries metadata sealed for
\* its own version: what a device shows or downloads can be opened.
THEOREM AlwaysReadable == Spec => []Readable
<1>1. IInv => Readable
  <2> SUFFICES ASSUME IInv PROVE Readable
    OBVIOUS
  <2>1. ASSUME NEW d \in Docs, Register!Live(doc[d]) PROVE doc[d].meta.sealed = doc[d].version
    BY <2>1 DEF IInv, DocOK, Past, Register!Live, Register!Exists, Register!NoRow
  <2>2. ASSUME NEW c \in Devices, NEW d \in Docs, LiveRow(row[c][d])
        PROVE  row[c][d].meta.sealed = row[c][d].version
    BY <2>2 DEF IInv, DeviceOK, RowOK
  <2>3. QED
    BY <2>1, <2>2 DEF Readable
<1>2. QED
  BY <1>1, Invariant, PTL

\* A clean row at the server's version is the server's row: a push marks clean
\* only what the server has.
THEOREM CleanRowsAreCommitted == Spec => []CleanIsCommitted
<1>1. IInv => CleanIsCommitted
  <2> SUFFICES ASSUME IInv, NEW c \in Devices, NEW d \in Docs,
                      LiveRow(row[c][d]), ~row[c][d].dirty, row[c][d].version = doc[d].version
               PROVE  /\ row[c][d].meta = doc[d].meta /\ row[c][d].blob = doc[d].blob
                      /\ ~doc[d].deleted
    BY DEF CleanIsCommitted
  <2>1. RowOK(c, d)
    BY DEF IInv, DeviceOK
  <2>2. QED
    BY <2>1 DEF RowOK
<1>2. QED
  BY <1>1, Invariant, PTL

\* What the cursor has passed has been applied: the feed and its pages skip
\* nothing, whatever other devices write in the meantime.
THEOREM CursorNeverSkips == Spec => []CursorCovers
<1>1. IInv => CursorCovers
  BY DEF IInv, DeviceOK, CursorOK, CursorCovers
<1>2. QED
  BY <1>1, Invariant, PTL

\* The content of a document that was never acknowledged stays in the cache of
\* its device through evictions, pulls, conflicts, lost answers and kills; only
\* another device's tombstone takes it away, and it may do so before the row.
THEOREM UnpushedStaysCached == Spec => []UnpushedBlobKept
<1>1. IInv => UnpushedBlobKept
  BY DEF IInv, DeviceOK, RowOK, UnpushedBlobKept
<1>2. QED
  BY <1>1, Invariant, PTL

\* A live document on the server never points at a missing blob, though the
\* collector runs between the upload and the PUT.
THEOREM ServerKeepsBlobs == Spec => []ServerBlobKept
<1>1. IInv => ServerBlobKept
  BY DEF IInv
<1>2. QED
  BY <1>1, Invariant, PTL
-------------------------------------------------------------------------------
(* No edit is lost as long as no sync was cut short and no blob collected.  *)
(* What this needs besides IInv: whoever is about to write over a live row  *)
(* of the server knew it, so that its edit counts as replaced, and a copy   *)
(* that must be made can be made.                                           *)

\* The edit in the server's row has been written over by a user.
KnownRow(d) == Register!Live(doc[d]) => doc[d].meta.edit \in replaced

RowKnown(c, d) == (row[c][d].dirty /\ row[c][d].base = doc[d].version) => KnownRow(d)

\* A request based on the server's row knew it; an accepted one that has been
\* written over since was known to the next.
CallKnown(s) ==
  LET q == call[s].q IN
  /\ (call[s].pc = "open" /\ q.ifm = doc[q.id].version) => KnownRow(q.id)
  /\ (/\ call[s].pc = "answered" /\ call[s].code \in {"created", "updated"}
      /\ q.op = "put" /\ call[s].row.version < doc[q.id].version) => q.meta.edit \in replaced

CopyKnown(c) == task[c].pc = "copy" => Register!Exists(doc[task[c].of])

BlobThere(d) == Register!Exists(doc[d]) => d \in blob

\* Where an edit can be.
OnServer(n)  == \E d \in Docs : Register!Live(doc[d]) /\ doc[d].meta.edit = n
InRow(c, n)  == \E d \in Docs : LiveRow(row[c][d]) /\ row[c][d].dirty /\ row[c][d].meta.edit = n
InCopy(c, n) == task[c].pc = "copy" /\ task[c].edit = n

Somewhere(n) == OnServer(n) \/ \E c \in Devices : InRow(c, n) \/ InCopy(c, n)

EInv == /\ \A c \in Devices, d \in Docs : RowKnown(c, d)
        /\ \A s \in Slots : CallKnown(s)
        /\ \A c \in Devices : CopyKnown(c)
        /\ \A d \in Docs : BlobThere(d)
        /\ \A n \in (1..edits) \ replaced : Somewhere(n)

LEMMA SomewhereIsNoEditLost == (\A n \in (1..edits) \ replaced : Somewhere(n)) <=> NoEditLost
BY DEF NoEditLost, Somewhere, OnServer, InRow, InCopy

\* A step of one device, while the server's rows stay: what it changes is sound,
\* and the edits it held are still somewhere.
LEMMA EditsMove ==
  ASSUME IInv, EInv, NEW c \in Devices, OthersStay(c), replaced \subseteq replaced',
         \A d \in Docs : row'[c][d] = row[c][d] \/ RowKnown(c, d)',
         \A s \in Slots : call'[s] = call[s] \/ CallKnown(s)',
         CopyKnown(c)',
         \A n \in 1..edits' : (n > edits /\ n \notin replaced') => Somewhere(n)',
         \A n \in 1..edits : (n \notin replaced' /\ (InRow(c, n) \/ InCopy(c, n))) => Somewhere(n)'
  PROVE  EInv'
<1>1. doc' = doc /\ blob \subseteq blob' /\ edits \in Nat
  BY DEF OthersStay, IInv, TypeOK
<1>2. ASSUME NEW d \in Docs, KnownRow(d) PROVE KnownRow(d)'
  BY <1>1, <1>2 DEF KnownRow
<1>3. ASSUME NEW e \in Devices, NEW d \in Docs PROVE RowKnown(e, d)'
  <2>1. CASE row'[e][d] = row[e][d]
    <3>1. RowKnown(e, d)
      BY DEF EInv
    <3>2. QED
      BY <1>1, <1>2, <2>1, <3>1 DEF RowKnown
  <2>2. CASE row'[e][d] # row[e][d]
    <3>1. e = c
      BY <2>2 DEF OthersStay
    <3>2. QED
      BY <2>2, <3>1
  <2>3. QED
    BY <2>1, <2>2
<1>4. ASSUME NEW s \in Slots PROVE CallKnown(s)'
  <2>1. CASE call'[s] = call[s]
    <3>1. CallKnown(s) /\ call[s] \in Call
      BY DEF EInv, IInv, TypeOK
    <3>2. call[s].pc = "open" => call[s].q.id \in Docs
      BY OpenRequest
    <3>3. QED
      BY <1>1, <1>2, <2>1, <3>1, <3>2 DEF CallKnown
  <2>2. CASE call'[s] # call[s]
    BY <2>2
  <2>3. QED
    BY <2>1, <2>2
<1>5. ASSUME NEW e \in Devices PROVE CopyKnown(e)'
  BY <1>1 DEF EInv, CopyKnown, OthersStay
<1>6. ASSUME NEW d \in Docs PROVE BlobThere(d)'
  BY <1>1 DEF EInv, BlobThere
<1>7. ASSUME NEW n \in (1..edits') \ replaced' PROVE Somewhere(n)'
  <2>1. CASE n > edits
    BY <1>7, <2>1
  <2>2. CASE n \in 1..edits
    <3>1. n \notin replaced
      BY <1>7
    <3>2. Somewhere(n)
      BY <2>2, <3>1 DEF EInv
    <3>3. CASE OnServer(n)
      BY <1>1, <3>3 DEF Somewhere, OnServer
    <3>4. CASE InRow(c, n) \/ InCopy(c, n)
      BY <1>7, <2>2, <3>4
    <3>5. ASSUME NEW e \in Devices, e # c, InRow(e, n) \/ InCopy(e, n) PROVE Somewhere(n)'
      BY <3>5 DEF OthersStay, Somewhere, InRow, InCopy
    <3>6. QED
      BY <3>2, <3>3, <3>4, <3>5 DEF Somewhere
  <2>3. QED
    BY <1>1, <1>7, <2>1, <2>2 DEF OthersStay, IInv, TypeOK
<1>8. QED
  BY <1>3, <1>4, <1>5, <1>6, <1>7 DEF EInv

\* A step that leaves rows, requests and edits alone.
LEMMA EditsStay ==
  ASSUME IInv, EInv, NEW c \in Devices, OthersStay(c),
         row'[c] = row[c], call' = call, edits' = edits, replaced' = replaced,
         task[c].pc # "copy", task'[c].pc # "copy"
  PROVE  EInv'
<1>1. CopyKnown(c)'
  BY DEF CopyKnown
<1>2. \A n \in 1..edits : (InRow(c, n) \/ InCopy(c, n)) => Somewhere(n)'
  BY DEF InRow, InCopy, Somewhere
<1>3. edits \in Nat
  BY DEF IInv, TypeOK
<1>4. QED
  BY <1>1, <1>2, <1>3, EditsMove

\* A new row, and a copy made: the new edit is in it.
LEMMA NewDocumentEdits ==
  ASSUME IInv, EInv, NEW c \in Devices, NEW d \in FreshDocs, NEW fetched \in SUBSET Docs,
         NewDocument(c, d, fetched), OthersStay(c), call' = call, replaced \subseteq replaced',
         task'[c].pc # "copy",
         \A n \in 1..edits : InCopy(c, n) => n \in replaced'
  PROVE  EInv'
<1>1. /\ TypeOK /\ d \in Docs /\ doc' = doc /\ ~LiveRow(row[c][d])
  BY DEF IInv, FreshDocs, OthersStay, LiveRow
<1>2. /\ row'[c][d] = NewRow(d) /\ \A x \in Docs : x # d => row'[c][x] = row[c][x]
      /\ edits' = edits + 1 /\ edits \in Nat
  BY <1>1, NewDocumentEffect
<1>3. RowKnown(c, d)'
  BY <1>1, <1>2 DEF RowKnown, KnownRow, NewRow, Register!Live, Register!Exists
<1>4. \A x \in Docs : row'[c][x] = row[c][x] \/ RowKnown(c, x)'
  BY <1>2, <1>3
<1>5. PICK r : r = NewRow(d)
  OBVIOUS
<1>6. ASSUME NEW n \in 1..edits', n > edits PROVE Somewhere(n)'
  <2>1. n = edits + 1
    BY <1>2, <1>6
  <2>2. r.meta.edit = n /\ r.dirty /\ LiveRow(r)
    BY <1>5, <2>1 DEF NewRow, LiveRow, Present
  <2>3. row'[c][d] = r
    BY <1>2, <1>5
  <2>4. QED
    BY <1>1, <2>2, <2>3 DEF Somewhere, InRow, LiveRow, Present
<1>7. ASSUME NEW n \in 1..edits, InRow(c, n) PROVE Somewhere(n)'
  <2>1. PICK x \in Docs : LiveRow(row[c][x]) /\ row[c][x].dirty /\ row[c][x].meta.edit = n
    BY <1>7 DEF InRow
  <2>2. row'[c][x] = row[c][x]
    BY <1>1, <1>2, <2>1
  <2>3. QED
    BY <2>1, <2>2 DEF Somewhere, InRow, LiveRow, Present
<1>8. CopyKnown(c)'
  BY DEF CopyKnown
<1>9. QED
  BY <1>4, <1>6, <1>7, <1>8, EditsMove

LEMMA AddEdits ==
  ASSUME IInv, IInv', EInv, NEW c \in Devices, Add(c) PROVE EInv'
<1>1. PICK d \in FreshDocs : NewDocument(c, d, {})
  BY DEF Add
<1>2. {} \in SUBSET Docs /\ d \in Docs /\ TypeOK /\ TypeOK'
  BY DEF IInv, FreshDocs
<1>3. OthersStay(c)
  <2>1. /\ \A e \in Devices : e # c => row'[e] = row[e] /\ cached'[e] = cached[e]
        /\ edits' = edits + 1 /\ edits \in Nat
    BY <1>1, <1>2, NewDocumentEffect
  <2>2. QED
    BY <2>1 DEF Add, OthersStay, server
<1>4. task'[c].pc # "copy" /\ call' = call /\ replaced' = replaced
      /\ \A n \in 1..edits : InCopy(c, n) => n \in replaced'
  BY DEF Add, Idle, server, InCopy
<1>5. QED
  BY <1>1, <1>2, <1>3, <1>4, NewDocumentEdits

LEMMA MakeCopyEdits ==
  ASSUME IInv, IInv', EInv, NEW c \in Devices, MakeCopy(c) PROVE EInv'
<1>1. PICK d \in FreshDocs : NewDocument(c, d, {task[c].of})
  BY DEF MakeCopy
<1>2. TypeOK /\ task[c] \in CopyTask /\ task[c].of \in Docs /\ task[c].page \in PageTask
  BY TaskByPc DEF IInv, MakeCopy, CopyTask
<1>3. {task[c].of} \in SUBSET Docs /\ d \in Docs
  BY <1>2 DEF FreshDocs
<1>4. task'[c] = task[c].page /\ \A e \in Devices : e # c => task'[e] = task[e]
  BY <1>2, BecomeType DEF MakeCopy
<1>5. OthersStay(c)
  <2>1. /\ \A e \in Devices : e # c => row'[e] = row[e] /\ cached'[e] = cached[e]
        /\ edits' = edits + 1 /\ edits \in Nat
    BY <1>1, <1>2, <1>3, NewDocumentEffect
  <2>2. QED
    BY <1>4, <2>1 DEF MakeCopy, OthersStay, server
<1>6. task'[c].pc # "copy"
  BY <1>2, <1>4, PageItems
<1>7. call' = call /\ replaced \subseteq replaced' /\ \A n \in 1..edits : InCopy(c, n) => n \in replaced'
  BY DEF MakeCopy, server, InCopy
<1>8. QED
  BY <1>1, <1>3, <1>5, <1>6, <1>7, NewDocumentEdits

\* A user's edit of a row: what it writes over is replaced.
LEMMA EditEdits ==
  ASSUME IInv, EInv, NEW c \in Devices, NEW d \in Docs, NEW r, Idle(c), LiveRow(row[c][d]),
         row' = [row EXCEPT ![c][d] = r],
         r.base = row[c][d].base, r.meta.edit = edits + 1, r.dirty,
         LiveRow(r) \/ edits + 1 \in replaced',
         replaced \subseteq replaced', row[c][d].meta.edit \in replaced',
         edits' = edits + 1,
         UNCHANGED <<server, blob, cursor, cached, task, bounds>>
  PROVE  EInv'
<1>1. /\ TypeOK /\ edits \in Nat /\ doc' = doc /\ call' = call /\ task' = task /\ blob' = blob
      /\ cached' = cached /\ cursor' = cursor
  BY DEF IInv, TypeOK, server
<1>2. /\ row'[c][d] = r /\ \A x \in Docs : x # d => row'[c][x] = row[c][x]
      /\ \A e \in Devices : e # c => row'[e] = row[e]
  BY <1>1 DEF TypeOK
<1>3. OthersStay(c)
  BY <1>1, <1>2 DEF OthersStay
<1>4. RowKnown(c, d)'
  <2>1. SUFFICES ASSUME row[c][d].base = doc[d].version, Register!Live(doc[d])
                 PROVE  doc[d].meta.edit \in replaced'
    BY <1>1, <1>2 DEF RowKnown, KnownRow, Register!Live, Register!Exists
  <2>2. RowOK(c, d) /\ RowKnown(c, d) /\ row[c][d] \in LocalRow
    BY DEF IInv, TypeOK, DeviceOK, EInv
  <2>3. CASE row[c][d].dirty
    BY <2>1, <2>2, <2>3 DEF RowKnown, KnownRow
  <2>4. CASE ~row[c][d].dirty
    BY <2>1, <2>2, <2>4 DEF RowOK
  <2>5. QED
    BY <2>3, <2>4
<1>5. ASSUME NEW n \in 1..edits', n > edits, n \notin replaced' PROVE Somewhere(n)'
  <2>1. n = edits + 1
    BY <1>1, <1>5
  <2>2. LiveRow(r)
    BY <1>5, <2>1
  <2>3. QED
    BY <1>2, <2>1, <2>2 DEF Somewhere, InRow, LiveRow, Present
<1>6. ASSUME NEW n \in 1..edits, n \notin replaced', InRow(c, n) PROVE Somewhere(n)'
  <2>1. PICK x \in Docs : LiveRow(row[c][x]) /\ row[c][x].dirty /\ row[c][x].meta.edit = n
    BY <1>6 DEF InRow
  <2>2. row'[c][x] = row[c][x]
    BY <1>2, <1>6, <2>1
  <2>3. QED
    BY <2>1, <2>2 DEF Somewhere, InRow, LiveRow, Present
<1>7. CopyKnown(c)' /\ \A n \in 1..edits : ~InCopy(c, n)
  BY <1>1 DEF CopyKnown, Idle, InCopy
<1>8. \A x \in Docs : row'[c][x] = row[c][x] \/ RowKnown(c, x)'
  BY <1>2, <1>4
<1>9. QED
  BY <1>1, <1>3, <1>5, <1>6, <1>7, <1>8, EditsMove

LEMMA UpdateMetaEdits ==
  ASSUME IInv, EInv, NEW c \in Devices, NEW d \in Docs, UpdateMeta(c, d) PROVE EInv'
<1>1. TypeOK /\ row[c][d] \in LocalRow /\ LiveRow(row[c][d]) /\ edits \in Nat
  BY DEF IInv, TypeOK, UpdateMeta
<1>2. PICK r : r = EditedRow(row[c][d])
  OBVIOUS
<1>3. /\ r \in LocalRow /\ r.version = r.base + 1 /\ r.base = row[c][d].base
      /\ r.dirty /\ r.deleted = row[c][d].deleted
      /\ r.meta = [edit |-> edits + 1, sealed |-> r.version]
  BY <1>1, <1>2, EditedRows
<1>4. row' = [row EXCEPT ![c][d] = r] /\ replaced' = replaced \cup {row[c][d].meta.edit}
  BY <1>2 DEF UpdateMeta, EditedRow
<1>5. LiveRow(r) /\ r.meta.edit = edits + 1
  BY <1>1, <1>3, LocalRowFields DEF LiveRow, Present
<1>6. QED
  BY <1>1, <1>3, <1>4, <1>5, EditEdits DEF UpdateMeta

LEMMA DeleteEdits ==
  ASSUME IInv, EInv, NEW c \in Devices, NEW d \in Docs, Delete(c, d) PROVE EInv'
<1>1. TypeOK /\ row[c][d] \in LocalRow /\ LiveRow(row[c][d]) /\ edits \in Nat
  BY DEF IInv, TypeOK, Delete
<1>2. PICK r : r = DeletedRow(row[c][d])
  OBVIOUS
<1>3. /\ r \in LocalRow /\ r.base = row[c][d].base /\ r.dirty
      /\ r.meta = [edit |-> edits + 1, sealed |-> row[c][d].base + 1]
  BY <1>1, <1>2, EditedRows
<1>6. r.meta.edit = edits + 1
  BY <1>3
<1>4. /\ row' = [row EXCEPT ![c][d] = r]
      /\ replaced' = replaced \cup {row[c][d].meta.edit, edits + 1}
  BY <1>2 DEF Delete, DeletedRow
<1>5. QED
  BY <1>1, <1>3, <1>4, <1>6, EditEdits DEF Delete

\* One record is applied: an edit it would write over is about to be copied.
LEMMA ApplyItemEdits ==
  ASSUME IInv, EInv, NEW c \in Devices, ApplyItem(c) PROVE EInv'
<1>0. /\ TypeOK /\ DeviceOK(c) /\ edits \in Nat /\ task[c].pc = "apply"
      /\ doc' = doc /\ call' = call /\ cursor' = cursor /\ edits' = edits /\ blob' = blob
      /\ replaced' = replaced /\ cached' = cached
  BY DEF IInv, TypeOK, ApplyItem, server, history
<1>1. task[c] \in PageTask /\ task[c].items # <<>> /\ PageOK(c, task[c])
  BY <1>0, TaskByPc DEF ApplyItem, DeviceOK, TaskOK
<1>2. PICK t \in PageTask : t = task[c]
  BY <1>1
<1>3. PICK u, d, rec : Splits(t, u, d, rec)
  BY <1>1, <1>2 DEF Splits
<1>4. /\ d \in Docs /\ Past(d, rec) /\ row[c][d].base <= rec.version
      /\ u.pc = "apply"
  <2>1. 1 \in DOMAIN t.items /\ Head(t.items) = t.items[1] /\ u.pc = "apply"
    BY <1>1, <1>2, <1>3, RestOfPage DEF Splits
  <2>2. QED
    BY <1>1, <1>2, <1>3, <2>1, PageItems DEF PageOK, Splits
<1>5. PICK r : r = row[c][d]
  OBVIOUS
<1>6. Register!Exists(doc[d])
  BY <1>0, <1>4, RowFields DEF Past, TypeOK, Register!Exists
<1>7. PICK copy : copy = [pc |-> "copy", page |-> u, of |-> d, edit |-> r.meta.edit]
  OBVIOUS
<1>8. \/ Conflicting(r, rec) /\ Overwrite(c, d, rec) /\ Become(c, IF NeedsCopy(r) THEN copy ELSE u)
      \/ r.dirty /\ ~Conflicting(r, rec) /\ Become(c, u) /\ row' = row
      \/ ~r.dirty /\ Overwrite(c, d, rec) /\ Become(c, u)
  BY <1>2, <1>3, <1>5, <1>7, ItemCases
<1>9. ASSUME NEW v, Become(c, v)
      PROVE  task'[c] = v /\ \A e \in Devices : e # c => task'[e] = task[e]
  BY <1>0, <1>9 DEF Become, TypeOK
<1>10. \A n \in 1..edits : ~InCopy(c, n)
  BY <1>0 DEF InCopy
<1>11. CASE row' = row /\ Become(c, u)
  <2>1. OthersStay(c) /\ task'[c].pc # "copy" /\ row'[c] = row[c]
    BY <1>0, <1>4, <1>9, <1>11 DEF OthersStay
  <2>2. QED
    BY <1>0, <2>1, EditsStay
<1>12. ASSUME Overwrite(c, d, rec), NEW v, Become(c, v), v = u \/ v = copy,
              (r.dirty /\ LiveRow(r)) => v = copy
       PROVE  EInv'
  <2>1. /\ row'[c][d] = Pulled(row[c][d], rec)
        /\ \A x \in Docs : x # d => row'[c][x] = row[c][x]
        /\ \A e \in Devices : e # c => row'[e] = row[e] /\ cached'[e] = cached[e]
    BY <1>0, <1>4, <1>12, OverwriteEffect
  <2>2. ~Pulled(row[c][d], rec).dirty
    BY DEF Pulled
  <2>3. \A x \in Docs : row'[c][x] = row[c][x] \/ RowKnown(c, x)'
    BY <2>1, <2>2 DEF RowKnown
  <2>4. OthersStay(c) /\ task'[c] = v
    BY <1>0, <1>9, <1>12, <2>1 DEF OthersStay
  <2>5. CopyKnown(c)'
    BY <1>0, <1>4, <1>6, <1>7, <1>12, <2>4 DEF CopyKnown
  <2>6. ASSUME NEW n \in 1..edits, InRow(c, n) PROVE Somewhere(n)'
    <3>1. PICK x \in Docs : LiveRow(row[c][x]) /\ row[c][x].dirty /\ row[c][x].meta.edit = n
      BY <2>6 DEF InRow
    <3>2. CASE x = d
      <4>1. v = copy /\ copy.pc = "copy" /\ copy.edit = n
        BY <1>5, <1>7, <1>12, <3>1, <3>2
      <4>2. QED
        BY <2>4, <4>1 DEF Somewhere, InCopy
    <3>3. CASE x # d
      BY <2>1, <3>1, <3>3 DEF Somewhere, InRow, LiveRow, Present
    <3>4. QED
      BY <3>2, <3>3
  <2>7. QED
    BY <1>0, <1>10, <2>3, <2>4, <2>5, <2>6, EditsMove
<1>13. LiveRow(r) => NeedsCopy(r)
  BY DEF LiveRow, NeedsCopy
<1>14. QED
  BY <1>8, <1>11, <1>12, <1>13

\* A file that goes takes no edit with it.
LEMMA DropBlobEdits ==
  ASSUME IInv, EInv, NEW c \in Devices, DropBlob(c) PROVE EInv'
<1>1. /\ doc' = doc /\ call' = call /\ blob' = blob /\ row' = row /\ task' = task
      /\ edits' = edits /\ replaced' = replaced
  BY DEF DropBlob, server, history
<1>2. QED
  BY <1>1 DEF EInv, RowKnown, CallKnown, KnownRow, CopyKnown, BlobThere,
              Somewhere, OnServer, InRow, InCopy

\* A copy can always be made: the blob is on the server.
LEMMA CopyFailsEdits ==
  ASSUME IInv, EInv, NEW c \in Devices, CopyFails(c) PROVE EInv'
<1>1. task[c].of \in Docs
  BY TaskByPc DEF IInv, CopyFails, CopyTask
<1>2. task[c].of \in blob
  BY <1>1 DEF CopyFails, EInv, CopyKnown, BlobThere
<1>3. QED
  BY <1>2 DEF CopyFails

\* A step that only changes what the device is about to do.
LEMMA TaskEdits ==
  ASSUME IInv, EInv, NEW c \in Devices, NEW t, Become(c, t), t.pc # "copy", task[c].pc # "copy",
         UNCHANGED <<server, row, history>>, blob \subseteq blob',
         \A e \in Devices : e # c => cursor'[e] = cursor[e] /\ cached'[e] = cached[e]
  PROVE  EInv'
<1>1. /\ doc' = doc /\ call' = call /\ row' = row /\ edits' = edits /\ edits \in Nat
      /\ replaced' = replaced
  BY DEF server, history, IInv, TypeOK
<1>2. task'[c] = t /\ \A e \in Devices : e # c => task'[e] = task[e]
  BY DEF Become, IInv, TypeOK
<1>3. OthersStay(c)
  BY <1>1, <1>2 DEF OthersStay
<1>4. QED
  BY <1>1, <1>2, <1>3, EditsStay

\* The user browses.
LEMMA BrowseEdits ==
  ASSUME IInv, EInv, NEW c \in Devices, Idle(c), NEW rows, NEW files \in SUBSET Docs,
         Cache(c, rows, files),
         UNCHANGED <<server, blob, row, cursor, task, history, bounds>>
  PROVE  EInv'
<1>1. /\ doc' = doc /\ call' = call /\ row' = row /\ edits' = edits /\ edits \in Nat
      /\ replaced' = replaced /\ cursor' = cursor /\ task' = task /\ blob' = blob
      /\ TypeOK
  BY DEF server, history, IInv, TypeOK
<1>2. OthersStay(c)
  BY <1>1, CacheType DEF OthersStay
<1>3. QED
  BY <1>1, <1>2, EditsStay DEF Idle

LEMMA PlainEdits ==
  ASSUME IInv, EInv, NEW c \in Devices,
         \/ StartSync(c) \/ GetPage(c) \/ EndPage(c) \/ Upload(c) \/ EndPush(c)
         \/ SetCacheLimit(c) \/ \E d \in Docs : Open(c, d)
  PROVE  EInv'
<1>0. TypeOK
  BY DEF IInv
<1>1. CASE StartSync(c)
  <2>1. PICK t : t = [pc |-> "pull", round |-> 1]
    OBVIOUS
  <2>2. QED
    BY <1>1, <2>1, TaskEdits DEF StartSync, Idle, local
<1>2. CASE GetPage(c)
  <2>1. PICK t : Become(c, t) /\ t.pc = "apply"
    BY <1>2 DEF GetPage
  <2>2. QED
    BY <1>2, <2>1, TaskEdits DEF GetPage, local
<1>3. CASE EndPage(c)
  <2>1. PICK t : Become(c, t) /\ t.pc \in {"pull", "push"}
    BY <1>3 DEF EndPage
  <2>2. \A e \in Devices : e # c => cursor'[e] = cursor[e] /\ cached'[e] = cached[e]
    BY <1>0, <1>3 DEF EndPage, TypeOK
  <2>3. QED
    BY <1>3, <2>1, <2>2, TaskEdits DEF EndPage
<1>4. CASE Upload(c)
  <2>1. task[c] \in PushTask
    BY <1>0, <1>4, TaskByPc DEF Upload
  <2>2. [task[c] EXCEPT !.pc = "send"].pc = "send" /\ Resting.pc = "idle"
    BY <2>1 DEF PushTask, Resting
  <2>3. PICK t : Become(c, t) /\ t.pc \in {"send", "idle"}
    BY <1>4, <2>2 DEF Upload
  <2>4. QED
    BY <1>4, <2>3, TaskEdits DEF Upload, local
<1>5. CASE EndPush(c)
  <2>1. PICK t : Become(c, t) /\ t.pc \in {"pull", "idle"}
    BY <1>5 DEF EndPush, Resting
  <2>2. QED
    BY <1>5, <2>1, TaskEdits DEF EndPush, local
<1>6. CASE SetCacheLimit(c)
  BY <1>0, <1>6, BrowseEdits DEF SetCacheLimit, TypeOK
<1>7. ASSUME NEW d \in Docs, Open(c, d) PROVE EInv'
  <2>1. cached[c] \cup {row[c][d].blob} \in SUBSET Docs
    BY <1>0, <1>7 DEF TypeOK, Open
  <2>2. QED
    BY <1>7, <2>1, BrowseEdits DEF Open
<1>8. QED
  BY <1>1, <1>2, <1>3, <1>4, <1>5, <1>6, <1>7

\* A request is sent: the row it is made from knew the server's row.
LEMMA SendEdits ==
  ASSUME IInv, EInv, NEW c \in Devices, Send(c) PROVE EInv'
<1>0. /\ TypeOK /\ DeviceOK(c) /\ doc' = doc /\ blob' = blob /\ row' = row /\ cursor' = cursor
      /\ cached' = cached /\ edits' = edits /\ edits \in Nat /\ replaced' = replaced
      /\ task[c].pc \in {"push", "send"}
  BY DEF IInv, TypeOK, Send, local, history
<1>1. task[c].queue # <<>> /\ QueueOK(c, task[c].queue) /\ task[c].queue \in Seq(Docs)
  BY <1>0, TaskByPc DEF Send, DeviceOK, TaskOK, PushTask
<1>2. PICK d : d = Head(task[c].queue) /\ d \in Docs /\ row[c][d].dirty
  BY <1>1, QueueHead
<1>3. PICK q : q = RequestFor(d, row[c][d])
  OBVIOUS
<1>4. q.id = d /\ q.ifm = row[c][d].base
  BY <1>3 DEF RequestFor
<1>5. PICK s, u : s \in Slots /\ call' = [call EXCEPT ![s] = Register!Open(q)] /\ Become(c, u) /\ u.pc = "await"
  <2>1. PICK s \in Slots :
          /\ call' = [call EXCEPT ![s] = Register!Open(q)]
          /\ Become(c, [pc |-> "await", slot |-> s, round |-> task[c].round,
                        queue |-> task[c].queue, conflict |-> task[c].conflict])
    BY <1>2, <1>3 DEF Send
  <2>2. PICK u : u = [pc |-> "await", slot |-> s, round |-> task[c].round,
                      queue |-> task[c].queue, conflict |-> task[c].conflict]
    OBVIOUS
  <2>3. u.pc = "await"
    BY <2>2
  <2>4. QED
    BY <2>1, <2>2, <2>3
<1>6. /\ call'[s] = Register!Open(q) /\ \A x \in Slots : x # s => call'[x] = call[x]
      /\ task'[c] = u /\ \A e \in Devices : e # c => task'[e] = task[e]
  BY <1>0, <1>5 DEF Become, TypeOK
<1>7. CallKnown(s)'
  <2>1. RowKnown(c, d)
    BY <1>2 DEF EInv
  <2>2. q.ifm = doc[q.id].version => KnownRow(q.id)
    BY <1>2, <1>4, <2>1 DEF RowKnown
  <2>3. Register!Open(q).pc = "open" /\ Register!Open(q).q = q
    BY DEF Register!Open
  <2>4. QED
    BY <1>0, <1>6, <2>2, <2>3 DEF CallKnown, KnownRow
<1>8. OthersStay(c) /\ CopyKnown(c)'
  BY <1>0, <1>5, <1>6 DEF OthersStay, CopyKnown
<1>9. \A n \in 1..edits : (InRow(c, n) \/ InCopy(c, n)) => Somewhere(n)'
  BY <1>0 DEF InRow, InCopy, Somewhere, LiveRow, Present
<1>10. \A x \in Slots : call'[x] = call[x] \/ CallKnown(x)'
  BY <1>6, <1>7
<1>11. QED
  BY <1>0, <1>8, <1>9, <1>10, EditsMove

\* An answer is received: an edit that was accepted is in the server's row, or
\* someone who knew it has written over it.
LEMMA ReceiveEdits ==
  ASSUME IInv, EInv, NEW c \in Devices, Receive(c) PROVE EInv'
<1>0. /\ TypeOK /\ DeviceOK(c) /\ doc' = doc /\ blob' = blob /\ cursor' = cursor
      /\ cached' = cached /\ edits' = edits /\ edits \in Nat /\ replaced' = replaced
      /\ task[c].pc = "await"
  BY DEF IInv, TypeOK, Receive, history, Register!Return
<1>1. /\ task[c].queue # <<>> /\ QueueOK(c, task[c].queue) /\ task[c].queue \in Seq(Docs)
      /\ task[c].slot \in Slots
      /\ call[task[c].slot].q = RequestFor(Head(task[c].queue), row[c][Head(task[c].queue)])
  BY <1>0, TaskByPc DEF DeviceOK, TaskOK, AwaitTask
<1>2. PICK d : d = Head(task[c].queue) /\ d \in Docs /\ row[c][d].dirty
  BY <1>1, QueueHead
<1>3. PICK s : s = task[c].slot /\ s \in Slots
  BY <1>1
<1>4. PICK q, rec, r : q = call[s].q /\ rec = call[s].row /\ r = row[c][d]
  OBVIOUS
<1>5. PICK u : Become(c, u) /\ u.pc # "copy"
  BY DEF Receive, Resting
<1>6. /\ call'[s] = Register!Quiet /\ \A x \in Slots : x # s => call'[x] = call[x]
      /\ task'[c] = u /\ \A e \in Devices : e # c => task'[e] = task[e]
  BY <1>0, <1>3, <1>5 DEF Receive, Register!Return, Become, TypeOK
<1>7. \A x \in Slots : call'[x] = call[x] \/ CallKnown(x)'
  BY <1>6 DEF CallKnown, Register!Quiet
<1>8. CopyKnown(c)' /\ \A n \in 1..edits : ~InCopy(c, n)
  BY <1>0, <1>5, <1>6 DEF CopyKnown, InCopy
<1>9. \/ /\ call[s].pc = "answered" /\ call[s].code \in {"created", "updated"}
         /\ row' = [row EXCEPT ![c][d] = Confirmed(@, rec)]
      \/ row' = row
  BY <1>2, <1>3, <1>4 DEF Receive, Answer, Confirmed
<1>10. CASE row' = row
  <2>1. OthersStay(c)
    BY <1>0, <1>6, <1>10 DEF OthersStay
  <2>2. \A n \in 1..edits : InRow(c, n) => Somewhere(n)'
    BY <1>10 DEF InRow, Somewhere, LiveRow, Present
  <2>3. QED
    BY <1>0, <1>7, <1>8, <1>10, <2>1, <2>2, EditsMove
<1>11. CASE /\ call[s].pc = "answered" /\ call[s].code \in {"created", "updated"}
            /\ row' = [row EXCEPT ![c][d] = Confirmed(@, rec)]
  <2>1. /\ row'[c][d] = Confirmed(r, rec) /\ \A x \in Docs : x # d => row'[c][x] = row[c][x]
        /\ \A e \in Devices : e # c => row'[e] = row[e]
    BY <1>0, <1>2, <1>4, <1>11 DEF TypeOK
  <2>2. ~Confirmed(r, rec).dirty
    BY <1>0, <1>2, <1>4 DEF Confirmed, TypeOK, LocalRow
  <2>3. \A x \in Docs : row'[c][x] = row[c][x] \/ RowKnown(c, x)'
    BY <2>1, <2>2 DEF RowKnown
  <2>4. OthersStay(c)
    BY <1>0, <1>6, <2>1 DEF OthersStay
  <2>5. /\ q = RequestFor(d, row[c][d]) /\ q.id = d
        /\ (q.op = "delete") <=> r.deleted
        /\ q.op \in {"put", "delete"} /\ (q.op = "put" => q.meta = r.meta)
    <3>1. q = RequestFor(d, row[c][d])
      BY <1>1, <1>2, <1>3, <1>4
    <3>2. /\ q.id = d /\ ((q.op = "delete") <=> row[c][d].deleted)
          /\ q.op \in {"put", "delete"} /\ (q.op = "put" => q.meta = row[c][d].meta)
      BY <3>1 DEF RequestFor
    <3>3. QED
      BY <1>4, <3>1, <3>2
  <2>6. AcceptedOK(q, rec)
    BY <1>3, <1>4, <1>11 DEF IInv, CallOK
  <2>7. ASSUME LiveRow(r), r.meta.edit \notin replaced PROVE OnServer(r.meta.edit)
    <3>1. q.op = "put" /\ q.meta = r.meta
      BY <2>5, <2>7 DEF LiveRow
    <3>2. Past(d, rec) /\ rec.meta = r.meta /\ ~rec.deleted
      BY <2>5, <2>6, <3>1 DEF AcceptedOK
    <3>3. rec.version \in 1..doc[d].version /\ doc[d].version \in Nat
      BY <1>0, <1>2, <3>2, RowFields DEF Past, TypeOK
    <3>4. ~(rec.version < doc[d].version)
      BY <1>3, <1>4, <1>11, <2>5, <2>7, <3>1 DEF EInv, CallKnown
    <3>5. rec.version = doc[d].version
      BY <3>3, <3>4
    <3>6. rec = doc[d]
      BY <3>2, <3>5 DEF Past
    <3>7. QED
      BY <1>2, <3>2, <3>3, <3>5, <3>6 DEF OnServer, Register!Live, Register!Exists
  <2>8. ASSUME NEW n \in 1..edits, n \notin replaced', InRow(c, n) PROVE Somewhere(n)'
    <3>1. PICK x \in Docs : LiveRow(row[c][x]) /\ row[c][x].dirty /\ row[c][x].meta.edit = n
      BY <2>8 DEF InRow
    <3>2. CASE x = d
      BY <1>0, <1>4, <2>7, <2>8, <3>1, <3>2 DEF Somewhere, OnServer
    <3>3. CASE x # d
      BY <2>1, <3>1, <3>3 DEF Somewhere, InRow, LiveRow, Present
    <3>4. QED
      BY <3>2, <3>3
  <2>9. QED
    BY <1>0, <1>7, <1>8, <2>3, <2>4, <2>8, EditsMove
<1>12. QED
  BY <1>9, <1>10, <1>11

\* The server answers without a write, or an answer goes unheard.
LEMMA AnswerEdits ==
  ASSUME IInv, EInv, NEW s \in Slots, ServerRefuse(s) \/ ServerNotFound(s) \/ Unheard(s)
  PROVE  EInv'
<1>1. /\ doc' = doc /\ blob' = blob /\ row' = row /\ task' = task /\ edits' = edits
      /\ replaced' = replaced /\ TypeOK
  BY DEF ServerRefuse, ServerNotFound, Unheard, Register!Refuse, Register!NotFound,
         Register!Return, local, history, IInv
<1>2. PICK a : /\ call' = [call EXCEPT ![s] = a]
               /\ a.pc = "quiet" \/ (a.pc = "answered" /\ a.code \notin {"created", "updated"})
  <2>1. ASSUME ServerRefuse(s) \/ ServerNotFound(s)
        PROVE  \E code, b : /\ code \in {"mismatch", "not_found", "blob_not_found"}
                             /\ call' = [call EXCEPT ![s] = Register!Answered(call[s].q, code, b)]
    BY <2>1 DEF ServerRefuse, ServerNotFound, Register!Refuse, Register!NotFound
  <2>2. ASSUME ServerRefuse(s) \/ ServerNotFound(s)
        PROVE  \E a : /\ call' = [call EXCEPT ![s] = a]
                      /\ a.pc = "answered" /\ a.code \notin {"created", "updated"}
    <3>1. PICK code, b : /\ code \in {"mismatch", "not_found", "blob_not_found"}
                         /\ call' = [call EXCEPT ![s] = Register!Answered(call[s].q, code, b)]
      BY <2>1, <2>2
    <3>2. PICK a : a = Register!Answered(call[s].q, code, b)
      OBVIOUS
    <3>3. a.pc = "answered" /\ a.code = code
      BY <3>2 DEF Register!Answered
    <3>4. QED
      BY <3>1, <3>2, <3>3
  <2>3. PICK quiet : quiet = Register!Quiet
    OBVIOUS
  <2>6. quiet.pc = "quiet"
    BY <2>3 DEF Register!Quiet
  <2>4. CASE Unheard(s)
    BY <2>3, <2>4, <2>6 DEF Unheard, Register!Return
  <2>5. QED
    BY <2>2, <2>4
<1>3. call'[s] = a /\ \A x \in Slots : x # s => call'[x] = call[x]
  BY <1>1, <1>2 DEF TypeOK
<1>4. CallKnown(s)'
  BY <1>2, <1>3 DEF CallKnown
<1>5. ASSUME NEW x \in Slots, x # s PROVE CallKnown(x)'
  <2>1. CallKnown(x)
    BY DEF EInv
  <2>2. QED
    BY <1>1, <1>3, <1>5, <2>1 DEF CallKnown, KnownRow
<1>6. \A c \in Devices, d \in Docs : RowKnown(c, d)'
  BY <1>1 DEF EInv, RowKnown, KnownRow
<1>7. (\A c \in Devices : CopyKnown(c)') /\ \A d \in Docs : BlobThere(d)'
  BY <1>1 DEF EInv, CopyKnown, BlobThere
<1>8. \A n \in (1..edits') \ replaced' : Somewhere(n)'
  BY <1>1 DEF EInv, Somewhere, OnServer, InRow, InCopy
<1>9. QED
  BY <1>4, <1>5, <1>6, <1>7, <1>8 DEF EInv

\* A write is accepted: what it writes over was known to its author.
LEMMA ApplyEdits ==
  ASSUME IInv, IInv', EInv, NEW s \in Slots, ServerApply(s) PROVE EInv'
<1>1. PICK q \in Register!Request, wrote \in Register!Row :
        /\ call[s].pc = "open" /\ q = call[s].q /\ q.id \in Docs /\ RequestOK(q)
        /\ doc[q.id].version = q.ifm /\ q.ifm \in Nat
        /\ (q.op = "delete" /\ wrote.deleted) \/ (q.op = "put" /\ ~wrote.deleted /\ wrote.meta = q.meta)
        /\ wrote.version = q.ifm + 1
        /\ q.op = "put" => q.id \in blob
        /\ doc' = [doc EXCEPT ![q.id] = wrote]
        /\ call' = [call EXCEPT ![s] = Register!Answered(q, Register!Accepted(q), wrote)]
  BY ApplyEffect
<1>2. PICK d : d = q.id /\ d \in Docs
  BY <1>1
<1>3. /\ TypeOK /\ edits' = edits /\ blob' = blob /\ row' = row /\ task' = task
      /\ replaced' = replaced
  BY DEF IInv, ServerApply, local, history
<1>4. doc'[d] = wrote /\ \A e \in Docs : e # d => doc'[e] = doc[e]
  BY <1>1, <1>2, <1>3 DEF TypeOK
<1>5. PICK a : a = Register!Answered(q, Register!Accepted(q), wrote)
  OBVIOUS
<1>6. a.pc = "answered" /\ a.q = q /\ a.row = wrote
  BY <1>5 DEF Register!Answered
<1>7. call'[s] = a /\ \A x \in Slots : x # s => call'[x] = call[x]
  BY <1>1, <1>3, <1>5 DEF TypeOK
<1>8. KnownRow(d)
  BY <1>1, <1>2 DEF EInv, CallKnown
<1>9. doc[d].version = q.ifm /\ wrote.version = q.ifm + 1 /\ doc[d].version \in Nat
      /\ doc[d].version < wrote.version
  BY <1>1, <1>2
<1>10. ASSUME NEW c \in Devices, NEW x \in Docs PROVE RowKnown(c, x)'
  <2>1. CASE x = d
    <3>1. row[c][d].base \in Nat /\ row[c][d].base <= doc[d].version
      BY <1>2, <1>3, LocalRowFields DEF IInv, DeviceOK, RowOK, TypeOK
    <3>2. row[c][d].base # wrote.version
      BY <1>9, <3>1
    <3>3. QED
      BY <1>3, <1>4, <2>1, <3>2 DEF RowKnown
  <2>2. CASE x # d
    BY <1>3, <1>4, <2>2 DEF EInv, RowKnown, KnownRow
  <2>3. QED
    BY <2>1, <2>2
<1>11. CallKnown(s)'
  <2>1. ~(wrote.version < doc'[q.id].version)
    BY <1>2, <1>4, <1>9
  <2>2. QED
    BY <1>6, <1>7, <2>1 DEF CallKnown
<1>12. ASSUME NEW x \in Slots, x # s PROVE CallKnown(x)'
  <2>1. PICK p, b : p = call[x].q /\ b = call[x].row
    OBVIOUS
  <2>2. call'[x] = call[x] /\ CallKnown(x) /\ CallOK(x)
    BY <1>7, <1>12 DEF EInv, IInv
  <2>3. ASSUME call[x].pc = "open", p.ifm = doc'[p.id].version PROVE KnownRow(p.id)'
    <3>1. p.id \in Docs /\ p.ifm \in Nat /\ p.ifm <= doc[p.id].version
      BY <2>1, <2>3, OpenRequest DEF RequestOK
    <3>2. p.id # d
      BY <1>4, <1>9, <2>3, <3>1
    <3>3. doc'[p.id] = doc[p.id]
      BY <1>4, <3>1, <3>2
    <3>4. KnownRow(p.id)
      BY <2>1, <2>2, <2>3, <3>3 DEF CallKnown
    <3>5. QED
      BY <1>3, <3>3, <3>4 DEF KnownRow
  <2>4. ASSUME call[x].pc = "answered", call[x].code \in {"created", "updated"}, p.op = "put",
               b.version < doc'[p.id].version
        PROVE  p.meta.edit \in replaced
    <3>1. Past(p.id, b) /\ ~b.deleted /\ b.meta = p.meta
      BY <2>1, <2>2, <2>4 DEF CallOK, AcceptedOK
    <3>2. CASE p.id = d
      <4>1. b.version \in Nat /\ b.version <= doc[d].version /\ b.version > 0
        BY <1>9, <3>1, <3>2 DEF Past
      <4>2. CASE b.version < doc[d].version
        BY <2>1, <2>2, <2>4, <3>2, <4>2 DEF CallKnown
      <4>3. CASE b.version = doc[d].version
        <5>1. b = doc[d]
          BY <3>1, <3>2, <4>3 DEF Past
        <5>2. Register!Live(doc[d])
          BY <3>1, <4>1, <5>1 DEF Register!Live, Register!Exists
        <5>3. QED
          BY <1>8, <3>1, <5>1, <5>2 DEF KnownRow
      <4>4. QED
        BY <1>9, <4>1, <4>2, <4>3
    <3>3. CASE p.id # d
      <4>1. call[x] \in Call
        BY <1>3 DEF TypeOK
      <4>2. p.id \in Docs
        BY <2>1, <2>4, <4>1 DEF Call, Register!Quiet, Register!Request
      <4>3. doc'[p.id] = doc[p.id]
        BY <1>4, <3>3, <4>2
      <4>4. QED
        BY <2>1, <2>2, <2>4, <4>3 DEF CallKnown
    <3>4. QED
      BY <3>2, <3>3
  <2>5. QED
    BY <1>3, <2>1, <2>2, <2>3, <2>4 DEF CallKnown, KnownRow
<1>13. ASSUME NEW c \in Devices PROVE CopyKnown(c)'
  <2>1. task[c].pc = "copy" => task[c].of \in Docs
    BY <1>3, TaskByPc DEF CopyTask
  <2>2. CopyKnown(c)
    BY DEF EInv
  <2>3. wrote.version > 0
    BY <1>1
  <2>4. QED
    BY <1>3, <1>4, <2>1, <2>2, <2>3 DEF CopyKnown, Register!Exists
<1>14. ASSUME NEW x \in Docs PROVE BlobThere(x)'
  <2>1. CASE x # d
    BY <1>3, <1>4, <2>1 DEF EInv, BlobThere
  <2>2. d \in blob
    <3>1. CASE q.op = "put"
      BY <1>1, <1>2, <3>1
    <3>2. CASE q.op = "delete"
      BY <1>1, <1>2, <3>2 DEF ServerApply, Register!Apply, EInv, BlobThere
    <3>3. QED
      BY <1>1, <3>1, <3>2
  <2>3. QED
    BY <1>3, <2>1, <2>2 DEF BlobThere
<1>15. ASSUME NEW n \in (1..edits') \ replaced' PROVE Somewhere(n)'
  <2>1. Somewhere(n)
    BY <1>3 DEF EInv
  <2>2. CASE OnServer(n)
    <3>1. PICK x \in Docs : Register!Live(doc[x]) /\ doc[x].meta.edit = n
      BY <2>2 DEF OnServer
    <3>2. x # d
      BY <1>3, <1>8, <3>1 DEF KnownRow
    <3>3. QED
      BY <1>4, <3>1, <3>2 DEF Somewhere, OnServer, Register!Live, Register!Exists
  <2>3. CASE \E c \in Devices : InRow(c, n) \/ InCopy(c, n)
    BY <1>3, <2>3 DEF Somewhere, InRow, InCopy
  <2>4. QED
    BY <2>1, <2>2, <2>3 DEF Somewhere
<1>16. QED
  BY <1>10, <1>11, <1>12, <1>13, <1>14, <1>15 DEF EInv

\* No sync was cut short and no blob collected so far.
Calm == interrupts = 0 /\ collects = 0

LEMMA EditsInit == Init => EInv
<1> SUFFICES ASSUME Init PROVE EInv
  OBVIOUS
<1>1. /\ doc = [d \in Docs |-> Register!NoRow] /\ call = [s \in Slots |-> Register!Quiet]
      /\ row = [c \in Devices |-> [d \in Docs |-> NoLocalRow]]
      /\ task = [c \in Devices |-> Resting] /\ edits = 0
  BY DEF Init, Register!Init
<1>2. Register!NoRow.version = 0 /\ ~NoLocalRow.dirty /\ Resting.pc = "idle" /\ Register!Quiet.pc = "quiet"
  BY DEF Register!NoRow, NoLocalRow, Resting, Register!Quiet
<1>3. \A d \in Docs : ~Register!Exists(doc[d])
  BY <1>1, <1>2 DEF Register!Exists
<1>4. \A c \in Devices, d \in Docs : RowKnown(c, d)
  BY <1>1, <1>2 DEF RowKnown
<1>5. \A s \in Slots : CallKnown(s)
  BY <1>1, <1>2 DEF CallKnown
<1>6. \A c \in Devices : CopyKnown(c)
  BY <1>1, <1>2 DEF CopyKnown
<1>7. \A d \in Docs : BlobThere(d)
  BY <1>3 DEF BlobThere
<1>8. \A n \in (1..edits) \ replaced : Somewhere(n)
  BY <1>1
<1>9. QED
  BY <1>4, <1>5, <1>6, <1>7, <1>8 DEF EInv

LEMMA EditsStep ==
  ASSUME TightCache = FALSE, IInv, IInv', Calm => EInv, [Next]_vars, Calm'
  PROVE  EInv'
<1>1. Calm
  <2>1. interrupts \in Nat /\ collects \in Nat
    BY DEF IInv, TypeOK
  <2>2. interrupts' = 0 /\ collects' = 0
    BY DEF Calm
  <2>3. ASSUME NEW c \in Devices, UserStep(c) \/ StartSync(c) PROVE UNCHANGED bounds
    <3>1. CASE Add(c) \/ SetCacheLimit(c) \/ StartSync(c)
      BY <3>1 DEF Add, SetCacheLimit, StartSync
    <3>2. ASSUME NEW d \in Docs, UpdateMeta(c, d) PROVE UNCHANGED bounds
      BY <3>2 DEF UpdateMeta
    <3>3. ASSUME NEW d \in Docs, Delete(c, d) PROVE UNCHANGED bounds
      BY <3>3 DEF Delete
    <3>4. ASSUME NEW d \in Docs, Open(c, d) PROVE UNCHANGED bounds
      BY <3>4 DEF Open
    <3>5. QED
      BY <2>3, <3>1, <3>2, <3>3, <3>4 DEF UserStep
  <2>4. ASSUME NEW c \in Devices, SyncStep(c) PROVE UNCHANGED bounds
    <3>1. CASE GetPage(c) \/ DropBlob(c) \/ ApplyItem(c) \/ MakeCopy(c) \/ CopyFails(c) \/ CopyEvicted(c)
      BY <3>1 DEF GetPage, DropBlob, ApplyItem, MakeCopy, CopyFails, CopyEvicted
    <3>2. CASE EndPage(c) \/ Upload(c) \/ Send(c) \/ Receive(c) \/ EndPush(c)
      BY <3>2 DEF EndPage, Upload, Send, Receive, EndPush
    <3>3. QED
      BY <2>4, <3>1, <3>2 DEF SyncStep
  <2>5. ASSUME NEW s \in Slots, ServerStep(s) PROVE UNCHANGED bounds
    BY <2>5 DEF ServerStep, ServerApply, ServerRefuse, ServerNotFound, Unheard
  <2>6. ASSUME NEW c \in Devices, Interrupt(c) PROVE interrupts' = interrupts + 1
    BY <2>6 DEF Interrupt
  <2>7. ASSUME NEW d \in Docs, Collect(d) PROVE collects' = collects + 1
    BY <2>7 DEF Collect
  <2>8. ASSUME UNCHANGED vars PROVE UNCHANGED bounds
    BY <2>8 DEF vars
  <2>9. UNCHANGED bounds \/ interrupts' = interrupts + 1 \/ collects' = collects + 1
    BY <2>3, <2>4, <2>5, <2>6, <2>7, <2>8 DEF Next, bounds
  <2>10. QED
    BY <2>1, <2>2, <2>9 DEF Calm, bounds
<1>2. EInv
  BY <1>1
<1>3. ASSUME NEW c \in Devices, UserStep(c) PROVE EInv'
  BY <1>2, <1>3, AddEdits, UpdateMetaEdits, DeleteEdits, PlainEdits DEF UserStep
<1>4. ASSUME NEW c \in Devices, StartSync(c) PROVE EInv'
  BY <1>2, <1>4, PlainEdits
<1>5. ASSUME NEW c \in Devices, SyncStep(c) PROVE EInv'
  <2>1. ~CopyEvicted(c)
    BY DEF CopyEvicted
  <2>2. QED
    BY <1>2, <1>5, <2>1, PlainEdits, DropBlobEdits, ApplyItemEdits, MakeCopyEdits, CopyFailsEdits,
       SendEdits, ReceiveEdits DEF SyncStep
<1>6. ASSUME NEW c \in Devices, Interrupt(c) PROVE EInv'
  <2>1. interrupts' = 1
    BY <1>1, <1>6 DEF Calm, Interrupt
  <2>2. QED
    BY <2>1 DEF Calm
<1>7. ASSUME NEW s \in Slots, ServerStep(s) PROVE EInv'
  BY <1>2, <1>7, ApplyEdits, AnswerEdits DEF ServerStep
<1>8. ASSUME NEW d \in Docs, Collect(d) PROVE EInv'
  <2>1. collects' = 1
    BY <1>1, <1>8 DEF Calm, Collect
  <2>2. QED
    BY <2>1 DEF Calm
<1>9. CASE UNCHANGED vars
  <2>1. /\ doc' = doc /\ call' = call /\ blob' = blob /\ row' = row /\ task' = task
        /\ edits' = edits /\ replaced' = replaced
    BY <1>9 DEF vars, server, local, history
  <2>2. QED
    BY <1>2, <2>1 DEF EInv, RowKnown, CallKnown, KnownRow, CopyKnown, BlobThere,
                      Somewhere, OnServer, InRow, InCopy
<1>10. QED
  BY <1>3, <1>4, <1>5, <1>6, <1>7, <1>8, <1>9 DEF Next

\* With a cache that can always hold one more blob, the content of every edit
\* is still somewhere, unless a user wrote over it, a sync was cut short or a
\* blob was collected: conflicts, refusals and late pages lose nothing.
THEOREM EditsAreKept ==
  ASSUME TightCache = FALSE
  PROVE  Spec => [](Calm => NoEditLost)
<1>1. Init => IInv /\ (Calm => EInv)
  BY InvariantInit, EditsInit
<1>2. IInv /\ (Calm => EInv) /\ [Next]_vars => (IInv /\ (Calm => EInv))'
  BY InvariantStep, EditsStep
<1>3. EInv => NoEditLost
  BY SomewhereIsNoEditLost DEF EInv
<1>4. QED
  BY <1>1, <1>2, <1>3, PTL DEF Spec

\* In particular where nothing is ever interrupted or collected.
COROLLARY NoEditIsLost ==
  ASSUME TightCache = FALSE, MaxInterrupts = 0, MaxCollects = 0
  PROVE  Spec => []NoEditLost
<1>1. IInv => Calm
  BY DEF IInv, TypeOK, Calm
<1>2. QED
  BY <1>1, Invariant, EditsAreKept, PTL
-------------------------------------------------------------------------------
(* What a device has confirmed stays confirmed. *)

LEMMA OnwardOf ==
  ASSUME IInv, NEW c \in Devices,
         \A e \in Devices : e # c => row'[e] = row[e] /\ cursor'[e] = cursor[e],
         cursor'[c] >= cursor[c], \A d \in Docs : row'[c][d].base >= row[c][d].base
  PROVE  Onward
<1>1. \A e \in Devices : cursor[e] \in Nat /\ \A d \in Docs : row[e][d].base \in Nat
  BY LocalRowFields DEF IInv, TypeOK
<1>2. QED
  BY <1>1 DEF Onward

\* A row that is pulled over is not ahead.
LEMMA ApplyItemOnward ==
  ASSUME IInv, NEW c \in Devices, ApplyItem(c) PROVE Onward
<1>0. TypeOK /\ DeviceOK(c) /\ task[c].pc = "apply" /\ cursor' = cursor /\ cursor[c] \in Nat
  BY DEF IInv, TypeOK, ApplyItem
<1>1. task[c] \in PageTask /\ task[c].items # <<>> /\ PageOK(c, task[c])
  BY <1>0, TaskByPc DEF ApplyItem, DeviceOK, TaskOK
<1>2. PICK t \in PageTask : t = task[c]
  BY <1>1
<1>3. PICK u, d, rec : Splits(t, u, d, rec)
  BY <1>1, <1>2 DEF Splits
<1>4. d \in Docs /\ Past(d, rec) /\ row[c][d].base <= rec.version
  <2>1. 1 \in DOMAIN t.items /\ Head(t.items) = t.items[1]
    BY <1>1, <1>2, <1>3, RestOfPage DEF Splits
  <2>2. QED
    BY <1>1, <1>2, <1>3, <2>1, PageItems DEF PageOK, Splits
<1>5. Overwrite(c, d, rec) \/ row' = row
  BY <1>2, <1>3, ItemCases
<1>6. \A x \in Docs : row[c][x].base \in Nat
  BY <1>0, LocalRowFields DEF TypeOK
<1>7. rec.version \in Nat
  BY <1>4, RowFields DEF Past
<1>8. CASE Overwrite(c, d, rec)
  <2>1. /\ row'[c][d] = Pulled(row[c][d], rec)
        /\ \A x \in Docs : x # d => row'[c][x] = row[c][x]
        /\ \A e \in Devices : e # c => row'[e] = row[e]
    BY <1>4, <1>8, OverwriteEffect
  <2>2. row'[c][d].base = rec.version
    BY <2>1 DEF Pulled
  <2>3. \A x \in Docs : row'[c][x].base >= row[c][x].base
    BY <1>4, <1>6, <1>7, <2>1, <2>2
  <2>4. QED
    BY <1>0, <2>1, <2>3, OnwardOf
<1>9. CASE row' = row
  BY <1>0, <1>6, <1>9, OnwardOf
<1>10. QED
  BY <1>5, <1>8, <1>9

\* A row that is confirmed moves to the next version.
LEMMA ReceiveOnward ==
  ASSUME IInv, NEW c \in Devices, Receive(c) PROVE Onward
<1>0. /\ TypeOK /\ DeviceOK(c) /\ task[c].pc = "await" /\ cursor' = cursor /\ cursor[c] \in Nat
  BY DEF IInv, TypeOK, Receive
<1>1. /\ task[c].queue # <<>> /\ QueueOK(c, task[c].queue) /\ task[c].queue \in Seq(Docs)
      /\ task[c].slot \in Slots
      /\ call[task[c].slot].q = RequestFor(Head(task[c].queue), row[c][Head(task[c].queue)])
  BY <1>0, TaskByPc DEF DeviceOK, TaskOK, AwaitTask
<1>2. PICK d : d = Head(task[c].queue) /\ d \in Docs /\ row[c][d].dirty
  BY <1>1, QueueHead
<1>3. PICK s : s = task[c].slot /\ s \in Slots
  BY <1>1
<1>4. PICK rec, r : rec = call[s].row /\ r = row[c][d]
  OBVIOUS
<1>5. \/ /\ call[s].pc = "answered" /\ call[s].code \in {"created", "updated"}
         /\ row' = [row EXCEPT ![c][d] = Confirmed(@, rec)]
      \/ row' = row
  BY <1>2, <1>3, <1>4 DEF Receive, Answer, Confirmed
<1>6. \A x \in Docs : row[c][x].base \in Nat
  BY <1>0, LocalRowFields DEF TypeOK
<1>7. CASE /\ call[s].pc = "answered" /\ call[s].code \in {"created", "updated"}
           /\ row' = [row EXCEPT ![c][d] = Confirmed(@, rec)]
  <2>1. /\ row'[c][d] = Confirmed(r, rec) /\ \A x \in Docs : x # d => row'[c][x] = row[c][x]
        /\ \A e \in Devices : e # c => row'[e] = row[e]
    BY <1>0, <1>2, <1>4, <1>7 DEF TypeOK
  <2>2. Confirmed(r, rec).base = rec.version
    BY <1>0, <1>2, <1>4 DEF Confirmed, TypeOK, LocalRow
  <2>3. call[s].q = RequestFor(d, row[c][d])
    BY <1>1, <1>2, <1>3
  <2>4. call[s].q.ifm = r.base
    BY <1>2, <1>4, <2>3, RequestIsSound
  <2>5. AcceptedOK(call[s].q, rec)
    BY <1>3, <1>4, <1>7 DEF IInv, CallOK
  <2>6. rec.version = r.base + 1
    BY <2>4, <2>5 DEF AcceptedOK
  <2>7. \A x \in Docs : row'[c][x].base >= row[c][x].base
    BY <1>2, <1>4, <1>6, <2>1, <2>2, <2>6
  <2>8. QED
    BY <1>0, <2>1, <2>7, OnwardOf
<1>8. CASE row' = row
  BY <1>0, <1>6, <1>8, OnwardOf
<1>9. QED
  BY <1>5, <1>7, <1>8

LEMMA OnwardStep ==
  ASSUME IInv, IInv', [Next]_vars PROVE Onward
<1>0. /\ TypeOK /\ TypeOK'
      /\ \A e \in Devices : cursor[e] \in Nat /\ \A d \in Docs : row[e][d].base \in Nat
  BY LocalRowFields DEF IInv, TypeOK
<1>1. CASE UNCHANGED <<cursor, row>>
  BY <1>0, <1>1 DEF Onward
<1>2. ASSUME NEW c \in Devices, NEW d \in FreshDocs, NEW fetched \in SUBSET Docs,
             NewDocument(c, d, fetched), doc' = doc, cursor' = cursor
      PROVE  Onward
  <2>1. /\ \A x \in Docs : row'[c][x].base = row[c][x].base
        /\ \A e \in Devices : e # c => row'[e] = row[e]
    BY <1>0, <1>2, NewDocumentRows
  <2>2. QED
    BY <1>0, <1>2, <2>1, OnwardOf
<1>3. ASSUME NEW c \in Devices, NEW d \in Docs, NEW r, r.base = row[c][d].base,
             row' = [row EXCEPT ![c][d] = r], cursor' = cursor
      PROVE  Onward
  <2>1. /\ row'[c][d] = r /\ \A x \in Docs : x # d => row'[c][x] = row[c][x]
        /\ \A e \in Devices : e # c => row'[e] = row[e]
    BY <1>0, <1>3 DEF TypeOK
  <2>2. \A x \in Docs : row'[c][x].base >= row[c][x].base
    BY <1>0, <1>3, <2>1
  <2>3. QED
    BY <1>0, <1>3, <2>1, <2>2, OnwardOf
<1>4. ASSUME NEW c \in Devices, UserStep(c) PROVE Onward
  <2>1. CASE Add(c)
    <3>1. PICK d \in FreshDocs : NewDocument(c, d, {})
      BY <2>1 DEF Add
    <3>2. {} \in SUBSET Docs /\ doc' = doc /\ cursor' = cursor
      BY <2>1 DEF Add, server
    <3>3. QED
      BY <1>2, <3>1, <3>2
  <2>2. ASSUME NEW d \in Docs, UpdateMeta(c, d) PROVE Onward
    <3>1. row' = [row EXCEPT ![c][d] = EditedRow(row[c][d])] /\ cursor' = cursor
      BY <2>2 DEF UpdateMeta, EditedRow
    <3>2. row[c][d] \in LocalRow
      BY <1>0 DEF TypeOK
    <3>3. EditedRow(row[c][d]).base = row[c][d].base
      BY <1>0, <3>2, EditedRows
    <3>4. QED
      BY <1>3, <3>1, <3>3
  <2>3. ASSUME NEW d \in Docs, Delete(c, d) PROVE Onward
    <3>1. row' = [row EXCEPT ![c][d] = DeletedRow(row[c][d])] /\ cursor' = cursor
      BY <2>3 DEF Delete, DeletedRow
    <3>2. row[c][d] \in LocalRow
      BY <1>0 DEF TypeOK
    <3>3. DeletedRow(row[c][d]).base = row[c][d].base
      BY <1>0, <3>2, EditedRows
    <3>4. QED
      BY <1>3, <3>1, <3>3
  <2>4. CASE SetCacheLimit(c)
    BY <1>1, <2>4 DEF SetCacheLimit
  <2>5. ASSUME NEW d \in Docs, Open(c, d) PROVE Onward
    BY <1>1, <2>5 DEF Open
  <2>6. QED
    BY <1>4, <2>1, <2>2, <2>3, <2>4, <2>5 DEF UserStep
<1>5. ASSUME NEW c \in Devices, MakeCopy(c) PROVE Onward
  <2>1. PICK d \in FreshDocs : NewDocument(c, d, {task[c].of})
    BY <1>5 DEF MakeCopy
  <2>2. task[c].of \in Docs
    BY <1>0, <1>5, TaskByPc DEF MakeCopy, CopyTask
  <2>3. {task[c].of} \in SUBSET Docs /\ doc' = doc /\ cursor' = cursor
    BY <1>5, <2>2 DEF MakeCopy, server
  <2>4. QED
    BY <1>2, <2>1, <2>3
<1>6. ASSUME NEW c \in Devices, EndPage(c) PROVE Onward
  <2>1. cursor' = [cursor EXCEPT ![c] = task[c].next] /\ row' = row
    BY <1>6 DEF EndPage
  <2>2. task[c].next >= cursor[c]
    BY <1>0, <1>6, TaskByPc DEF EndPage, IInv, DeviceOK, TaskOK, PageOK
  <2>3. /\ \A e \in Devices : e # c => row'[e] = row[e] /\ cursor'[e] = cursor[e]
        /\ cursor'[c] = task[c].next
    BY <1>0, <2>1 DEF TypeOK
  <2>4. \A d \in Docs : row'[c][d].base >= row[c][d].base
    BY <1>0, <2>1
  <2>5. QED
    BY <2>2, <2>3, <2>4, OnwardOf
<1>7. ASSUME NEW c \in Devices, StartSync(c) \/ SyncStep(c) \/ Interrupt(c) PROVE Onward
  <2>1. CASE ApplyItem(c)
    BY <2>1, ApplyItemOnward
  <2>2. CASE Receive(c)
    BY <2>2, ReceiveOnward
  <2>3. CASE MakeCopy(c)
    BY <1>5, <2>3
  <2>4. CASE EndPage(c)
    BY <1>6, <2>4
  <2>5. CASE \/ StartSync(c) \/ GetPage(c) \/ DropBlob(c) \/ CopyFails(c) \/ CopyEvicted(c)
             \/ Upload(c) \/ Send(c) \/ EndPush(c) \/ Interrupt(c)
    BY <1>1, <2>5 DEF StartSync, GetPage, DropBlob, CopyFails, CopyEvicted, Upload, Send, EndPush,
                      Interrupt, local
  <2>6. QED
    BY <1>7, <2>1, <2>2, <2>3, <2>4, <2>5 DEF SyncStep
<1>8. CASE \/ \E s \in Slots : ServerStep(s)
           \/ \E d \in Docs : Collect(d)
           \/ UNCHANGED vars
  BY <1>1, <1>8 DEF ServerStep, ServerApply, ServerRefuse, ServerNotFound, Unheard, Collect,
                    vars, local
<1>9. QED
  BY <1>4, <1>7, <1>8 DEF Next

\* No device's cursor and no confirmed version ever moves back, though pages
\* are applied that were read before others wrote.
THEOREM ConfirmedNeverRewinds == Spec => NeverRewinds
<1>1. IInv /\ [Next]_vars => [Onward]_<<cursor, row>>
  BY OnwardStep, InvariantStep
<1>2. QED
  BY <1>1, Invariant, PTL DEF Spec, NeverRewinds
===============================================================================
