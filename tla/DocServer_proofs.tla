--------------------------- MODULE DocServer_proofs ---------------------------
(***************************************************************************)
(* Proofs about DocServer and the reader of its change feed, for any set   *)
(* of documents, requests, blobs and metadata, any last sequence number    *)
(* and any limit of a page: compare-and-set of documents, the refinement   *)
(* of DocRegister, and which rows can escape the reader.                   *)
(***************************************************************************)
EXTENDS ChangeFeed, FeedPage_proofs, TLAPS

USE NullsAreNew, MaxSeqIsNat

(* Building blocks: what the handlers compute is well typed. *)

\* An absent document is a row of its own kind.
LEMMA NoRowType == NoRow \in Row
BY DEF NoRow, Row

\* Every request a client can make is well typed.
LEMMA RequestsForType ==
  ASSUME NEW id \in Docs, NEW ifm \in Nat, NEW q \in RequestsFor(id, ifm)
  PROVE  q \in Request /\ q.id = id /\ q.ifm = ifm
BY DEF RequestsFor, Request

\* put and delete write a row of the next version.
LEMMA WrittenType ==
  ASSUME NEW q \in Request, NEW row \in Row, NEW n \in Nat
  PROVE  /\ Written(q, row, n) \in Row
         /\ Written(q, row, n).version = q.ifm + 1
         /\ Written(q, row, n).seq = n
<1>1. CASE q.op = "put"
  BY <1>1 DEF Written, PutRow, Row, Request
<1>2. CASE q.op = "delete"
  BY <1>2 DEF Written, Tombstone, Row, Request
<1>3. QED
  BY <1>1, <1>2 DEF Request

\* A written row has a blob unless it is a tombstone.
LEMMA WrittenBlob ==
  ASSUME NEW q \in Request, NEW row \in Row, NEW n \in Nat
  PROVE  (Written(q, row, n).blob = NoBlob) <=> Written(q, row, n).deleted
<1>1. CASE q.op = "put"
  BY <1>1 DEF Written, PutRow, Request
<1>2. CASE q.op = "delete"
  BY <1>2 DEF Written, Tombstone, Row, Request
<1>3. QED
  BY <1>1, <1>2 DEF Request

(* Type correctness. *)

\* Every action keeps the types.
LEMMA TypeStep == TypeOK /\ [Next]_vars => TypeOK'
<1> SUFFICES ASSUME TypeOK, [Next]_vars PROVE TypeOK'
  OBVIOUS
<1> USE DEF TypeOK
<1>1. CASE UNCHANGED vars
  BY <1>1 DEF vars
<1>2. ASSUME NEW r \in Reqs, Receive(r) PROVE TypeOK'
  <2>a. PICK id \in Docs : \E ifm \in 0..doc[id].version : \E q \in RequestsFor(id, ifm) :
          req' = [req EXCEPT ![r] = Running(IF q.op = "put" THEN "blob" ELSE "stmt", q, 0)]
    BY <1>2 DEF Receive
  <2>b. PICK ifm \in 0..doc[id].version : \E q \in RequestsFor(id, ifm) :
          req' = [req EXCEPT ![r] = Running(IF q.op = "put" THEN "blob" ELSE "stmt", q, 0)]
    BY <2>a
  <2>1. PICK q \in RequestsFor(id, ifm) :
          req' = [req EXCEPT ![r] = Running(IF q.op = "put" THEN "blob" ELSE "stmt", q, 0)]
    BY <2>b
  <2>2. ifm \in Nat
    BY DEF Row
  <2>3. q \in Request
    BY <2>2, RequestsForType
  <2>4. Running(IF q.op = "put" THEN "blob" ELSE "stmt", q, 0) \in HandlerStates
    BY <2>3 DEF Running, HandlerStates
  <2>5. QED
    BY <1>2, <2>1, <2>4 DEF Receive
<1>3. ASSUME NEW r \in Reqs, CheckBlob(r) PROVE TypeOK'
  <2>1. req[r].q \in Request
    BY <1>3 DEF CheckBlob, HandlerStates, Idle
  <2>2. /\ Running("stmt", req[r].q, 0) \in HandlerStates
        /\ Done(req[r].q, "blob_not_found", NoRow) \in HandlerStates
    BY <2>1, NoRowType DEF Running, Done, HandlerStates, Codes
  <2>3. QED
    BY <1>3, <2>2 DEF CheckBlob
<1>4. ASSUME NEW r \in Reqs, DrawSeq(r) PROVE TypeOK'
  <2>1. /\ req[r] \in [pc : {"blob", "stmt", "miss"}, q : Request, seq : 0..MaxSeq]
        /\ seq + 1 \in 0..MaxSeq
    BY <1>4 DEF DrawSeq, HandlerStates, Idle
  <2>2. [req[r] EXCEPT !.seq = seq + 1] \in HandlerStates
    BY <2>1 DEF HandlerStates
  <2>3. QED
    BY <1>4, <2>1, <2>2 DEF DrawSeq
<1>5. ASSUME NEW r \in Reqs, Insert(r) PROVE TypeOK'
  <2>1. /\ req[r].q \in Request /\ req[r].seq \in Nat
        /\ doc[req[r].q.id] \in Row
    BY <1>5 DEF Insert, HandlerStates, Idle, Request
  <2>2. Holding(req[r].q, Written(req[r].q, doc[req[r].q.id], req[r].seq)) \in HandlerStates
    BY <2>1, WrittenType DEF Holding, HandlerStates
  <2>3. QED
    BY <1>5, <2>2 DEF Insert
<1>6. ASSUME NEW r \in Reqs, Update(r) PROVE TypeOK'
  <2>1. /\ req[r].q \in Request /\ req[r].seq \in Nat
        /\ doc[req[r].q.id] \in Row
    BY <1>6 DEF Update, HandlerStates, Idle, Request
  <2>2. Holding(req[r].q, Written(req[r].q, doc[req[r].q.id], req[r].seq)) \in HandlerStates
    BY <2>1, WrittenType DEF Holding, HandlerStates
  <2>3. QED
    BY <1>6, <2>2 DEF Update
<1>7. ASSUME NEW r \in Reqs, Miss(r) PROVE TypeOK'
  <2>1. req[r].q \in Request
    BY <1>7 DEF Miss, HandlerStates, Idle
  <2>2. Running("miss", req[r].q, 0) \in HandlerStates
    BY <2>1 DEF Running, HandlerStates
  <2>3. QED
    BY <1>7, <2>2 DEF Miss
<1>8. ASSUME NEW r \in Reqs, Commit(r) PROVE TypeOK'
  <2>1. /\ req[r].q \in Request /\ req[r].row \in Row
        /\ Accepted(req[r].q) \in Codes
    BY <1>8 DEF Commit, HandlerStates, Idle, Accepted, Codes
  <2>2. /\ Done(req[r].q, Accepted(req[r].q), req[r].row) \in HandlerStates
        /\ Done(req[r].q, "error", NoRow) \in HandlerStates
    BY <2>1, NoRowType DEF Done, HandlerStates, Codes
  <2>3. QED
    BY <1>8, <2>1, <2>2 DEF Commit
<1>9. ASSUME NEW r \in Reqs, Fetch(r) PROVE TypeOK'
  <2>1. req[r].q \in Request /\ doc[req[r].q.id] \in Row
    BY <1>9 DEF Fetch, HandlerStates, Idle, Request
  <2>2. /\ Done(req[r].q, "not_found", NoRow) \in HandlerStates
        /\ Done(req[r].q, "mismatch", doc[req[r].q.id]) \in HandlerStates
    BY <2>1, NoRowType DEF Done, HandlerStates, Codes
  <2>3. QED
    BY <1>9, <2>2 DEF Fetch, Refusal
<1>10. ASSUME NEW r \in Reqs, Abort(r) PROVE TypeOK'
  <2>1. req[r].q \in Request
    BY <1>10 DEF Abort, HandlerStates, Idle
  <2>2. Done(req[r].q, "error", NoRow) \in HandlerStates
    BY <2>1, NoRowType DEF Done, HandlerStates, Codes
  <2>3. QED
    BY <1>10, <2>2 DEF Abort
<1>11. ASSUME NEW r \in Reqs, Respond(r) PROVE TypeOK'
  BY <1>11 DEF Respond, HandlerStates
<1>12. QED
  BY <1>1, <1>2, <1>3, <1>4, <1>5, <1>6, <1>7, <1>8, <1>9, <1>10, <1>11 DEF Next

\* Every variable of the document routes keeps its type, whatever the requests.
THEOREM TypeCorrect == Spec => []TypeOK
<1>1. Init => TypeOK
  BY NoRowType DEF Init, TypeOK, HandlerStates
<1>2. QED
  BY <1>1, TypeStep, PTL DEF Spec
-------------------------------------------------------------------------------
(* The inductive invariant.  Every action but Commit changes one handler   *)
(* and leaves the table alone, so one lemma covers them: the new handler   *)
(* state h must be consistent with the table, and the number it holds must *)
(* be the one it held before or a new one.                                 *)

Consistent(h) ==
  /\ h.pc # "idle" => h.q.ifm <= doc[h.q.id].version
  /\ h.pc = "hold" => /\ doc[h.q.id].version = h.q.ifm
                      /\ h.row = Written(h.q, doc[h.q.id], h.row.seq)
                      /\ h.row.seq > doc[h.q.id].seq
                      /\ ~Locked(h.q.id)
                      /\ h.row.seq > 0
  /\ (h.pc = "done" /\ h.code = "mismatch") => h.row.version > h.q.ifm
  /\ h.pc = "miss" => \/ doc[h.q.id].version > h.q.ifm
                      \/ h.q.op = "delete" /\ ~Exists(doc[h.q.id])
  /\ h.pc = "blob" => h.q.op = "put"
  /\ (h.pc = "hold" /\ h.q.op = "delete") => Exists(doc[h.q.id])
  /\ (h.pc = "stmt" /\ h.seq # 0 /\ doc[h.q.id].version = h.q.ifm)
        => h.seq > doc[h.q.id].seq

\* What a handler has drawn from the sequence is a number.
LEMMA DrawnType ==
  ASSUME TypeOK, NEW r \in Reqs
  PROVE  Drawn(req[r]) \in Nat
BY DEF TypeOK, HandlerStates, Idle, Drawn, Row

\* A step of one handler that leaves the table alone.
LEMMA LocalStep ==
  ASSUME IInv, TypeOK', NEW r \in Reqs, NEW h,
         doc' = doc, seq' \in {seq, seq + 1},
         req' = [req EXCEPT ![r] = h],
         Consistent(h),
         \/ Drawn(h) = 0
         \/ Drawn(h) = Drawn(req[r])
         \/ Drawn(h) = seq + 1 /\ seq' = seq + 1
  PROVE  IInv'
<1>1. /\ req'[r] = h
      /\ \A p \in Reqs : p # r => req'[p] = req[p]
      /\ seq \in Nat /\ seq' >= seq
  BY DEF IInv, TypeOK
<1>2. \A p \in Reqs : Drawn(req[p]) \in Nat /\ Drawn(req'[p]) \in Nat
  BY <1>1, DrawnType DEF IInv, TypeOK, HandlerStates, Idle, Drawn, Row
<1>3. \A d \in Docs : doc[d].seq \in Nat
  BY DEF IInv, TypeOK, Row
<1>4. OneWriter'
  BY <1>1 DEF IInv, OneWriter, Consistent, Locked
<1>5. PendingIsNext'
  <2>1. SUFFICES ASSUME NEW p \in Reqs, req'[p].pc = "hold"
                 PROVE  /\ doc[req'[p].q.id].version = req'[p].q.ifm
                        /\ req'[p].row = Written(req'[p].q, doc[req'[p].q.id], req'[p].row.seq)
                        /\ req'[p].row.seq > doc[req'[p].q.id].seq
    BY DEF PendingIsNext
  <2>2. QED
    BY <1>1, <2>1 DEF IInv, PendingIsNext, Consistent
<1>6. SeqsDistinct'
  <2>1. \A p \in Reqs, d \in Docs : Drawn(req'[p]) # 0 => Drawn(req'[p]) # doc[d].seq
    BY <1>1, <1>2, <1>3 DEF IInv, SeqsDistinct, SeqsDrawn
  <2>2. \A p \in Reqs : (p # r /\ Drawn(h) # 0) => Drawn(h) # Drawn(req[p])
    BY <1>1, <1>2 DEF IInv, SeqsDistinct, SeqsDrawn
  <2>3. \A r1, r2 \in Reqs :
          (r1 # r2 /\ Drawn(req'[r1]) # 0) => Drawn(req'[r1]) # Drawn(req'[r2])
    BY <1>1, <1>2, <2>2 DEF IInv, SeqsDistinct
  <2>4. QED
    BY <2>1, <2>3 DEF IInv, SeqsDistinct
<1>7. BlobIffLive'
  BY DEF IInv, BlobIffLive
<1>8. MismatchIsNewer'
  BY <1>1 DEF IInv, MismatchIsNewer, Consistent
<1>9. CallersKnown'
  BY <1>1 DEF IInv, CallersKnown, Consistent
<1>10. SeqsDrawn'
  <2>1. \A p \in Reqs : Drawn(req'[p]) <= seq'
    BY <1>1, <1>2 DEF IInv, SeqsDrawn
  <2>2. \A p \in Reqs : req'[p].pc = "hold" => req'[p].row.seq > 0
    BY <1>1 DEF IInv, SeqsDrawn, Consistent
  <2>3. \A d \in Docs : doc[d].seq <= seq' /\ (Exists(doc[d]) <=> doc[d].seq > 0)
    BY <1>1, <1>3 DEF IInv, SeqsDrawn
  <2>4. QED
    BY <2>1, <2>2, <2>3 DEF SeqsDrawn
<1>11. MissIsBehind'
  BY <1>1 DEF IInv, MissIsBehind, Consistent
<1>12. BlobLookupIsPut'
  BY <1>1 DEF IInv, BlobLookupIsPut, Consistent
<1>13. DrawnIsNewer'
  BY <1>1 DEF IInv, DrawnIsNewer, Consistent
<1>14. TombstonesReplace'
  BY <1>1 DEF IInv, TombstonesReplace, Consistent
<1>15. QED
  BY <1>4, <1>5, <1>6, <1>7, <1>8, <1>9, <1>10, <1>11, <1>12, <1>13, <1>14 DEF IInv

(* The local actions, each by LocalStep with the handler state it leads to. *)

\* A request arrives.
LEMMA ReceiveStep ==
  ASSUME IInv, TypeOK', NEW r \in Reqs, Receive(r) PROVE IInv'
<1>1. PICK id \in Docs : \E ifm \in 0..doc[id].version : \E q \in RequestsFor(id, ifm) :
        req' = [req EXCEPT ![r] = Running(IF q.op = "put" THEN "blob" ELSE "stmt", q, 0)]
  BY DEF Receive
<1>2. PICK ifm \in 0..doc[id].version : \E q \in RequestsFor(id, ifm) :
        req' = [req EXCEPT ![r] = Running(IF q.op = "put" THEN "blob" ELSE "stmt", q, 0)]
  BY <1>1
<1>3. PICK q \in RequestsFor(id, ifm) :
        req' = [req EXCEPT ![r] = Running(IF q.op = "put" THEN "blob" ELSE "stmt", q, 0)]
  BY <1>2
<1> DEFINE h == Running(IF q.op = "put" THEN "blob" ELSE "stmt", q, 0)
<1>4. ifm \in Nat /\ ifm <= doc[id].version
  BY DEF IInv, TypeOK, Row
<1>5. q.id = id /\ q.ifm = ifm
  BY <1>4, RequestsForType
<1>6. Consistent(h) /\ Drawn(h) = 0
  BY <1>4, <1>5 DEF Consistent, Drawn, Running
<1>7. doc' = doc /\ seq' = seq
  BY DEF Receive
<1> HIDE DEF h
<1>8. req' = [req EXCEPT ![r] = h]
  BY <1>3 DEF h
<1>9. QED
  BY <1>6, <1>7, <1>8, LocalStep

\* put_doc looks for the blob.
LEMMA CheckBlobStep ==
  ASSUME IInv, TypeOK', NEW r \in Reqs, CheckBlob(r) PROVE IInv'
<1>1. PICK h \in {Running("stmt", req[r].q, 0), Done(req[r].q, "blob_not_found", NoRow)} :
        req' = [req EXCEPT ![r] = h]
  BY DEF CheckBlob
<1>2. req[r].q.ifm <= doc[req[r].q.id].version
  BY DEF IInv, CallersKnown, CheckBlob
<1>3. Consistent(h) /\ Drawn(h) = 0
  BY <1>2 DEF Consistent, Drawn, Running, Done
<1>4. QED
  BY <1>1, <1>3, LocalStep DEF CheckBlob

\* nextval, ahead of the statement.
LEMMA DrawSeqStep ==
  ASSUME IInv, TypeOK', NEW r \in Reqs, DrawSeq(r) PROVE IInv'
<1> DEFINE h == [req[r] EXCEPT !.seq = seq + 1]
<1>1. req[r] \in [pc : {"blob", "stmt", "miss"}, q : Request, seq : 0..MaxSeq] /\ req[r].pc = "stmt"
  BY DEF DrawSeq, IInv, TypeOK, HandlerStates, Idle
<1>2. h.pc = "stmt" /\ h.q = req[r].q /\ h.seq = seq + 1
  BY <1>1
<1>3. req[r].q.ifm <= doc[req[r].q.id].version
  BY <1>1 DEF IInv, CallersKnown
<1>4. seq + 1 > doc[req[r].q.id].seq
  BY <1>1 DEF IInv, TypeOK, SeqsDrawn, Request, Row
<1>5. Consistent(h) /\ Drawn(h) = seq + 1
  BY <1>2, <1>3, <1>4 DEF Consistent, Drawn
<1>6. doc' = doc /\ seq' = seq + 1 /\ req' = [req EXCEPT ![r] = h]
  BY DEF DrawSeq
<1> HIDE DEF h
<1>7. QED
  BY <1>5, <1>6, LocalStep

\* What a handler at its statement asks for, and the row it asks about.
LEMMA AtStatement ==
  ASSUME TypeOK, NEW r \in Reqs, req[r].pc = "stmt"
  PROVE  /\ req[r].q \in Request /\ req[r].q.id \in Docs /\ req[r].q.ifm \in Nat
         /\ req[r].seq \in Nat
         /\ doc[req[r].q.id] \in Row /\ doc[req[r].q.id].version \in Nat
<1>1. req[r] \in [pc : {"blob", "stmt", "miss"}, q : Request, seq : 0..MaxSeq]
  BY DEF TypeOK, HandlerStates, Idle
<1>2. req[r].q \in Request /\ req[r].seq \in Nat
  BY <1>1
<1>3. req[r].q.id \in Docs /\ req[r].q.ifm \in Nat
  BY <1>2 DEF Request
<1>4. doc[req[r].q.id] \in Row
  BY <1>3 DEF TypeOK
<1>5. QED
  BY <1>2, <1>3, <1>4 DEF Row

\* INSERT ... ON CONFLICT DO NOTHING.
LEMMA InsertStep ==
  ASSUME IInv, TypeOK', NEW r \in Reqs, Insert(r) PROVE IInv'
<1> DEFINE q == req[r].q
           n == req[r].seq
           h == Holding(q, Written(q, doc[q.id], n))
<1>1. /\ q \in Request /\ n \in Nat /\ n # 0 /\ doc[q.id] \in Row /\ q.id \in Docs
      /\ req[r].pc = "stmt" /\ q.op = "put" /\ q.ifm = 0 /\ ~Locked(q.id) /\ doc[q.id].version = 0
  BY AtStatement DEF Insert, IInv, IsInsert, Exists
<1>2. Written(q, doc[q.id], n).seq = n
  BY <1>1, WrittenType
<1>3. doc[q.id].seq = 0
  BY <1>1 DEF IInv, SeqsDrawn, Exists, Row
<1>4. /\ h.pc = "hold" /\ h.q = q /\ h.row = Written(q, doc[q.id], n)
  BY DEF Holding
<1>5. Consistent(h)
  BY <1>1, <1>2, <1>3, <1>4 DEF Consistent
<1>6. Drawn(h) = Drawn(req[r])
  BY <1>1, <1>2, <1>4 DEF Drawn
<1>7. doc' = doc /\ seq' = seq /\ req' = [req EXCEPT ![r] = h]
  BY DEF Insert
<1> HIDE DEF h
<1>8. QED
  BY <1>5, <1>6, <1>7, LocalStep

\* UPDATE ... WHERE version = If-Match.
LEMMA UpdateStep ==
  ASSUME IInv, TypeOK', NEW r \in Reqs, Update(r) PROVE IInv'
<1> DEFINE q == req[r].q
           n == req[r].seq
           h == Holding(q, Written(q, doc[q.id], n))
<1>1. /\ q \in Request /\ n \in Nat /\ n # 0 /\ doc[q.id] \in Row /\ q.id \in Docs
      /\ req[r].pc = "stmt" /\ q.ifm \in Nat /\ ~Locked(q.id) /\ doc[q.id].version = q.ifm
      /\ Exists(doc[q.id])
  BY AtStatement DEF Update, IInv, Matches
<1>2. Written(q, doc[q.id], n).seq = n
  BY <1>1, WrittenType
<1>3. n > doc[q.id].seq
  BY <1>1 DEF IInv, DrawnIsNewer
<1>4. /\ h.pc = "hold" /\ h.q = q /\ h.row = Written(q, doc[q.id], n)
  BY DEF Holding
<1>5. /\ h.row.seq = n /\ h.row.seq > doc[q.id].seq /\ h.row.seq > 0
      /\ h.row = Written(q, doc[q.id], h.row.seq)
  BY <1>1, <1>2, <1>3, <1>4
<1>6. Consistent(h) /\ Drawn(h) = Drawn(req[r])
  <2> HIDE DEF h, q, n
  <2>1. q.ifm <= doc[q.id].version
    BY <1>1
  <2>2. Drawn(req[r]) = n
    BY <1>1 DEF Drawn, n
  <2>3. QED
    BY <1>1, <1>4, <1>5, <2>1, <2>2 DEF Consistent, Drawn
<1>7. doc' = doc /\ seq' = seq /\ req' = [req EXCEPT ![r] = h]
  BY DEF Update
<1> HIDE DEF h
<1>8. QED
  BY <1>6, <1>7, LocalStep

\* The statement touches no row.
LEMMA MissStep ==
  ASSUME IInv, TypeOK', NEW r \in Reqs, Miss(r) PROVE IInv'
<1> DEFINE q == req[r].q
           h == Running("miss", q, 0)
<1>1. /\ q \in Request /\ doc[q.id] \in Row /\ q.id \in Docs /\ q.ifm \in Nat
      /\ req[r].pc = "stmt"
  BY DEF Miss, IInv, TypeOK, HandlerStates, Idle, Request
<1>2. q.ifm <= doc[q.id].version
  BY <1>1 DEF IInv, CallersKnown
<1>3. doc[q.id].version > q.ifm \/ (q.op = "delete" /\ ~Exists(doc[q.id]))
  <2>1. CASE IsInsert(q)
    BY <1>1, <2>1 DEF Miss, IsInsert, Exists, Row
  <2>2. CASE ~IsInsert(q) /\ Exists(doc[q.id])
    BY <1>1, <1>2, <2>2 DEF Miss, Matches, Row
  <2>3. CASE ~IsInsert(q) /\ ~Exists(doc[q.id])
    <3>1. q.ifm = 0
      BY <1>1, <1>2, <2>3 DEF Exists, Row
    <3>2. QED
      BY <1>1, <2>3, <3>1 DEF IsInsert, Request
  <2>4. QED
    BY <2>1, <2>2, <2>3
<1>4. Consistent(h) /\ Drawn(h) = 0
  BY <1>2, <1>3 DEF Consistent, Drawn, Running
<1>5. doc' = doc /\ seq' = seq /\ req' = [req EXCEPT ![r] = h]
  BY DEF Miss
<1> HIDE DEF h
<1>6. QED
  BY <1>4, <1>5, LocalStep

\* The refused request reads the row to show.
LEMMA FetchStep ==
  ASSUME IInv, TypeOK', NEW r \in Reqs, Fetch(r) PROVE IInv'
<1> DEFINE q == req[r].q
           h == Refusal(q, doc[q.id])
<1>1. /\ q.ifm <= doc[q.id].version
      /\ doc[q.id].version > q.ifm \/ (q.op = "delete" /\ ~Exists(doc[q.id]))
  BY DEF Fetch, IInv, CallersKnown, MissIsBehind
<1>2. Consistent(h) /\ Drawn(h) = 0
  BY <1>1 DEF Consistent, Drawn, Done, Refusal
<1>3. doc' = doc /\ seq' = seq /\ req' = [req EXCEPT ![r] = h]
  BY DEF Fetch
<1> HIDE DEF h
<1>4. QED
  BY <1>2, <1>3, LocalStep

\* A database error.
LEMMA AbortStep ==
  ASSUME IInv, TypeOK', NEW r \in Reqs, Abort(r) PROVE IInv'
<1> DEFINE h == Done(req[r].q, "error", NoRow)
<1>1. req[r].q.ifm <= doc[req[r].q.id].version
  BY DEF Abort, IInv, CallersKnown
<1>2. Consistent(h) /\ Drawn(h) = 0
  BY <1>1 DEF Consistent, Drawn, Done
<1>3. doc' = doc /\ seq' = seq /\ req' = [req EXCEPT ![r] = h]
  BY DEF Abort
<1> HIDE DEF h
<1>4. QED
  BY <1>2, <1>3, LocalStep

\* The answer leaves.
LEMMA RespondStep ==
  ASSUME IInv, TypeOK', NEW r \in Reqs, Respond(r) PROVE IInv'
<1>1. Consistent(Idle) /\ Drawn(Idle) = 0
  BY DEF Consistent, Drawn, Idle
<1>2. QED
  BY <1>1, LocalStep DEF Respond

(* A commit publishes the row its handler holds.  The other handlers of the *)
(* document hold no row (OneWriter), so nothing they computed goes stale.   *)

\* The held row is published.
LEMMA CommitStep ==
  ASSUME IInv, TypeOK', NEW r \in Reqs, Commit(r) PROVE IInv'
<1> DEFINE q == req[r].q
           row == req[r].row
           old == doc[q.id]
<1>1. /\ q \in Request /\ q.id \in Docs /\ q.ifm \in Nat /\ row \in Row /\ old \in Row
      /\ req[r].pc = "hold" /\ row.seq \in Nat /\ old.seq \in Nat /\ old.version \in Nat
  BY DEF Commit, IInv, TypeOK, HandlerStates, Idle, Request, Row
<1>2. PICK h \in {Done(q, Accepted(q), row), Done(q, "error", NoRow)} :
        req' = [req EXCEPT ![r] = h]
  BY DEF Commit
<1>3. /\ h.pc = "done" /\ h.q = q /\ h.code # "mismatch" /\ Drawn(h) = 0
  BY DEF Done, Accepted, Drawn
<1>4. /\ old.version = q.ifm /\ row = Written(q, old, row.seq)
      /\ row.seq > old.seq /\ row.seq > 0 /\ row.seq <= seq /\ Drawn(req[r]) = row.seq
  BY <1>1 DEF IInv, PendingIsNext, SeqsDrawn, Drawn
<1>5. row.version = q.ifm + 1 /\ ((row.blob = NoBlob) <=> row.deleted)
  <2> HIDE DEF q, row, old
  <2> DEFINE w == Written(q, old, row.seq)
  <2>1. w.version = q.ifm + 1 /\ ((w.blob = NoBlob) <=> w.deleted)
    BY <1>1, WrittenType, WrittenBlob
  <2>2. row = w
    BY <1>4
  <2> HIDE DEF w
  <2>3. QED
    BY <2>1, <2>2
<1>6. /\ req'[r] = h /\ \A p \in Reqs : p # r => req'[p] = req[p]
      /\ doc'[q.id] = row /\ \A d \in Docs : d # q.id => doc'[d] = doc[d]
      /\ seq' = seq /\ seq \in Nat
  BY <1>1, <1>2 DEF Commit, IInv, TypeOK
<1> HIDE DEF q, row, old
<1>7. \A d \in Docs : doc[d].seq \in Nat /\ doc[d].version \in Nat
  BY DEF IInv, TypeOK, Row
<1>8. \A p \in Reqs : Drawn(req[p]) \in Nat
  BY DrawnType DEF IInv
<1>9. \A p \in Reqs : (p # r /\ req[p].pc = "hold") => req[p].q.id # q.id
  BY <1>1 DEF IInv, OneWriter, q
<1>10. \A d \in Docs : doc'[d].version >= doc[d].version
  BY <1>1, <1>4, <1>5, <1>6, <1>7 DEF old
<1>11. \A p \in Reqs : req[p].pc # "idle" => req[p].q.id \in Docs /\ req[p].q.ifm \in Nat
  BY DEF IInv, TypeOK, HandlerStates, Idle, Request
<1>12. OneWriter'
  BY <1>3, <1>6 DEF IInv, OneWriter
<1>13. PendingIsNext'
  <2>1. SUFFICES ASSUME NEW p \in Reqs, req'[p].pc = "hold"
                 PROVE  /\ doc'[req'[p].q.id].version = req'[p].q.ifm
                        /\ req'[p].row = Written(req'[p].q, doc'[req'[p].q.id], req'[p].row.seq)
                        /\ req'[p].row.seq > doc'[req'[p].q.id].seq
    BY DEF PendingIsNext
  <2>2. p # r /\ req'[p] = req[p]
    BY <1>3, <1>6, <2>1
  <2>3. doc'[req[p].q.id] = doc[req[p].q.id]
    BY <1>6, <1>9, <1>11, <2>1, <2>2
  <2>4. QED
    BY <2>1, <2>2, <2>3 DEF IInv, PendingIsNext
<1>14. SeqsDistinct'
  <2>1. \A d \in Docs : d # q.id => doc[d].seq # row.seq
    BY <1>1, <1>4 DEF IInv, SeqsDistinct
  <2>2. \A d, e \in Docs : (d # e /\ Exists(doc'[d])) => doc'[d].seq # doc'[e].seq
    BY <1>6, <2>1 DEF IInv, SeqsDistinct
  <2>3. \A p \in Reqs : p # r => Drawn(req[p]) # row.seq
    BY <1>1, <1>4, <1>8 DEF IInv, SeqsDistinct
  <2>4. \A p \in Reqs, d \in Docs : Drawn(req'[p]) # 0 => Drawn(req'[p]) # doc'[d].seq
    BY <1>3, <1>6, <2>3 DEF IInv, SeqsDistinct
  <2>5. \A r1, r2 \in Reqs :
          (r1 # r2 /\ Drawn(req'[r1]) # 0) => Drawn(req'[r1]) # Drawn(req'[r2])
    BY <1>3, <1>6 DEF IInv, SeqsDistinct
  <2>6. QED
    BY <2>2, <2>4, <2>5 DEF SeqsDistinct
<1>15. BlobIffLive'
  BY <1>5, <1>6 DEF IInv, BlobIffLive
<1>16. MismatchIsNewer'
  BY <1>3, <1>6 DEF IInv, MismatchIsNewer
<1>17. CallersKnown'
  <2>1. SUFFICES ASSUME NEW p \in Reqs, req'[p].pc # "idle"
                 PROVE  req'[p].q.ifm <= doc'[req'[p].q.id].version
    BY DEF CallersKnown
  <2>2. req[p].pc # "idle" /\ req'[p].q = req[p].q
    BY <1>1, <1>3, <1>6, <2>1 DEF q
  <2>3. req[p].q.ifm <= doc[req[p].q.id].version
    BY <2>2 DEF IInv, CallersKnown
  <2>4. doc'[req[p].q.id].version \in Nat
    BY <1>11, <2>2 DEF TypeOK, Row
  <2>5. QED
    BY <1>7, <1>10, <1>11, <2>2, <2>3, <2>4
<1>18. SeqsDrawn'
  <2>1. \A p \in Reqs : Drawn(req'[p]) <= seq'
    BY <1>3, <1>6 DEF IInv, SeqsDrawn
  <2>2. \A p \in Reqs : req'[p].pc = "hold" => req'[p].row.seq > 0
    BY <1>3, <1>6 DEF IInv, SeqsDrawn
  <2>3. \A d \in Docs : doc'[d].seq <= seq' /\ (Exists(doc'[d]) <=> doc'[d].seq > 0)
    BY <1>1, <1>4, <1>5, <1>6 DEF IInv, SeqsDrawn, Exists
  <2>4. QED
    BY <2>1, <2>2, <2>3 DEF SeqsDrawn
<1>19. MissIsBehind'
  <2>1. SUFFICES ASSUME NEW p \in Reqs, req'[p].pc = "miss"
                 PROVE  \/ doc'[req'[p].q.id].version > req'[p].q.ifm
                        \/ req'[p].q.op = "delete" /\ ~Exists(doc'[req'[p].q.id])
    BY DEF MissIsBehind
  <2>2. p # r /\ req'[p] = req[p] /\ req[p].q.id \in Docs /\ req[p].q.ifm \in Nat
    BY <1>3, <1>6, <1>11, <2>1
  <2>3. \/ doc[req[p].q.id].version > req[p].q.ifm
        \/ req[p].q.op = "delete" /\ ~Exists(doc[req[p].q.id])
    BY <2>1, <2>2 DEF IInv, MissIsBehind
  <2>4. req[p].q.ifm <= doc[req[p].q.id].version
    BY <2>1, <2>2 DEF IInv, CallersKnown
  <2>5. CASE req[p].q.id = q.id
    <3>1. doc'[q.id].version = old.version + 1
      BY <1>4, <1>5, <1>6
    <3>2. QED
      BY <1>1, <2>2, <2>4, <2>5, <3>1 DEF old
  <2>6. CASE req[p].q.id # q.id
    BY <1>6, <2>2, <2>3, <2>6
  <2>7. QED
    BY <2>5, <2>6
<1>20. BlobLookupIsPut'
  BY <1>3, <1>6 DEF IInv, BlobLookupIsPut
<1>21. DrawnIsNewer'
  <2>1. SUFFICES ASSUME NEW p \in Reqs, req'[p].pc = "stmt", req'[p].seq # 0,
                        doc'[req'[p].q.id].version = req'[p].q.ifm
                 PROVE  req'[p].seq > doc'[req'[p].q.id].seq
    BY DEF DrawnIsNewer
  <2>2. p # r /\ req'[p] = req[p] /\ req[p].q.id \in Docs /\ req[p].q.ifm \in Nat
    BY <1>3, <1>6, <1>11, <2>1
  <2>3. req[p].q.ifm <= doc[req[p].q.id].version
    BY <2>1, <2>2 DEF IInv, CallersKnown
  <2>4. CASE req[p].q.id = q.id
    <3>1. doc'[q.id].version = old.version + 1
      BY <1>4, <1>5, <1>6
    <3>2. QED
      BY <1>1, <2>1, <2>2, <2>3, <2>4, <3>1 DEF old
  <2>5. CASE req[p].q.id # q.id
    BY <1>6, <2>1, <2>2, <2>5 DEF IInv, DrawnIsNewer
  <2>6. QED
    BY <2>4, <2>5
<1>22. TombstonesReplace'
  <2>1. SUFFICES ASSUME NEW p \in Reqs, req'[p].pc = "hold", req'[p].q.op = "delete"
                 PROVE  doc'[req'[p].q.id].version > 0
    BY DEF TombstonesReplace, Exists
  <2>2. req'[p] = req[p] /\ req[p].q.id \in Docs
    BY <1>3, <1>6, <1>11, <2>1
  <2>3. doc[req[p].q.id].version > 0
    BY <2>1, <2>2 DEF IInv, TombstonesReplace, Exists
  <2>4. doc'[req[p].q.id].version \in Nat
    BY <2>2 DEF TypeOK, Row
  <2>5. QED
    BY <1>7, <1>10, <2>2, <2>3, <2>4
<1>23. QED
  BY <1>12, <1>13, <1>14, <1>15, <1>16, <1>17, <1>18, <1>19, <1>20, <1>21, <1>22 DEF IInv

\* An empty table satisfies the inductive invariant.
LEMMA InvariantInit == Init => IInv
<1> SUFFICES ASSUME Init PROVE IInv
  OBVIOUS
<1>1. TypeOK
  BY NoRowType DEF Init, TypeOK, HandlerStates
<1>2. /\ \A d \in Docs : doc[d].version = 0 /\ doc[d].seq = 0
      /\ \A r \in Reqs : req[r].pc = "idle" /\ Drawn(req[r]) = 0
      /\ seq = 0
  BY DEF Init, NoRow, Idle, Drawn
<1>3. QED
  BY <1>1, <1>2 DEF IInv, OneWriter, PendingIsNext, SeqsDistinct, BlobIffLive,
     MismatchIsNewer, CallersKnown, SeqsDrawn, MissIsBehind, DrawnIsNewer,
     BlobLookupIsPut, TombstonesReplace, Exists

\* Every action keeps it.
LEMMA InvariantStep == IInv /\ [Next]_vars => IInv'
<1> SUFFICES ASSUME IInv, [Next]_vars PROVE IInv'
  OBVIOUS
<1>1. TypeOK'
  BY TypeStep DEF IInv
<1>2. CASE UNCHANGED vars
  BY <1>2 DEF vars, IInv, TypeOK, OneWriter, PendingIsNext, SeqsDistinct, BlobIffLive,
     MismatchIsNewer, CallersKnown, SeqsDrawn, MissIsBehind, DrawnIsNewer,
     BlobLookupIsPut, TombstonesReplace
<1>3. CASE Next
  BY <1>1, <1>3, ReceiveStep, CheckBlobStep, DrawSeqStep, InsertStep, UpdateStep,
     MissStep, CommitStep, FetchStep, AbortStep, RespondStep DEF Next
<1>4. QED
  BY <1>2, <1>3

\* The strengthening of the safety properties below holds in every state.
THEOREM Invariant == Spec => []IInv
BY InvariantInit, InvariantStep, PTL DEF Spec

\* No write is lost between the check of If-Match and the commit: one writer
\* holds a document at a time, and what it holds is still the next version.
THEOREM NoLostUpdate == Spec => [](OneWriter /\ PendingIsNext)
<1>1. IInv => OneWriter /\ PendingIsNext
  BY DEF IInv
<1>2. QED
  BY <1>1, Invariant, PTL

\* No two rows ever carry the same number: UNIQUE (server_seq) never fails.
THEOREM SeqsNeverCollide == Spec => []SeqsDistinct
<1>1. IInv => SeqsDistinct
  BY DEF IInv
<1>2. QED
  BY <1>1, Invariant, PTL

\* A row that points at no blob is a tombstone and the other way round: nothing
\* a handler commits leaves a live document without content.
THEOREM TombstonesHaveNoBlob == Spec => []BlobIffLive
<1>1. IInv => BlobIffLive
  BY DEF IInv
<1>2. QED
  BY <1>1, Invariant, PTL

\* A 412 always shows its caller a row newer than the If-Match it sent.
THEOREM MismatchShowsNewer == Spec => []MismatchIsNewer
<1>1. IInv => MismatchIsNewer
  BY DEF IInv
<1>2. QED
  BY <1>1, Invariant, PTL

\* A committed row only moves to its next version, under a greater number.
THEOREM StepByOne == Spec => VersionsStepByOne
<1>1. IInv /\ [Next]_vars =>
        [\A d \in Docs : doc'[d] # doc[d] =>
           doc'[d].version = doc[d].version + 1 /\ doc'[d].seq > doc[d].seq]_doc
  <2> SUFFICES ASSUME IInv, Next, doc' # doc, NEW d \in Docs, doc'[d] # doc[d]
               PROVE  doc'[d].version = doc[d].version + 1 /\ doc'[d].seq > doc[d].seq
    BY DEF vars
  <2>1. PICK r \in Reqs : Commit(r)
    BY DEF Next, Receive, CheckBlob, DrawSeq, Insert, Update, Miss, Fetch, Abort, Respond
  <2>2. /\ req[r].pc = "hold" /\ req[r].q \in Request /\ doc[d] \in Row
        /\ req[r].q.id = d /\ doc'[d] = req[r].row /\ req[r].row.seq \in Nat
    BY <2>1 DEF Commit, IInv, TypeOK, HandlerStates, Idle, Request, Row
  <2>3. /\ doc[d].version = req[r].q.ifm
        /\ req[r].row = Written(req[r].q, doc[d], req[r].row.seq)
        /\ req[r].row.seq > doc[d].seq
    BY <2>2 DEF IInv, PendingIsNext
  <2>4. Written(req[r].q, doc[d], req[r].row.seq).version = req[r].q.ifm + 1
    BY <2>2, WrittenType
  <2>5. QED
    BY <2>2, <2>3, <2>4
<1>2. QED
  BY <1>1, Invariant, PTL DEF Spec, VersionsStepByOne
-------------------------------------------------------------------------------
(* The refinement: Commit is the instant a call takes effect, the answers a *)
(* handler builds are the other steps of the register, and drawing numbers  *)
(* or writing an uncommitted row changes nothing a caller can see.          *)

Calls == [r \in Reqs |-> CallOf(req[r])]

\* What one handler's step does to the calls of the register.
LEMMA CallsStep ==
  ASSUME TypeOK, NEW r \in Reqs, NEW h, req' = [req EXCEPT ![r] = h]
  PROVE  Calls' = [Calls EXCEPT ![r] = CallOf(h)]
BY DEF Calls, TypeOK

\* A handler without an answer is an open call.
LEMMA OpenCall ==
  ASSUME NEW r \in Reqs, req[r].pc \in {"blob", "stmt", "hold", "miss"}
  PROVE  /\ Calls[r] = Register!Open(req[r].q)
         /\ Calls[r].pc = "open" /\ Calls[r].q = req[r].q
<1>1. Calls[r] = Register!Open(req[r].q)
  BY DEF Calls, CallOf, Register!Open
<1>2. Register!Open(req[r].q).pc = "open" /\ Register!Open(req[r].q).q = req[r].q
  BY DEF Register!Open
<1>3. QED
  BY <1>1, <1>2

\* An answer built by a handler answers its call.
LEMMA AnswerStep ==
  ASSUME TypeOK, NEW r \in Reqs, NEW q, NEW code, NEW row,
         req' = [req EXCEPT ![r] = Done(q, code, row)]
  PROVE  Calls' = [Calls EXCEPT ![r] = Register!Answered(q, code, row)]
<1>1. CallOf(Done(q, code, row)) = Register!Answered(q, code, row)
  BY DEF CallOf, Done, Register!Answered
<1>2. QED
  BY <1>1, CallsStep

\* A step that builds no answer changes no call.
LEMMA SilentStep ==
  ASSUME TypeOK, NEW r \in Reqs, NEW h, req' = [req EXCEPT ![r] = h], doc' = doc,
         req[r].pc \in {"blob", "stmt"}, h.pc \in {"stmt", "hold", "miss"},
         h.q = req[r].q
  PROVE  UNCHANGED Register!vars
<1>1. CallOf(h) = Register!Open(req[r].q)
  BY DEF CallOf, Register!Open
<1>2. Calls' = [Calls EXCEPT ![r] = CallOf(h)]
  BY CallsStep
<1>3. Calls[r] = CallOf(h)
  BY <1>1, OpenCall
<1>4. Calls' = Calls
  BY <1>2, <1>3 DEF Calls
<1>5. QED
  BY <1>4 DEF Register!vars, Calls

(* The register is an instance of its own of DocRecords: the same operators *)
(* under other names.                                                       *)

\* Both instances compute the same records.
LEMMA SameRecords ==
  /\ Register!NoRow = NoRow
  /\ \A row : Register!Exists(row) = Exists(row)
  /\ \A q : Register!Accepted(q) = Accepted(q)
  /\ \A q, row, n : Register!Written(q, row, n) = Written(q, row, n)
  /\ \A id, ifm : Register!RequestsFor(id, ifm) = RequestsFor(id, ifm)
BY DEF Register!NoRow, NoRow, Register!Exists, Exists, Register!Accepted, Accepted,
   Register!Written, Written, Register!PutRow, PutRow, Register!Tombstone, Tombstone,
   Register!RequestsFor, RequestsFor

\* A commit is the instant the call takes effect.
LEMMA CommitApplies ==
  ASSUME IInv, TypeOK', NEW r \in Reqs, Commit(r) PROVE Register!Apply(r)
<1> DEFINE q == req[r].q
           row == req[r].row
           n == row.seq
<1>1. /\ req[r].pc = "hold" /\ q \in Request /\ q.id \in Docs /\ row \in Row /\ n \in Nat
  BY DEF Commit, IInv, TypeOK, HandlerStates, Idle, Request, Row
<1>2. /\ doc[q.id].version = q.ifm /\ row = Written(q, doc[q.id], n) /\ n > doc[q.id].seq
      /\ n > 0 /\ n <= seq /\ seq \in 0..MaxSeq /\ Drawn(req[r]) = n
  BY <1>1 DEF IInv, PendingIsNext, SeqsDrawn, Drawn, TypeOK
<1>3. n \in 1..MaxSeq /\ Register!FreshSeq(n, q.id)
  BY <1>1, <1>2 DEF IInv, SeqsDistinct, Register!FreshSeq
<1>9. q.op = "delete" => Exists(doc[q.id])
  BY <1>1 DEF IInv, TombstonesReplace
<1>4. Calls[r].pc = "open" /\ Calls[r].q = q
  BY <1>1, OpenCall
<1>5. doc' = [doc EXCEPT ![q.id] = row]
  BY DEF Commit
<1>6. \/ Calls' = [Calls EXCEPT ![r] = Register!Answered(q, Accepted(q), row)]
      \/ Calls' = [Calls EXCEPT ![r] = Register!Answered(q, "error", NoRow)]
  <2>1. TypeOK
    BY DEF IInv
  <2>2. \/ req' = [req EXCEPT ![r] = Done(q, Accepted(q), row)]
        \/ req' = [req EXCEPT ![r] = Done(q, "error", NoRow)]
    BY DEF Commit
  <2> HIDE DEF q, row, n
  <2>3. CASE req' = [req EXCEPT ![r] = Done(q, Accepted(q), row)]
    <3> DEFINE code == Accepted(q)
    <3> HIDE DEF code
    <3>1. req' = [req EXCEPT ![r] = Done(q, code, row)]
      BY <2>3 DEF code
    <3>2. Calls' = [Calls EXCEPT ![r] = Register!Answered(q, code, row)]
      BY ZenonT(30), <2>1, <3>1, AnswerStep
    <3>3. QED
      BY <3>2 DEF code
  <2>4. CASE req' = [req EXCEPT ![r] = Done(q, "error", NoRow)]
    <3>1. Calls' = [Calls EXCEPT ![r] = Register!Answered(q, "error", NoRow)]
      BY ZenonT(30), <2>1, <2>4, AnswerStep
    <3>2. QED
      BY <3>1
  <2>5. QED
    BY <2>2, <2>3, <2>4
<1> HIDE DEF q, row, n
<1>7. QED
  BY <1>2, <1>3, <1>4, <1>5, <1>6, <1>9, SameRecords DEF Register!Apply, Calls

\* A request that arrives is a call.
LEMMA ReceiveInvokes ==
  ASSUME IInv, NEW r \in Reqs, Receive(r) PROVE Register!Invoke(r)
<1>1. PICK id \in Docs : \E ifm \in 0..doc[id].version : \E q \in RequestsFor(id, ifm) :
        req' = [req EXCEPT ![r] = Running(IF q.op = "put" THEN "blob" ELSE "stmt", q, 0)]
  BY DEF Receive
<1>2. PICK ifm \in 0..doc[id].version : \E q \in RequestsFor(id, ifm) :
        req' = [req EXCEPT ![r] = Running(IF q.op = "put" THEN "blob" ELSE "stmt", q, 0)]
  BY <1>1
<1>3. PICK q \in RequestsFor(id, ifm) :
        req' = [req EXCEPT ![r] = Running(IF q.op = "put" THEN "blob" ELSE "stmt", q, 0)]
  BY <1>2
<1>4. CallOf(Running(IF q.op = "put" THEN "blob" ELSE "stmt", q, 0)) = Register!Open(q)
  BY DEF CallOf, Running, Register!Open
<1>5. Calls' = [Calls EXCEPT ![r] = Register!Open(q)]
  BY <1>3, <1>4, CallsStep DEF IInv
<1>6. Calls[r] = Register!Quiet /\ doc' = doc
  BY DEF Receive, Calls, CallOf, Idle, Register!Quiet
<1>7. QED
  BY <1>5, <1>6, SameRecords DEF Register!Invoke, Calls

\* A refusal shows the current row, or that there is none.
LEMMA FetchAnswers ==
  ASSUME IInv, NEW r \in Reqs, Fetch(r) PROVE Register!Refuse(r) \/ Register!NotFound(r)
<1> DEFINE q == req[r].q
<1>1. Calls[r].pc = "open" /\ Calls[r].q = q /\ doc' = doc
  BY OpenCall DEF Fetch
<1>2. CASE q.op = "delete" /\ ~Exists(doc[q.id])
  <2>1. req' = [req EXCEPT ![r] = Done(q, "not_found", NoRow)]
    BY <1>2 DEF Fetch, Refusal
  <2>2. Calls' = [Calls EXCEPT ![r] = Register!Answered(q, "not_found", NoRow)]
    BY ZenonT(60), <2>1, AnswerStep DEF IInv
  <2>3. QED
    BY <1>1, <1>2, <2>2, SameRecords DEF Register!NotFound, Calls
<1>3. CASE ~(q.op = "delete" /\ ~Exists(doc[q.id]))
  <2>1. req' = [req EXCEPT ![r] = Done(q, "mismatch", doc[q.id])]
    BY <1>3 DEF Fetch, Refusal
  <2>2. Calls' = [Calls EXCEPT ![r] = Register!Answered(q, "mismatch", doc[q.id])]
    <3> DEFINE row == doc[q.id]
    <3> HIDE DEF q, row
    <3>1. req' = [req EXCEPT ![r] = Done(q, "mismatch", row)]
      BY <2>1 DEF row
    <3>2. Calls' = [Calls EXCEPT ![r] = Register!Answered(q, "mismatch", row)]
      BY ZenonT(30), <3>1, AnswerStep DEF IInv
    <3>3. QED
      BY <3>2 DEF row
  <2>3. doc[q.id].version > q.ifm
    BY <1>3 DEF IInv, MissIsBehind, Fetch
  <2>4. QED
    BY <1>1, <2>2, <2>3 DEF Register!Refuse, Calls
<1>4. QED
  BY <1>2, <1>3

\* A missing blob is answered; a present one shows nothing.
LEMMA CheckBlobAnswers ==
  ASSUME IInv, NEW r \in Reqs, CheckBlob(r)
  PROVE  Register!NotFound(r) \/ UNCHANGED Register!vars
<1> DEFINE q == req[r].q
<1>1. req[r].pc = "blob" /\ doc' = doc /\ Calls[r].pc = "open" /\ Calls[r].q = q
  BY OpenCall DEF CheckBlob
<1>2. CASE req' = [req EXCEPT ![r] = Running("stmt", q, 0)]
  <2>1. Running("stmt", q, 0).pc = "stmt" /\ Running("stmt", q, 0).q = q
    BY DEF Running
  <2>2. QED
    BY <1>1, <1>2, <2>1, SilentStep DEF IInv
<1>3. CASE req' = [req EXCEPT ![r] = Done(q, "blob_not_found", NoRow)]
  <2>1. Calls' = [Calls EXCEPT ![r] = Register!Answered(q, "blob_not_found", NoRow)]
    BY ZenonT(60), <1>3, AnswerStep DEF IInv
  <2>2. q.op = "put"
    BY <1>1 DEF IInv, BlobLookupIsPut
  <2>3. QED
    BY <1>1, <2>1, <2>2, SameRecords DEF Register!NotFound, Calls
<1>4. QED
  BY <1>2, <1>3 DEF CheckBlob

\* An error fails the call.
LEMMA AbortFails ==
  ASSUME IInv, NEW r \in Reqs, Abort(r) PROVE Register!Fail(r)
<1>1. Calls[r].pc = "open" /\ Calls[r].q = req[r].q /\ doc' = doc
  BY OpenCall DEF Abort
<1>2. req' = [req EXCEPT ![r] = Done(req[r].q, "error", NoRow)]
  BY DEF Abort
<1>3. Calls' = [Calls EXCEPT ![r] = Register!Answered(req[r].q, "error", NoRow)]
  BY ZenonT(60), <1>2, AnswerStep DEF IInv
<1>4. QED
  BY <1>1, <1>3, SameRecords DEF Register!Fail, Calls

\* An answer that leaves ends the call.
LEMMA RespondReturns ==
  ASSUME IInv, NEW r \in Reqs, Respond(r) PROVE Register!Return(r)
<1>1. Calls[r].pc = "answered" /\ doc' = doc
  BY DEF Respond, Calls, CallOf
<1>2. CallOf(Idle) = Register!Quiet
  BY DEF CallOf, Idle, Register!Quiet
<1>3. Calls' = [Calls EXCEPT ![r] = Register!Quiet]
  BY <1>2, CallsStep DEF IInv, Respond
<1>4. QED
  BY <1>1, <1>3 DEF Register!Return, Calls

\* The statement up to its commit is invisible.
LEMMA SilentSteps ==
  ASSUME IInv, NEW r \in Reqs, DrawSeq(r) \/ Insert(r) \/ Update(r) \/ Miss(r)
  PROVE  UNCHANGED Register!vars
<1> DEFINE q == req[r].q
<1>1. req[r].pc = "stmt" /\ doc' = doc
  BY DEF DrawSeq, Insert, Update, Miss
<1>2. CASE DrawSeq(r)
  <2> DEFINE h == [req[r] EXCEPT !.seq = seq + 1]
  <2>1. req[r] \in [pc : {"blob", "stmt", "miss"}, q : Request, seq : 0..MaxSeq]
    BY <1>1 DEF IInv, TypeOK, HandlerStates, Idle
  <2>2. h.pc = "stmt" /\ h.q = q
    BY <1>1, <2>1
  <2>3. req' = [req EXCEPT ![r] = h]
    BY <1>2 DEF DrawSeq
  <2> HIDE DEF h
  <2>4. QED
    BY <1>1, <2>2, <2>3, SilentStep DEF IInv
<1>3. ASSUME NEW row, req' = [req EXCEPT ![r] = Holding(q, row)]
      PROVE  UNCHANGED Register!vars
  <2>1. Holding(q, row).pc = "hold" /\ Holding(q, row).q = q
    BY DEF Holding
  <2>2. QED
    BY <1>1, <1>3, <2>1, SilentStep DEF IInv
<1>4. CASE Insert(r)
  BY <1>3, <1>4 DEF Insert
<1>5. CASE Update(r)
  BY <1>3, <1>5 DEF Update
<1>6. CASE Miss(r)
  <2>1. Running("miss", q, 0).pc = "miss" /\ Running("miss", q, 0).q = q
    BY DEF Running
  <2>2. QED
    BY <1>1, <1>6, <2>1, SilentStep DEF IInv, Miss
<1>7. QED
  BY <1>2, <1>4, <1>5, <1>6

\* The document routes implement a compare-and-set register per document, for
\* any number of concurrent requests.
THEOREM Refinement == Spec => ImplementsRegister
<1>1. Init => Register!Init
  BY SameRecords DEF Init, Register!Init, CallOf, Idle, Register!Quiet
<1>2. IInv /\ IInv' /\ [Next]_vars => [Register!Next]_(Register!vars)
  <2> SUFFICES ASSUME IInv, IInv', [Next]_vars PROVE [Register!Next]_(Register!vars)
    OBVIOUS
  <2>1. CASE UNCHANGED vars
    BY <2>1 DEF vars, Register!vars
  <2>2. ASSUME NEW r \in Reqs, Receive(r) PROVE Register!Next
    BY <2>2, ReceiveInvokes DEF Register!Next
  <2>3. ASSUME NEW r \in Reqs, CheckBlob(r) PROVE [Register!Next]_(Register!vars)
    BY <2>3, CheckBlobAnswers DEF Register!Next
  <2>4. ASSUME NEW r \in Reqs, DrawSeq(r) \/ Insert(r) \/ Update(r) \/ Miss(r)
        PROVE  UNCHANGED Register!vars
    BY <2>4, SilentSteps
  <2>5. ASSUME NEW r \in Reqs, Commit(r) PROVE Register!Next
    BY <2>5, CommitApplies DEF Register!Next, IInv
  <2>6. ASSUME NEW r \in Reqs, Fetch(r) PROVE Register!Next
    BY <2>6, FetchAnswers DEF Register!Next
  <2>7. ASSUME NEW r \in Reqs, Abort(r) PROVE Register!Next
    BY <2>7, AbortFails DEF Register!Next
  <2>8. ASSUME NEW r \in Reqs, Respond(r) PROVE Register!Next
    BY <2>8, RespondReturns DEF Register!Next
  <2>9. QED
    BY <2>1, <2>2, <2>3, <2>4, <2>5, <2>6, <2>7, <2>8 DEF Next
<1>3. QED
  BY <1>1, <1>2, Invariant, PTL DEF Spec, ImplementsRegister, Register!Spec
-------------------------------------------------------------------------------
(* ChangeFeed: the reader, one page after the other. *)

USE LimitIsPositive, DocsAreFinite

\* The server's table can be paged through: its rows have numbers of their own.
LEMMA TableIsNumbered == IInv => Numbered(doc) /\ DOMAIN doc = Docs
<1> SUFFICES ASSUME IInv PROVE Numbered(doc) /\ DOMAIN doc = Docs
  OBVIOUS
<1>1. DOMAIN doc = Docs /\ \A d \in Docs : doc[d].seq \in Nat
  BY DEF IInv, TypeOK, Row
<1>2. \A d \in Docs : doc[d].seq > 0 => Exists(doc[d])
  BY DEF IInv, SeqsDrawn
<1>3. \A d, e \in Docs : (d # e /\ doc[d].seq > 0) => doc[d].seq # doc[e].seq
  BY <1>2 DEF IInv, SeqsDistinct
<1>4. QED
  BY <1>1, <1>3 DEF Numbered

\* What a poll does: the cursor goes to a number of the table or stays, the
\* rows it passes are copied, the others are left as they were.
LEMMA PollEffect ==
  ASSUME FeedIInv, Poll
  PROVE  /\ CursorIsKnown' /\ doc' = doc
         /\ \A d \in Docs : Covered(d) => Covered(d)'
<1> DEFINE page == Changes(doc, cursor, PageLimit)
           given(d) == \E i \in DOMAIN page.items : page.items[i].id = d
<1>1. Numbered(doc) /\ DOMAIN doc = Docs /\ cursor \in Nat
  BY TableIsNumbered DEF FeedIInv, CursorIsKnown
<1>2. Complete(page, doc, cursor)
  BY <1>1, PageIsComplete
<1>3. /\ copy' = [d \in Docs |-> IF given(d) THEN doc[d] ELSE copy[d]]
      /\ cursor' = page.next /\ doc' = doc
  BY DEF Poll, vars
<1> HIDE DEF page
<1>4. /\ \A d \in Docs : (cursor < doc[d].seq /\ doc[d].seq <= page.next)
           => \E i \in DOMAIN page.items : page.items[i] = Item(doc, d)
      /\ page.next \in Nat /\ page.next >= cursor
      /\ page.next = cursor \/ \E d \in Docs : page.next = doc[d].seq
  BY <1>1, <1>2 DEF Complete
<1>5. \A d \in Docs : (cursor < doc[d].seq /\ doc[d].seq <= page.next) => given(d)
  <2>1. \A d : Item(doc, d).id = d
    BY DEF Item
  <2>2. QED
    BY <1>4, <2>1, Zenon
<1> HIDE DEF given
<1>6. \A d \in Docs : doc[d].seq \in Nat
  BY <1>1 DEF Numbered
<1>7. CursorIsKnown'
  BY <1>1, <1>3, <1>4, <1>6 DEF FeedIInv, CursorIsKnown
<1>8. ASSUME NEW d \in Docs, Covered(d) PROVE Covered(d)'
  <2>1. SUFFICES ASSUME doc[d].seq <= page.next PROVE copy'[d] = doc[d]
    BY <1>3 DEF Covered
  <2>2. CASE given(d)
    BY <1>3, <2>2
  <2>3. CASE ~given(d)
    <3>1. doc[d].seq <= cursor
      BY <1>1, <1>5, <1>6, <2>1, <2>3
    <3>2. copy[d] = doc[d]
      BY <1>8, <3>1 DEF Covered
    <3>3. QED
      BY <1>3, <2>3, <3>2
  <2>4. QED
    BY <2>2, <2>3
<1>9. QED
  BY <1>3, <1>7, <1>8

\* What a step of a handler does to the table: nothing, or one row is replaced
\* by the newer one that a handler held.
LEMMA TableStep ==
  ASSUME IInv, Next, doc' # doc
  PROVE  \E r \in Reqs : /\ req[r].pc = "hold" /\ req[r].q.id \in Docs
                         /\ doc' = [doc EXCEPT ![req[r].q.id] = req[r].row]
                         /\ req[r].row.seq \in Nat
                         /\ req[r].row.seq > doc[req[r].q.id].seq
<1>1. PICK r \in Reqs : Commit(r)
  BY DEF Next, Receive, CheckBlob, DrawSeq, Insert, Update, Miss, Fetch, Abort, Respond
<1>2. /\ req[r].pc = "hold" /\ req[r].q.id \in Docs /\ req[r].row.seq \in Nat
      /\ doc' = [doc EXCEPT ![req[r].q.id] = req[r].row]
  BY <1>1 DEF Commit, IInv, TypeOK, HandlerStates, Idle, Request, Row
<1>3. req[r].row.seq > doc[req[r].q.id].seq
  BY <1>2 DEF IInv, PendingIsNext
<1>4. QED
  BY <1>2, <1>3

\* A handler's step keeps the cursor known, and takes a row away from the
\* reader only if a greater number was committed before it; a row that is
\* committed in order stays ahead of the cursor.
LEMMA HandlerEffect ==
  ASSUME FeedIInv, Next, UNCHANGED <<copy, cursor>>
  PROVE  /\ CursorIsKnown'
         /\ \A d \in Docs : (Covered(d) /\ ~Covered(d)') =>
              /\ doc'[d] # doc[d]
              /\ \E e \in Docs : doc[e].seq > doc'[d].seq
              /\ ~InOrder
<1>1. \A d \in Docs : doc[d].seq \in Nat
  BY DEF FeedIInv, IInv, TypeOK, Row
<1>2. CASE doc' = doc
  BY <1>2 DEF FeedIInv, CursorIsKnown, Covered
<1>3. CASE doc' # doc
  <2>1. IInv
    BY DEF FeedIInv
  <2>2. PICK r \in Reqs : /\ req[r].pc = "hold" /\ req[r].q.id \in Docs
                          /\ doc' = [doc EXCEPT ![req[r].q.id] = req[r].row]
                          /\ req[r].row.seq \in Nat
                          /\ req[r].row.seq > doc[req[r].q.id].seq
    BY <1>3, <2>1, TableStep
  <2> DEFINE id == req[r].q.id
             row == req[r].row
  <2>3. doc'[id] = row /\ \A d \in Docs : d # id => doc'[d] = doc[d]
    BY <2>1, <2>2 DEF IInv, TypeOK
  <2> HIDE DEF id, row
  <2>4. id \in Docs /\ row.seq \in Nat /\ row.seq > doc[id].seq
    BY <2>2 DEF id, row
  <2>5. \A d \in Docs : doc'[d].seq >= doc[d].seq /\ doc'[d].seq \in Nat
    BY <1>1, <2>3, <2>4
  <2>6. cursor \in Nat /\ (cursor = 0 \/ \E d \in Docs : cursor <= doc[d].seq)
    BY DEF FeedIInv, CursorIsKnown
  <2>7. CursorIsKnown'
    <3>1. ASSUME NEW d \in Docs, cursor <= doc[d].seq PROVE cursor <= doc'[d].seq
      BY <1>1, <2>5, <2>6, <3>1
    <3>2. QED
      BY <2>6, <3>1 DEF CursorIsKnown
  <2>8. ASSUME NEW d \in Docs, Covered(d), ~Covered(d)'
        PROVE  /\ doc'[d] # doc[d]
               /\ \E e \in Docs : doc[e].seq > doc'[d].seq
               /\ ~InOrder
    <3>1. doc'[d] # doc[d] /\ d = id /\ doc'[d].seq <= cursor
      BY <2>3, <2>8 DEF Covered
    <3>2. row.seq <= cursor
      BY <2>3, <3>1
    <3>3. PICK e \in Docs : cursor <= doc[e].seq
      BY <1>1, <2>4, <2>6, <3>2
    <3>4. row.seq <= doc[e].seq
      BY <1>1, <2>4, <2>6, <3>2, <3>3
    <3>5. row.seq # doc[e].seq
      <4>1. Drawn(req[r]) = row.seq /\ row.seq # 0
        BY <1>1, <2>2, <2>4 DEF Drawn, row
      <4>2. QED
        BY <2>1, <4>1 DEF IInv, SeqsDistinct
    <3>6. doc[e].seq > doc'[d].seq
      BY <1>1, <2>3, <2>4, <3>1, <3>4, <3>5
    <3>7. ~InOrder
      BY <1>1, <2>2, <2>4, <3>4 DEF InOrder, row
    <3>8. QED
      BY <3>1, <3>6, <3>7
  <2>9. QED
    BY <2>7, <2>8
<1>4. QED
  BY <1>2, <1>3

\* Every step keeps the reader's invariant.
LEMMA FeedStep == FeedIInv /\ [FeedNext]_feedVars => FeedIInv'
<1> SUFFICES ASSUME FeedIInv, [FeedNext]_feedVars PROVE FeedIInv'
  OBVIOUS
<1>1. IInv'
  BY InvariantStep DEF FeedIInv, FeedNext, Poll, feedVars
<1>2. CursorIsKnown'
  <2>1. CASE Poll
    BY <2>1, PollEffect
  <2>2. CASE Next /\ UNCHANGED <<copy, cursor>>
    BY <2>2, HandlerEffect
  <2>3. CASE UNCHANGED feedVars
    BY <2>3 DEF FeedIInv, CursorIsKnown, feedVars, vars
  <2>4. QED
    BY <2>1, <2>2, <2>3 DEF FeedNext
<1>3. QED
  BY <1>1, <1>2 DEF FeedIInv

\* The document routes keep their invariant with a reader beside them, and the
\* reader's cursor never is ahead of everything that was committed.
THEOREM FeedInvariant == FeedSpec => []FeedIInv
<1>1. FeedInit => FeedIInv
  BY InvariantInit DEF FeedInit, FeedIInv, CursorIsKnown
<1>2. QED
  BY <1>1, FeedStep, PTL DEF FeedSpec

\* A reader of the feed changes nothing in the server: what is proved of the
\* document routes holds with readers beside them.
THEOREM ReaderDisturbsNothing == FeedSpec => Spec
<1>1. FeedInit => Init
  BY DEF FeedInit
<1>2. [FeedNext]_feedVars => [Next]_vars
  BY DEF FeedNext, Poll, feedVars
<1>3. QED
  BY <1>1, <1>2, PTL DEF FeedSpec, Spec

\* A row escapes the reader only when it is committed after another row of a
\* greater number: the pages themselves lose nothing.
THEOREM EscapesAreLateCommits == FeedSpec => OnlyLateCommitsEscape
<1>1. FeedIInv /\ [FeedNext]_feedVars =>
        [\A d \in Docs : (Covered(d) /\ ~Covered(d)') =>
           /\ doc'[d] # doc[d]
           /\ \E e \in Docs : doc[e].seq > doc'[d].seq]_feedVars
  BY PollEffect, HandlerEffect DEF FeedNext
<1>2. QED
  BY <1>1, FeedInvariant, PTL DEF FeedSpec, OnlyLateCommitsEscape

\* If rows are committed in the order of their numbers, the cursor covers every
\* committed row: the order is all that the reader's promise lacks.
THEOREM CoversInOrder == FeedSpec => ([]InOrder => []CursorCoversFeed)
<1>1. FeedInit => CursorCoversFeed
  BY DEF FeedInit, Init, CursorCoversFeed, Covered
<1>2. FeedIInv /\ InOrder /\ CursorCoversFeed /\ [FeedNext]_feedVars => CursorCoversFeed'
  <2> SUFFICES ASSUME FeedIInv, InOrder, CursorCoversFeed, [FeedNext]_feedVars,
                      NEW d \in Docs
               PROVE  Covered(d)'
    BY DEF CursorCoversFeed
  <2>1. Covered(d)
    BY DEF CursorCoversFeed
  <2>2. CASE Poll
    BY <2>1, <2>2, PollEffect
  <2>3. CASE Next /\ UNCHANGED <<copy, cursor>>
    BY <2>1, <2>3, HandlerEffect
  <2>4. CASE UNCHANGED feedVars
    BY <2>1, <2>4 DEF Covered, feedVars, vars
  <2>5. QED
    BY <2>2, <2>3, <2>4 DEF FeedNext
<1>3. QED
  BY <1>1, <1>2, FeedInvariant, PTL DEF FeedSpec
===============================================================================
