------------------------------- MODULE DocServer ------------------------------
(***************************************************************************)
(* The document routes of scrigno-server over PostgreSQL, one action per   *)
(* database round trip.  A request is a handler task; each runs in its own *)
(* READ COMMITTED transaction, so the uncommitted row it wrote is seen by  *)
(* nobody else, and the row lock it holds makes other writers of the same  *)
(* document wait.  The sequence number is drawn when the statement runs,   *)
(* the row becomes visible when the transaction commits.                   *)
(***************************************************************************)
EXTENDS DocRecords

CONSTANT Reqs   \* handler tasks that may be in progress at once

VARIABLES doc,  \* [Docs -> Row], the committed rows
          seq,  \* last value drawn from document_change_seq
          req   \* [Reqs -> handler state]

vars == <<doc, seq, req>>

Idle == [pc |-> "idle"]

\* A handler before and during its statement; seq is the number it has already
\* drawn (0: none yet).
Running(pc, q, n) == [pc |-> pc, q |-> q, seq |-> n]

\* The statement has written row, the transaction is not committed.
Holding(q, row) == [pc |-> "hold", q |-> q, row |-> row]

Done(q, code, row) == [pc |-> "done", q |-> q, code |-> code, row |-> row]

NeverLocked(d) == FALSE

\* Some transaction has written document d and not committed yet.
Locked(d) == \E r \in Reqs : req[r].pc = "hold" /\ req[r].q.id = d

Init == /\ doc = [d \in Docs |-> NoRow]
        /\ seq = 0
        /\ req = [r \in Reqs |-> Idle]

\* A request arrives.  If-Match is 0 or a version the caller has been told.
Receive(r) ==
  /\ req[r] = Idle
  /\ \E id \in Docs : \E ifm \in 0..doc[id].version : \E q \in RequestsFor(id, ifm) :
       req' = [req EXCEPT ![r] = Running(IF q.op = "put" THEN "blob" ELSE "stmt", q, 0)]
  /\ UNCHANGED <<doc, seq>>

\* put_doc looks the blob up before anything else; which blob rows exist is
\* the business of BlobServer.
CheckBlob(r) ==
  /\ req[r].pc = "blob"
  /\ \E found \in BOOLEAN :
       req' = [req EXCEPT ![r] = IF found THEN Running("stmt", req[r].q, 0)
                                 ELSE Done(req[r].q, "blob_not_found", NoRow)]
  /\ UNCHANGED <<doc, seq>>

IsInsert(q) == q.op = "put" /\ q.ifm = 0

\* The committed row is the one an UPDATE ... WHERE version = If-Match touches.
Matches(q) == Exists(doc[q.id]) /\ doc[q.id].version = q.ifm

\* nextval is evaluated before the statement looks for a conflict (INSERT) or
\* locks the row it found (UPDATE): the number is drawn even if the statement
\* then waits, and is lost if it touches no row in the end.
DrawSeq(r) ==
  /\ req[r].pc = "stmt" /\ req[r].seq = 0
  /\ IsInsert(req[r].q) \/ Matches(req[r].q)
  /\ seq < MaxSeq
  /\ seq' = seq + 1
  /\ req' = [req EXCEPT ![r].seq = seq + 1]
  /\ UNCHANGED doc

\* INSERT: no committed row and nobody inserting one.
Insert(r) ==
  /\ req[r].pc = "stmt" /\ IsInsert(req[r].q) /\ req[r].seq # 0
  /\ LET q == req[r].q IN
     /\ ~Exists(doc[q.id]) /\ ~Locked(q.id)
     /\ req' = [req EXCEPT ![r] = Holding(q, Written(q, doc[q.id], req[r].seq))]
  /\ UNCHANGED <<doc, seq>>

\* UPDATE ... WHERE version = If-Match, of either route.  A writer that waited
\* for the row evaluates the condition again on the row it finds.
Update(r) ==
  /\ req[r].pc = "stmt" /\ ~IsInsert(req[r].q) /\ req[r].seq # 0
  /\ LET q == req[r].q IN
     /\ Matches(q) /\ ~Locked(q.id)
     /\ req' = [req EXCEPT ![r] = Holding(q, Written(q, doc[q.id], req[r].seq))]
  /\ UNCHANGED <<doc, seq>>

\* The statement touches no row: the INSERT found one, or the UPDATE found
\* none of that version.  Rows written by others and not committed are not seen.
Miss(r) ==
  /\ req[r].pc = "stmt"
  /\ LET q == req[r].q IN
     /\ IF IsInsert(q) THEN req[r].seq # 0 /\ Exists(doc[q.id])
                       ELSE ~Matches(q)
     /\ req' = [req EXCEPT ![r] = Running("miss", q, 0)]
  /\ UNCHANGED <<doc, seq>>

\* The row becomes visible and the lock goes.  If the connection breaks while
\* the commit is acknowledged the caller reads an error.
Commit(r) ==
  /\ req[r].pc = "hold"
  /\ LET q == req[r].q IN
     /\ doc' = [doc EXCEPT ![q.id] = req[r].row]
     /\ \E acknowledged \in BOOLEAN :
          req' = [req EXCEPT ![r] = IF acknowledged
                                    THEN Done(q, Accepted(q), req[r].row)
                                    ELSE Done(q, "error", NoRow)]
  /\ UNCHANGED seq

RefusalWithout404(q, row) == Done(q, "mismatch", row)

\* The answer to a request whose statement touched no row, given the row found.
Refusal(q, row) == IF q.op = "delete" /\ ~Exists(row) THEN Done(q, "not_found", NoRow)
                                                     ELSE Done(q, "mismatch", row)

\* After a miss the handler reads the row again, in a new statement, for the
\* body of its answer.
Fetch(r) ==
  /\ req[r].pc = "miss"
  /\ LET q == req[r].q IN
     req' = [req EXCEPT ![r] = Refusal(q, doc[q.id])]
  /\ UNCHANGED <<doc, seq>>

\* A database error, or the process dies: the transaction rolls back, numbers
\* drawn from the sequence stay drawn.
Abort(r) ==
  /\ req[r].pc \in {"blob", "stmt", "hold", "miss"}
  /\ req' = [req EXCEPT ![r] = Done(req[r].q, "error", NoRow)]
  /\ UNCHANGED <<doc, seq>>

\* The answer leaves; the task is gone.
Respond(r) ==
  /\ req[r].pc = "done"
  /\ req' = [req EXCEPT ![r] = Idle]
  /\ UNCHANGED <<doc, seq>>

Next == \E r \in Reqs :
          \/ Receive(r) \/ CheckBlob(r) \/ DrawSeq(r) \/ Insert(r) \/ Update(r)
          \/ Miss(r) \/ Commit(r) \/ Fetch(r) \/ Abort(r) \/ Respond(r)

Spec == Init /\ [][Next]_vars
-------------------------------------------------------------------------------
HandlerStates ==
  {Idle}
  \cup [pc : {"blob", "stmt", "miss"}, q : Request, seq : 0..MaxSeq]
  \cup [pc : {"hold"}, q : Request, row : Row]
  \cup [pc : {"done"}, q : Request, code : Codes, row : Row]

\* Every variable has its type (docs.rs and the document table).
TypeOK == /\ doc \in [Docs -> Row]
          /\ seq \in 0..MaxSeq
          /\ req \in [Reqs -> HandlerStates]

\* At most one uncommitted writer per document (docs.rs: the conditional
\* statement lets row locks make check-and-write atomic).
OneWriter ==
  \A r1, r2 \in Reqs :
    (req[r1].pc = "hold" /\ req[r2].pc = "hold" /\ req[r1].q.id = req[r2].q.id)
      => r1 = r2

\* An uncommitted row is still the next version of the committed row it was
\* computed from, with a greater sequence number: no write committed meanwhile
\* is overwritten.
PendingIsNext ==
  \A r \in Reqs : req[r].pc = "hold" =>
    LET q == req[r].q IN
    /\ doc[q.id].version = q.ifm
    /\ req[r].row = Written(q, doc[q.id], req[r].row.seq)
    /\ req[r].row.seq > doc[q.id].seq

\* The sequence number handler h has drawn and not published; 0 if none.
Drawn(h) == IF h.pc = "hold" THEN h.row.seq ELSE IF h.pc = "stmt" THEN h.seq ELSE 0

\* The sequence numbers that rows, uncommitted rows and waiting inserts hold
\* are all different: UNIQUE (server_seq) never fails a request.
SeqsDistinct ==
  /\ \A d, e \in Docs : (d # e /\ Exists(doc[d])) => doc[d].seq # doc[e].seq
  /\ \A r \in Reqs, d \in Docs : Drawn(req[r]) # 0 => Drawn(req[r]) # doc[d].seq
  /\ \A r1, r2 \in Reqs :
       (r1 # r2 /\ Drawn(req[r1]) # 0) => Drawn(req[r1]) # Drawn(req[r2])

\* A document row points at no blob exactly when it is a tombstone
\* (ARCHITECTURE section 2: "NULL only for tombstones").
BlobIffLive ==
  \A d \in Docs : Exists(doc[d]) => ((doc[d].blob = NoBlob) <=> doc[d].deleted)

\* A 412 carries a row newer than the If-Match it refuses, so the caller that
\* pulls finds something to reconcile with.
MismatchIsNewer ==
  \A r \in Reqs : (req[r].pc = "done" /\ req[r].code = "mismatch")
                    => req[r].row.version > req[r].q.ifm

\* What the proofs need besides: no caller is ahead of the row it names;
\* every number in use was drawn; rows that exist are those with a number;
\* a handler whose statement touched no row really was behind, or deletes a
\* document that was not there; a number drawn while the row still matches is
\* greater than the row's; only a PUT looks a blob up; and a tombstone that is
\* about to be committed replaces a row.
CallersKnown ==
  \A r \in Reqs : req[r].pc # "idle" => req[r].q.ifm <= doc[req[r].q.id].version

SeqsDrawn ==
  /\ \A d \in Docs : doc[d].seq <= seq /\ (Exists(doc[d]) <=> doc[d].seq > 0)
  /\ \A r \in Reqs : Drawn(req[r]) <= seq
  /\ \A r \in Reqs : req[r].pc = "hold" => req[r].row.seq > 0

MissIsBehind ==
  \A r \in Reqs : req[r].pc = "miss" =>
    LET q == req[r].q IN
    doc[q.id].version > q.ifm \/ (q.op = "delete" /\ ~Exists(doc[q.id]))

DrawnIsNewer ==
  \A r \in Reqs : (req[r].pc = "stmt" /\ req[r].seq # 0) =>
    LET q == req[r].q IN
    doc[q.id].version = q.ifm => req[r].seq > doc[q.id].seq

BlobLookupIsPut == \A r \in Reqs : req[r].pc = "blob" => req[r].q.op = "put"

TombstonesReplace ==
  \A r \in Reqs : (req[r].pc = "hold" /\ req[r].q.op = "delete") => Exists(doc[req[r].q.id])

\* The inductive invariant: the safety invariants and the facts they rest on.
IInv == /\ TypeOK /\ OneWriter /\ PendingIsNext /\ SeqsDistinct /\ BlobIffLive
        /\ MismatchIsNewer /\ CallersKnown /\ SeqsDrawn /\ MissIsBehind
        /\ DrawnIsNewer /\ BlobLookupIsPut /\ TombstonesReplace

\* A committed row only ever moves to its next version under a greater
\* sequence number, tombstones included: nothing is skipped or rewound.
VersionsStepByOne ==
  [][\A d \in Docs : doc'[d] # doc[d] =>
       doc'[d].version = doc[d].version + 1 /\ doc'[d].seq > doc[d].seq]_doc
-------------------------------------------------------------------------------
\* The caller's view: a handler is open until it answers.
CallOf(h) ==
  IF h.pc = "idle" THEN [pc |-> "quiet"]
  ELSE IF h.pc = "done" THEN [pc |-> "answered", q |-> h.q, code |-> h.code, row |-> h.row]
  ELSE [pc |-> "open", q |-> h.q]

Register == INSTANCE DocRegister WITH call <- [r \in Reqs |-> CallOf(req[r])]

\* The routes implement the compare-and-set register of DocRegister.
ImplementsRegister == Register!Spec
===============================================================================
