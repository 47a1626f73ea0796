----------------------------- MODULE DocRegister ------------------------------
(***************************************************************************)
(* What the document routes promise to their callers: every document is a  *)
(* compare-and-set register.  A call takes effect at one instant or not at *)
(* all; it takes effect only if its If-Match is the version of the row at  *)
(* that instant; a 412 carries a row that really had another version.      *)
(* Sequence numbers are unique and grow with each write of one document;   *)
(* nothing is promised about their order across documents.                 *)
(***************************************************************************)
EXTENDS DocRecords

CONSTANT Reqs   \* request slots: the calls that may be in progress at once

VARIABLES doc,  \* [Docs -> Row], the committed table
          call  \* [Reqs -> call in progress or Quiet]

vars == <<doc, call>>

Quiet == [pc |-> "quiet"]

Open(q) == [pc |-> "open", q |-> q]

Answered(q, code, row) == [pc |-> "answered", q |-> q, code |-> code, row |-> row]

Init == doc = [d \in Docs |-> NoRow] /\ call = [r \in Reqs |-> Quiet]

\* A caller names a version it has been told about, or 0.
Invoke(r) ==
  /\ call[r] = Quiet
  /\ \E id \in Docs : \E ifm \in 0..doc[id].version : \E q \in RequestsFor(id, ifm) :
       call' = [call EXCEPT ![r] = Open(q)]
  /\ UNCHANGED doc

FreshSeq(s, d) == s > doc[d].seq /\ \A e \in Docs : doc[e].seq # s

\* The call wins the compare-and-set.  The answer can still be an error: the
\* connection may break after the effect.
Apply(r) ==
  /\ call[r].pc = "open"
  /\ LET q == call[r].q IN
     /\ doc[q.id].version = q.ifm
     /\ q.op = "delete" => Exists(doc[q.id])
     /\ \E s \in 1..MaxSeq :
          /\ FreshSeq(s, q.id)
          /\ LET row == Written(q, doc[q.id], s) IN
             /\ doc' = [doc EXCEPT ![q.id] = row]
             /\ \/ call' = [call EXCEPT ![r] = Answered(q, Accepted(q), row)]
                \/ call' = [call EXCEPT ![r] = Answered(q, "error", NoRow)]

\* The call loses: its If-Match is behind the row it is shown.
Refuse(r) ==
  /\ call[r].pc = "open"
  /\ LET q == call[r].q IN
     /\ doc[q.id].version > q.ifm
     /\ call' = [call EXCEPT ![r] = Answered(q, "mismatch", doc[q.id])]
  /\ UNCHANGED doc

\* A DELETE of a document that was never stored, or a PUT of an unknown blob.
NotFound(r) ==
  /\ call[r].pc = "open"
  /\ LET q == call[r].q IN
     \/ /\ q.op = "put"
        /\ call' = [call EXCEPT ![r] = Answered(q, "blob_not_found", NoRow)]
     \/ /\ q.op = "delete" /\ ~Exists(doc[q.id])
        /\ call' = [call EXCEPT ![r] = Answered(q, "not_found", NoRow)]
  /\ UNCHANGED doc

\* The call fails without effect.
Fail(r) ==
  /\ call[r].pc = "open"
  /\ call' = [call EXCEPT ![r] = Answered(call[r].q, "error", NoRow)]
  /\ UNCHANGED doc

Return(r) ==
  /\ call[r].pc = "answered"
  /\ call' = [call EXCEPT ![r] = Quiet]
  /\ UNCHANGED doc

Next == \E r \in Reqs : \/ Invoke(r) \/ Apply(r) \/ Refuse(r)
                        \/ NotFound(r) \/ Fail(r) \/ Return(r)

Spec == Init /\ [][Next]_vars
===============================================================================
