------------------------------ MODULE ChangeFeed ------------------------------
(***************************************************************************)
(* The change feed read while handlers of DocServer are writing: a reader  *)
(* that keeps a copy of every record it was given and a cursor, as the     *)
(* pull loop of sync.rs does.                                              *)
(***************************************************************************)
EXTENDS DocServer, FeedPage

CONSTANT PageLimit   \* the limit of every request of the reader

ASSUME LimitIsPositive == PageLimit \in Nat \ {0}
ASSUME DocsAreFinite == IsFiniteSet(Docs)

VARIABLES copy,    \* [Docs -> Row], what the reader has been given
          cursor   \* the since of its next request

feedVars == <<vars, copy, cursor>>

FeedInit == /\ Init
            /\ copy = [d \in Docs |-> NoRow]
            /\ cursor = 0

\* A page is requested, applied, and the cursor moved past it.
Poll ==
  /\ LET page == Changes(doc, cursor, PageLimit) IN
     /\ copy' = [d \in Docs |->
                   IF \E i \in DOMAIN page.items : page.items[i].id = d
                   THEN doc[d] ELSE copy[d]]
     /\ cursor' = page.next
  /\ UNCHANGED vars

FeedNext == Poll \/ (Next /\ UNCHANGED <<copy, cursor>>)

FeedSpec == FeedInit /\ [][FeedNext]_feedVars

\* Every committed row whose number the cursor has passed is in the copy: the
\* cursor is "last server_seq applied" (ARCHITECTURE section 4), so the reader
\* needs to ask for nothing before it.
Covered(d) == doc[d].seq <= cursor => copy[d] = doc[d]

CursorCoversFeed == \A d \in Docs : Covered(d)

\* A row escapes the reader only when it is committed after another row of a
\* greater number: whatever the limit, no page moves the cursor over a row
\* that it does not hold.
OnlyLateCommitsEscape ==
  [][\A d \in Docs : (Covered(d) /\ ~Covered(d)') =>
       /\ doc'[d] # doc[d]
       /\ \E e \in Docs : doc[e].seq > doc'[d].seq]_feedVars

\* What would save the reader: rows are committed in the order of their
\* numbers, an uncommitted row's being greater than every committed one.
InOrder == \A r \in Reqs, d \in Docs :
             req[r].pc = "hold" => req[r].row.seq > doc[d].seq

\* The inductive invariant of the reader: the cursor is the start of the feed,
\* or a number that was committed and may have been replaced by a later one.
CursorIsKnown == /\ cursor \in Nat
                 /\ cursor = 0 \/ \E d \in Docs : cursor <= doc[d].seq

FeedIInv == IInv /\ CursorIsKnown
===============================================================================
