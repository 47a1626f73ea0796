----------------------------- MODULE RangeRequest -----------------------------
(***************************************************************************)
(* Range requests of routes/blobs.rs: what get_blob answers to a Range     *)
(* header for an object of a given size.  A header is a record of what its *)
(* text says; the numbers in it may be too large for 64 bits.              *)
(***************************************************************************)
EXTENDS Integers, FiniteSets

CONSTANTS
  MaxU64,  \* the largest number a header can be parsed to
  MaxSize  \* bound: the largest object; numbers go two beyond MaxU64

ASSUME SizesFit == MaxU64 \in Nat /\ MaxSize \in 0..MaxU64

\* The texts: bytes=first-last, bytes=first-, bytes=-suffix, and everything
\* that is not one byte range.
Headers ==
  LET Number == 0..MaxU64 + 2 IN
  [form : {"closed"}, first : Number, last : Number] \cup [form : {"open"}, first : Number]
    \cup [form : {"suffix"}, count : Number] \cup [form : {"other"}]

Parses(n) == n <= MaxU64

NoRange       == [kind |-> "none"]
Unsatisfiable == [kind |-> "unsatisfiable"]
Bounded(start, end) == [kind |-> "range", start |-> start, end |-> end]

StartUnchecked(size, n) == size - n

\* saturating_sub: a suffix longer than the object is all of it.
SuffixStart(size, n) == IF n > size THEN 0 ELSE size - n

\* parse_range, check by check.
ParseSuffix(h, size) ==
  IF ~Parses(h.count) THEN NoRange
  ELSE IF h.count = 0 \/ size = 0 THEN Unsatisfiable
  ELSE Bounded(SuffixStart(size, h.count), size - 1)

LastUnclipped(h, size) == IF h.form = "open" THEN size - 1 ELSE h.last

LastByte(h, size) ==
  IF h.form = "open" \/ h.last > size - 1 THEN size - 1 ELSE h.last

ParseFirst(h, size) ==
  IF ~Parses(h.first) THEN NoRange
  ELSE IF h.first >= size THEN Unsatisfiable
  ELSE IF h.form = "closed" /\ ~Parses(h.last) THEN NoRange
  ELSE IF LastByte(h, size) < h.first THEN Unsatisfiable
  ELSE Bounded(h.first, LastByte(h, size))

ParseRange(h, size) ==
  CASE h.form = "other"  -> NoRange
    [] h.form = "suffix" -> ParseSuffix(h, size)
    [] OTHER             -> ParseFirst(h, size)

\* get_blob: the status, the promised length, and the bytes asked of the store,
\* whose range excludes its end.
Answer(h, size) ==
  LET r == ParseRange(h, size) IN
  CASE r.kind = "none" -> [status |-> 200, length |-> size, body |-> 0..size - 1]
    [] r.kind = "unsatisfiable" -> [status |-> 416, length |-> 0, body |-> {}]
    [] OTHER -> [status |-> 206, length |-> r.end - r.start + 1,
                 body |-> {i \in 0..size - 1 : r.start <= i /\ i < r.end + 1}]
-------------------------------------------------------------------------------
\* The bytes of the object that a header selects.
Selected(h, size) ==
  {i \in 0..size - 1 :
     CASE h.form = "other"  -> TRUE
       [] h.form = "open"   -> h.first <= i
       [] h.form = "closed" -> h.first <= i /\ i <= h.last
       [] h.form = "suffix" -> i >= size - h.count}

\* Sizes of objects for which a partial answer holds the selected bytes and
\* their number, a refusal means that there are none, and all of the object is
\* sent only for want of a range that can be read, whatever the header.
ExactSizes ==
  {size \in 0..MaxSize : \A h \in Headers :
     LET a == Answer(h, size) IN
     /\ a.length = Cardinality(a.body)
     /\ CASE a.status = 206 -> a.body = Selected(h, size) /\ a.body # {}
          [] a.status = 416 -> Selected(h, size) = {}
          [] a.status = 200 -> /\ a.body = 0..size - 1
                               /\ \/ h.form = "other"
                                  \/ \E f \in DOMAIN h \ {"form"} : ~Parses(h[f])}
===============================================================================
