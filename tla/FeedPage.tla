------------------------------- MODULE FeedPage -------------------------------
(***************************************************************************)
(* One answer of GET /v1/changes: the rows after a sequence number, in the *)
(* order of their numbers, at most limit of them, read in one snapshot.    *)
(***************************************************************************)
EXTENDS Integers, Sequences, FiniteSets, SequencesExt

NextIsSince(table, page, since) == since

\* The next cursor: the last number of the page, or the cursor as it was.
NextSince(table, page, since) == IF page = <<>> THEN since ELSE table[Last(page)].seq

SortedDown(key) ==
  CHOOSE s \in [1..Cardinality(DOMAIN key) -> DOMAIN key] :
    /\ Range(s) = DOMAIN key
    /\ \A i, j \in DOMAIN s : i < j => key[s[i]] > key[s[j]]

\* ORDER BY key ASC: the ids that have a key, every one once.
SortedBy(key) ==
  CHOOSE s \in [1..Cardinality(DOMAIN key) -> DOMAIN key] :
    /\ Range(s) = DOMAIN key
    /\ \A i, j \in DOMAIN s : i < j => key[s[i]] < key[s[j]]

\* table maps each id to its row; rows that do not exist have number 0.
Changes(table, since, limit) ==
  LET After == {d \in DOMAIN table : table[d].seq > since}
      Feed  == SortedBy([d \in After |-> table[d].seq])
      Page  == SubSeq(Feed, 1, IF Len(Feed) > limit THEN limit ELSE Len(Feed))
  IN [items |-> [i \in DOMAIN Page |-> [id |-> Page[i], rec |-> table[Page[i]]]],
      next  |-> NextSince(table, Page, since),
      more  |-> Len(Feed) > limit]
===============================================================================
