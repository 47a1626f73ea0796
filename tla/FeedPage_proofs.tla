--------------------------- MODULE FeedPage_proofs ----------------------------
(***************************************************************************)
(* Proofs about FeedPage for tables and pages of any size: what a page of  *)
(* the change feed holds, and that rows can be put in an order.            *)
(*                                                                         *)
(* Induction is by a smallest counterexample: a set of numbers that is not *)
(* empty has a least one.                                                  *)
(***************************************************************************)
EXTENDS FeedPage, FiniteSetTheorems, NaturalsInduction, WellFoundedInduction,
        TLAPS

\* A set of naturals that is not empty has a least element.
LEMMA LeastNumber ==
  ASSUME NEW T, T \subseteq Nat, T # {}
  PROVE  \E x \in T : \A y \in T : x <= y
<1>1. \A x, y \in Nat : x < y => <<x, y>> \in OpToRel(<, Nat)
  BY Zenon DEF OpToRel
<1>2. \E x \in T : \A y \in T : ~(<<y, x>> \in OpToRel(<, Nat))
  BY NatLessThanWellFounded, WFMin, Zenon
<1>3. \E x \in T : \A y \in T : ~(y < x)
  BY <1>1, <1>2, Zenon
<1>4. QED
  BY <1>3

\* If some subsets of a finite set are bad, one of them is bad and is not when
\* any one of its elements is taken away.
LEMMA SmallestBad ==
  ASSUME NEW D, IsFiniteSet(D), NEW Bad, Bad \subseteq SUBSET D, Bad # {}
  PROVE  \E Z \in Bad : \A x \in Z : Z \ {x} \notin Bad
<1> DEFINE Sizes == {Cardinality(Z) : Z \in Bad}
<1>1. \A Z \in Bad : IsFiniteSet(Z) /\ Cardinality(Z) \in Nat
  BY FS_Subset, FS_CardinalityType
<1>2. Sizes \subseteq Nat /\ Sizes # {}
  BY <1>1
<1> HIDE DEF Sizes
<1>3. PICK n \in Sizes : \A m \in Sizes : n <= m
  BY <1>2, LeastNumber
<1>4. PICK Z \in Bad : n = Cardinality(Z)
  BY <1>3 DEF Sizes
<1>5. SUFFICES ASSUME NEW x \in Z, Z \ {x} \in Bad PROVE FALSE
  BY <1>4
<1>6. Cardinality(Z \ {x}) = Cardinality(Z) - 1
  BY <1>1, <1>5, FS_RemoveElement
<1>7. Cardinality(Z) <= Cardinality(Z \ {x})
  BY <1>3, <1>4, <1>5 DEF Sizes
<1>8. QED
  BY <1>1, <1>6, <1>7

\* Of finitely many numbered things one has the greatest number.
LEMMA GreatestKey ==
  ASSUME NEW key, IsFiniteSet(DOMAIN key), DOMAIN key # {},
         \A d \in DOMAIN key : key[d] \in Nat
  PROVE  \E d \in DOMAIN key : \A e \in DOMAIN key : key[e] <= key[d]
<1> DEFINE D == DOMAIN key
           Bad == {Z \in SUBSET D : Z # {} /\ ~\E d \in Z : \A e \in Z : key[e] <= key[d]}
<1> HIDE DEF D
<1>1. ASSUME Bad # {} PROVE FALSE
  <2>1. PICK Z \in Bad : \A x \in Z : Z \ {x} \notin Bad
    BY <1>1, SmallestBad DEF D
  <2>2. PICK x \in Z : TRUE
    BY <2>1
  <2>3. Z \ {x} = {} \/ \E d \in Z \ {x} : \A e \in Z \ {x} : key[e] <= key[d]
    BY <2>1, <2>2
  <2>4. \A e \in Z : key[e] \in Nat
    BY <2>1 DEF D
  <2>5. CASE Z \ {x} = {}
    BY <2>1, <2>2, <2>4, <2>5
  <2>6. ASSUME NEW d \in Z \ {x}, \A e \in Z \ {x} : key[e] <= key[d] PROVE FALSE
    <3>1. CASE key[x] <= key[d]
      BY <2>1, <2>2, <2>6, <3>1
    <3>2. CASE key[d] <= key[x]
      <4>1. \A e \in Z : key[e] <= key[x]
        BY <2>2, <2>4, <2>6, <3>2
      <4>2. QED
        BY <2>1, <2>2, <4>1
    <3>3. QED
      BY <2>2, <2>4, <2>6, <3>1, <3>2
  <2>7. QED
    BY <2>3, <2>5, <2>6
<1>2. D \notin Bad
  BY <1>1
<1>3. QED
  BY <1>2 DEF D

\* The greatest of the numbers that finitely many things have.
LEMMA MaxIsGreatest ==
  ASSUME NEW key, IsFiniteSet(DOMAIN key), DOMAIN key # {},
         \A d \in DOMAIN key : key[d] \in Nat,
         NEW S, S = {key[d] : d \in DOMAIN key}
  PROVE  Max(S) \in S /\ \A n \in S : n <= Max(S)
<1>1. PICK d \in DOMAIN key : \A e \in DOMAIN key : key[e] <= key[d]
  BY GreatestKey
<1>2. key[d] \in S /\ \A n \in S : key[d] >= n
  BY <1>1
<1>3. \E m \in S : \A n \in S : m >= n
  BY <1>2
<1>4. Max(S) \in S /\ \A n \in S : Max(S) >= n
  BY <1>3 DEF Max
<1>5. \A n \in S : n \in Nat
  OBVIOUS
<1>6. QED
  BY <1>4, <1>5

\* s enumerates the set D by growing key.
Enumerates(s, D, key) ==
  /\ s \in [1..Cardinality(D) -> D]
  /\ Range(s) = D
  /\ \A i, j \in DOMAIN s : i < j => key[s[i]] < key[s[j]]

\* Things with different keys can be put in their order, one by one from the
\* least.
LEMMA EnumerationExists ==
  ASSUME NEW key, IsFiniteSet(DOMAIN key),
         \A d \in DOMAIN key : key[d] \in Nat,
         \A d, e \in DOMAIN key : d # e => key[d] # key[e]
  PROVE  \E s : Enumerates(s, DOMAIN key, key)
<1> DEFINE D == DOMAIN key
           Bad == {Z \in SUBSET D : ~\E s : Enumerates(s, Z, key)}
<1>1. \A d, e \in D : key[d] \in Nat /\ (d # e => key[d] # key[e])
  OBVIOUS
<1>2. IsFiniteSet(D)
  OBVIOUS
<1> HIDE DEF D
<1>3. ASSUME Bad # {} PROVE FALSE
  <2>1. PICK Z \in Bad : \A x \in Z : Z \ {x} \notin Bad
    BY <1>2, <1>3, SmallestBad
  <2>2. Z \subseteq D /\ IsFiniteSet(Z) /\ Cardinality(Z) \in Nat
    BY <1>2, FS_Subset, FS_CardinalityType
  <2>3. CASE Z = {}
    <3>1. Cardinality(Z) = 0
      BY <2>3, FS_EmptySet
    <3>2. <<>> \in [1..0 -> Z] /\ Range(<<>>) = {}
      BY DEF Range
    <3>3. Enumerates(<<>>, Z, key)
      BY <2>3, <3>1, <3>2 DEF Enumerates
    <3>4. QED
      BY <2>1, <3>3
  <2>4. CASE Z # {}
    <3>1. PICK n \in {key[d] : d \in Z} : \A m \in {key[d] : d \in Z} : n <= m
      <4>1. {key[d] : d \in Z} \subseteq Nat /\ {key[d] : d \in Z} # {}
        BY <1>1, <2>2, <2>4
      <4>2. QED
        BY <4>1, LeastNumber
    <3>2. PICK x \in Z : \A d \in Z : key[x] <= key[d]
      BY <3>1
    <3> DEFINE Y == Z \ {x}
    <3>3. \A d \in Y : key[x] < key[d]
      BY <1>1, <2>2, <3>2
    <3>4. Cardinality(Y) = Cardinality(Z) - 1 /\ IsFiniteSet(Y)
      BY <2>2, FS_RemoveElement
    <3>5. PICK t : Enumerates(t, Y, key)
      BY <2>1, <2>2
    <3> DEFINE s == [i \in 1..Cardinality(Z) |-> IF i = 1 THEN x ELSE t[i - 1]]
               k == Cardinality(Y)
    <3>6. /\ k \in Nat /\ Cardinality(Z) = k + 1 /\ DOMAIN t = 1..k
          /\ \A i \in 1..k : t[i] \in Y
          /\ \A y \in Y : \E i \in 1..k : t[i] = y
          /\ \A i, j \in 1..k : i < j => key[t[i]] < key[t[j]]
      <4>1. k \in Nat /\ Cardinality(Z) = k + 1
        BY <2>2, <3>4, FS_CardinalityType
      <4> HIDE DEF Y
      <4>2. t \in [1..k -> Y] /\ Range(t) = Y
        BY <3>5 DEF Enumerates
      <4>3. \A i, j \in DOMAIN t : i < j => key[t[i]] < key[t[j]]
        BY <3>5 DEF Enumerates
      <4> HIDE DEF k
      <4>4. \A y \in Y : \E i \in 1..k : t[i] = y
        BY <4>2 DEF Range
      <4>5. QED
        BY <4>1, <4>2, <4>3, <4>4
    <3> HIDE DEF Y, k
    <3>7. /\ s[1] = x /\ \A i \in 2..k + 1 : s[i] = t[i - 1] /\ i - 1 \in 1..k
          /\ DOMAIN s = 1..k + 1
      BY <3>6
    <3> HIDE DEF s
    <3>8. s \in [1..Cardinality(Z) -> Z]
      BY <3>6, <3>7 DEF s, Y
    <3>9. Range(s) = Z
      <4>1. \A y \in Z : \E i \in 1..k + 1 : s[i] = y
        <5>1. SUFFICES ASSUME NEW y \in Z, y # x PROVE \E i \in 1..k + 1 : s[i] = y
          BY <3>6, <3>7
        <5>2. PICK i \in 1..k : t[i] = y
          BY <3>6, <5>1 DEF Y
        <5>3. i + 1 \in 2..k + 1 /\ (i + 1) - 1 = i
          BY <3>6
        <5>4. s[i + 1] = y
          BY <3>7, <5>2, <5>3
        <5>5. QED
          BY <3>6, <5>3, <5>4
      <4>2. QED
        BY <3>6, <3>7, <3>8, <4>1 DEF Range
    <3>10. \A i, j \in DOMAIN s : i < j => key[s[i]] < key[s[j]]
      <4>1. SUFFICES ASSUME NEW i \in 1..k + 1, NEW j \in 1..k + 1, i < j
                     PROVE  key[s[i]] < key[s[j]]
        BY <3>7
      <4>2. j \in 2..k + 1
        BY <3>6, <4>1
      <4>3. CASE i = 1
        BY <3>3, <3>6, <3>7, <4>2, <4>3
      <4>4. CASE i # 1
        <5>1. i \in 2..k + 1 /\ i - 1 < j - 1
          BY <3>6, <4>1, <4>4
        <5>2. QED
          BY SMTT(30), <3>6, <3>7, <4>2, <5>1
      <4>5. QED
        BY <4>3, <4>4
    <3>11. Enumerates(s, Z, key)
      BY <3>8, <3>9, <3>10 DEF Enumerates
    <3>12. QED
      BY <2>1, <3>11
  <2>5. QED
    BY <2>3, <2>4
<1>4. D \notin Bad
  BY <1>3
<1>5. QED
  BY <1>4 DEF D

\* What ORDER BY returns when no two keys are the same: everything once, by
\* growing key.
LEMMA SortedByKey ==
  ASSUME NEW key, IsFiniteSet(DOMAIN key),
         \A d \in DOMAIN key : key[d] \in Nat,
         \A d, e \in DOMAIN key : d # e => key[d] # key[e]
  PROVE  /\ Enumerates(SortedBy(key), DOMAIN key, key)
         /\ SortedBy(key) \in Seq(DOMAIN key)
         /\ Len(SortedBy(key)) = Cardinality(DOMAIN key)
         /\ \A i, j \in DOMAIN SortedBy(key) : i # j => SortedBy(key)[i] # SortedBy(key)[j]
<1> DEFINE D == DOMAIN key
           s == SortedBy(key)
<1>1. PICK t : Enumerates(t, D, key)
  BY EnumerationExists
<1>2. Enumerates(s, D, key)
  BY <1>1 DEF SortedBy, Enumerates
<1>3. Cardinality(D) \in Nat
  BY FS_CardinalityType
<1> HIDE DEF D, s
<1>4. s \in [1..Cardinality(D) -> D]
  BY <1>2 DEF Enumerates
<1>5. s \in Seq(D) /\ Len(s) = Cardinality(D)
  BY <1>3, <1>4
<1>6. ASSUME NEW i \in DOMAIN s, NEW j \in DOMAIN s, i # j PROVE s[i] # s[j]
  <2>1. i \in Int /\ j \in Int
    BY <1>3, <1>4
  <2>2. i < j \/ j < i
    BY <1>6, <2>1
  <2>3. key[s[i]] < key[s[j]] \/ key[s[j]] < key[s[i]]
    BY <1>2, <2>2 DEF Enumerates
  <2>4. key[s[i]] \in Nat /\ key[s[j]] \in Nat
    BY <1>4 DEF D
  <2>5. QED
    BY <2>3, <2>4
<1>7. QED
  BY <1>2, <1>5, <1>6 DEF D, s
-------------------------------------------------------------------------------
(* Pages.  table is any finite table whose rows have numbers of their own,  *)
(* but for those that do not exist, which have 0.                           *)

Numbered(table) ==
  /\ IsFiniteSet(DOMAIN table)
  /\ \A d \in DOMAIN table : table[d].seq \in Nat
  /\ \A d, e \in DOMAIN table : (d # e /\ table[d].seq > 0) => table[d].seq # table[e].seq

Item(table, d) == [id |-> d, rec |-> table[d]]

\* page is the first k of the rows after since, feed, in their order.
CutFrom(page, feed, k, table, since, limit) ==
  /\ k <= Len(feed) /\ k <= limit /\ (k = 0 => feed = <<>>)
  /\ \A d \in DOMAIN table : table[d].seq > since <=> \E i \in DOMAIN feed : feed[i] = d
  /\ \A i, j \in DOMAIN feed : i < j => table[feed[i]].seq < table[feed[j]].seq
  /\ page.items = [i \in 1..k |-> Item(table, feed[i])]
  /\ page.next = IF k = 0 THEN since ELSE table[feed[k]].seq
  /\ page.more = (Len(feed) > k)

\* Every page is cut from its feed.
LEMMA FeedAndPage ==
  ASSUME NEW table, Numbered(table), NEW since \in Nat, NEW limit \in Nat \ {0}
  PROVE  \E feed \in Seq(DOMAIN table), k \in Nat :
           CutFrom(Changes(table, since, limit), feed, k, table, since, limit)
<1> DEFINE After == {d \in DOMAIN table : table[d].seq > since}
           key   == [d \in After |-> table[d].seq]
           feed  == SortedBy(key)
           k     == IF Len(feed) > limit THEN limit ELSE Len(feed)
           cut   == SubSeq(feed, 1, k)
           page  == Changes(table, since, limit)
<1>1. /\ DOMAIN key = After
      /\ \A d \in After : key[d] = table[d].seq /\ key[d] \in Nat
      /\ \A d, e \in After : d # e => key[d] # key[e]
  BY DEF Numbered
<1>2. IsFiniteSet(After)
  BY FS_Subset DEF Numbered
<1>3. page = [items |-> [i \in DOMAIN cut |-> Item(table, cut[i])],
              next  |-> NextSince(table, cut, since),
              more  |-> Len(feed) > limit]
  BY DEF Changes, Item
<1> HIDE DEF After, key, page
<1>4. /\ Enumerates(feed, After, key) /\ feed \in Seq(After) /\ Len(feed) = Cardinality(After)
  BY <1>1, <1>2, SortedByKey
<1> HIDE DEF feed
<1>5. /\ Range(feed) = After /\ \A i, j \in DOMAIN feed : i < j => key[feed[i]] < key[feed[j]]
      /\ DOMAIN feed = 1..Len(feed) /\ Len(feed) \in Nat
      /\ \A i \in DOMAIN feed : feed[i] \in After
  BY <1>4 DEF Enumerates
<1>6. k \in Nat /\ k <= Len(feed) /\ k <= limit /\ (k = 0 => Len(feed) = 0)
      /\ (Len(feed) > limit <=> Len(feed) > k)
  BY <1>5
<1> HIDE DEF k
<1>7. /\ cut \in Seq(After) /\ Len(cut) = k /\ DOMAIN cut = 1..k
      /\ \A i \in 1..k : cut[i] = feed[i]
  BY <1>4, <1>5, <1>6
<1> HIDE DEF cut
<1>8. page.items = [i \in 1..k |-> Item(table, feed[i])]
  BY <1>3, <1>7
<1>9. page.next = IF k = 0 THEN since ELSE table[feed[k]].seq
  <2>1. cut = <<>> <=> k = 0
    BY <1>6, <1>7
  <2>2. k # 0 => Last(cut) = feed[k]
    BY <1>6, <1>7 DEF Last
  <2>3. page.next = NextSince(table, cut, since)
    BY <1>3
  <2>4. QED
    BY <2>1, <2>2, <2>3 DEF NextSince
<1>10. page.more = (Len(feed) > k)
  BY <1>3, <1>6
<1>11. \A d \in DOMAIN table : table[d].seq > since <=> \E i \in DOMAIN feed : feed[i] = d
  BY <1>5 DEF Range, After
<1>12. \A i, j \in DOMAIN feed : i < j => table[feed[i]].seq < table[feed[j]].seq
  BY <1>1, <1>5
<1>13. feed \in Seq(DOMAIN table) /\ (k = 0 => feed = <<>>)
  BY <1>4, <1>6 DEF After
<1>14. QED
  BY <1>6, <1>8, <1>9, <1>10, <1>11, <1>12, <1>13 DEF page, CutFrom

\* The rows between the cursor and the page's next cursor are its items, each
\* once and as they are in the table; the next cursor is not behind, and is the
\* end of the feed if there is no more.
Complete(page, table, since) ==
  /\ page.items \in Seq({Item(table, d) : d \in DOMAIN table})
  /\ \A i, j \in DOMAIN page.items : i # j => page.items[i].id # page.items[j].id
  /\ \A i \in DOMAIN page.items : /\ page.items[i].rec.seq > since
                                  /\ page.items[i].rec.seq <= page.next
  /\ \A d \in DOMAIN table : (since < table[d].seq /\ table[d].seq <= page.next)
       => \E i \in DOMAIN page.items : page.items[i] = Item(table, d)
  /\ page.next \in Nat /\ page.next >= since
  /\ page.next = since \/ \E d \in DOMAIN table : page.next = table[d].seq
  /\ page.more \in BOOLEAN
  /\ ~page.more => \A d \in DOMAIN table : table[d].seq <= page.next

\* A page of the change feed moves the cursor over no row that it does not
\* hold, however many rows there are and however short the page is.
THEOREM PageIsComplete ==
  ASSUME NEW table, Numbered(table), NEW since \in Nat, NEW limit \in Nat \ {0}
  PROVE  Complete(Changes(table, since, limit), table, since)
<1> DEFINE page == Changes(table, since, limit)
<1>1. PICK feed \in Seq(DOMAIN table), k \in Nat : CutFrom(page, feed, k, table, since, limit)
  BY FeedAndPage
<1> HIDE DEF page
<1>2. /\ k <= Len(feed) /\ (k = 0 => feed = <<>>)
      /\ \A d \in DOMAIN table : table[d].seq > since <=> \E i \in DOMAIN feed : feed[i] = d
      /\ \A i, j \in DOMAIN feed : i < j => table[feed[i]].seq < table[feed[j]].seq
      /\ page.items = [i \in 1..k |-> Item(table, feed[i])]
      /\ page.next = IF k = 0 THEN since ELSE table[feed[k]].seq
      /\ page.more = (Len(feed) > k)
  BY <1>1 DEF CutFrom
<1>3. /\ DOMAIN feed = 1..Len(feed) /\ Len(feed) \in Nat
      /\ \A i \in DOMAIN feed : feed[i] \in DOMAIN table /\ table[feed[i]].seq \in Nat
      /\ \A d \in DOMAIN table : table[d].seq \in Nat
      /\ \A i \in 1..k : i \in DOMAIN feed
  BY <1>2 DEF Numbered
<1>4. DOMAIN page.items = 1..k /\ \A i \in 1..k : /\ page.items[i] = Item(table, feed[i])
                                                  /\ page.items[i].id = feed[i]
                                                  /\ page.items[i].rec = table[feed[i]]
  BY <1>2 DEF Item
<1>5. page.items \in Seq({Item(table, d) : d \in DOMAIN table})
  BY <1>2, <1>3
<1>6. ASSUME NEW i \in 1..k, NEW j \in 1..k, i # j PROVE feed[i] # feed[j]
  <2>1. i < j \/ j < i
    BY <1>6
  <2>2. i \in DOMAIN feed /\ j \in DOMAIN feed
    BY <1>3
  <2>3. table[feed[i]].seq < table[feed[j]].seq \/ table[feed[j]].seq < table[feed[i]].seq
    BY <1>2, <2>1, <2>2
  <2>4. table[feed[i]].seq \in Nat /\ table[feed[j]].seq \in Nat
    BY <1>3, <2>2
  <2>5. QED
    BY <2>3, <2>4
<1>7. ASSUME NEW i \in 1..k PROVE k \in 1..k /\ table[feed[i]].seq <= table[feed[k]].seq
  <2>1. k \in 1..k /\ (i = k \/ i < k)
    OBVIOUS
  <2>2. i < k => table[feed[i]].seq < table[feed[k]].seq
    BY <1>2, <1>3, <2>1
  <2>3. table[feed[i]].seq \in Nat /\ table[feed[k]].seq \in Nat
    BY <1>3, <2>1
  <2>4. QED
    BY <2>1, <2>2, <2>3
<1>8. \A i \in 1..k : table[feed[i]].seq > since /\ table[feed[i]].seq <= page.next
  <2>1. SUFFICES ASSUME NEW i \in 1..k
                 PROVE  table[feed[i]].seq > since /\ table[feed[i]].seq <= page.next
    OBVIOUS
  <2>2. k # 0 /\ i \in DOMAIN feed /\ feed[i] \in DOMAIN table
    BY <1>3
  <2>3. QED
    BY <1>2, <1>7, <2>2
<1>9. /\ page.next \in Nat /\ page.next >= since
      /\ page.next = since \/ \E d \in DOMAIN table : page.next = table[d].seq
  <2>1. CASE k = 0
    BY <1>2, <2>1
  <2>2. CASE k # 0
    <3>1. k \in 1..k /\ page.next = table[feed[k]].seq /\ feed[k] \in DOMAIN table
      BY <1>2, <1>3, <2>2
    <3>2. QED
      BY <1>3, <1>8, <3>1
  <2>3. QED
    BY <2>1, <2>2
<1>10. ASSUME NEW d \in DOMAIN table, since < table[d].seq, table[d].seq <= page.next
       PROVE  \E i \in 1..k : page.items[i] = Item(table, d)
  <2>1. k # 0
    BY <1>2, <1>3, <1>10
  <2>2. PICK i \in DOMAIN feed : feed[i] = d
    BY <1>2, <1>3, <1>10
  <2>3. ~(k < i)
    <3>1. SUFFICES ASSUME k < i PROVE FALSE
      OBVIOUS
    <3>2. k \in DOMAIN feed /\ page.next = table[feed[k]].seq
      BY <1>2, <1>3, <2>1
    <3>3. table[feed[k]].seq < table[d].seq
      BY <1>2, <2>2, <3>1, <3>2
    <3>4. QED
      BY <1>3, <1>9, <1>10, <3>2, <3>3
  <2>4. i \in 1..k
    BY <1>3, <2>2, <2>3
  <2>5. QED
    BY <1>4, <2>2, <2>4
<1>11. ~page.more => \A d \in DOMAIN table : table[d].seq <= page.next
  <2>1. SUFFICES ASSUME ~page.more, NEW d \in DOMAIN table, ~(table[d].seq <= page.next)
                 PROVE  FALSE
    OBVIOUS
  <2>2. table[d].seq > since
    BY <1>3, <1>9, <2>1
  <2>3. PICK i \in DOMAIN feed : feed[i] = d
    BY <1>2, <2>2
  <2>4. i \in 1..k
    <3>1. ~(Len(feed) > k)
      BY <1>2, <2>1, Zenon
    <3>2. QED
      BY <1>2, <1>3, <2>3, <3>1
  <2>5. table[d].seq <= page.next
    BY <1>8, <2>3, <2>4
  <2>6. QED
    BY <1>3, <1>9, <2>1, <2>5
<1>12. page.more \in BOOLEAN
  BY <1>2
<1>13. \A i, j \in DOMAIN page.items : i # j => page.items[i].id # page.items[j].id
  BY <1>4, <1>6
<1>14. \A i \in DOMAIN page.items : /\ page.items[i].rec.seq > since
                                    /\ page.items[i].rec.seq <= page.next
  BY <1>4, <1>8
<1>15. \A d \in DOMAIN table : (since < table[d].seq /\ table[d].seq <= page.next)
         => \E i \in DOMAIN page.items : page.items[i] = Item(table, d)
  BY <1>4, <1>10
<1>16. Complete(page, table, since)
  BY <1>5, <1>9, <1>11, <1>12, <1>13, <1>14, <1>15 DEF Complete
<1>17. QED
  BY <1>16 DEF page

\* A sequence over a set is one over every larger set.
LEMMA SeqMonotone ==
  ASSUME NEW S, NEW T, \A x \in S : x \in T, NEW s \in Seq(S)
  PROVE  s \in Seq(T)
<1>1. s \in [1..Len(s) -> T] /\ Len(s) \in Nat
  OBVIOUS
<1>2. QED
  BY <1>1
===============================================================================
