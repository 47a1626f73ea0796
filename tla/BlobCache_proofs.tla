--------------------------- MODULE BlobCache_proofs ---------------------------
(***************************************************************************)
(* Theorems about BlobCache: the cache table matches the files on the      *)
(* disk, the only copy of a document is whole, the index tells the truth,  *)
(* and a document that is opened is there unless for a reason named, for   *)
(* any documents, sizes and limits and any number of kills and power       *)
(* losses.                                                                 *)
(***************************************************************************)
EXTENDS BlobCache, BlobStream_proofs, FiniteSetTheorems, TLAPS

\* What an operation can be doing at each place, and what it knows of its
\* document: the vault slot keeps every other one away.
Filling == {"open", "copy", "prefetch"}

OpOK ==
  /\ op.pc = "off" => op = Off
  /\ op.pc = "idle" => op = Idle
  /\ op.pc \in {"fetch", "enter"} => op.why \in Filling
  /\ op.pc \in {"read", "opened"} => op.why \in {"open", "copy"}
  /\ op.pc \in {"write", "record"} => op.why = "add" /\ row[op.doc] = "none" /\ op.doc \notin stored
  /\ op.pc = "overwrite" => op.why = "tombstone"
  /\ op.pc = "prefetch" => op.why = "prefetch"
  /\ op.pc = "evict" => op.why \in Filling \cup {"add", "limit"}
  /\ op.pc = "unlink" => /\ op.why \in Filling \cup {"add", "limit", "tombstone"}
                         /\ op.victim \in Docs \ Cached
  /\ (op.pc \notin {"off", "idle", "prefetch"} /\ op.why # "limit") => op.doc \in Docs
  /\ op.why = "open" => Live(op.doc)
  /\ op.why = "prefetch" => \A i \in DOMAIN op.queue : Live(op.queue[i])
  /\ (op.why = "prefetch" /\ op.pc # "prefetch") => Live(op.doc) /\ op.queue # <<>>
  /\ (op.why = "add" /\ op.pc \in {"evict", "unlink"}) => row[op.doc] = "new" /\ op.doc \notin stored
  /\ (op.why = "tombstone" /\ op.pc = "unlink") => op.victim = op.doc

\* Files appear before their rows in the table, and go after them; a file whose
\* name is lost is read only once it was downloaded again.
FilesOK ==
  /\ \A d \in Cached : file[d] # NoFile \/ d \in lost
  /\ \A d \in lost : file[d] = NoFile
  /\ crashes = 0 => lost = {}
  /\ (op.pc \in {"evict", "unlink", "read", "opened"} /\ op.why \in {"open", "copy"} /\ op.doc \in Cached)
       => file[op.doc] # NoFile
  /\ crashes = 0 => \A d \in Docs : file[d] # NoFile =>
       /\ file[d] = Size(d)
       /\ \/ d \in Cached
          \/ op.pc \in {"enter", "record"} /\ d = op.doc
          \/ op.pc = "unlink" /\ d = op.victim
  /\ op.pc \in {"enter", "record"} => file[op.doc] = Size(op.doc)
  /\ op.pc = "record" => op.doc \in synced

\* The only copy of a document is flushed, and what the server has was recorded
\* here before it was pushed from here.
UnsentOK ==
  /\ UnsentIsWhole
  /\ \A d \in Docs : (row[d] = "new" /\ d \notin stored) => d \in synced \/ d \in lost
  /\ \A d \in stored : row[d] = "none" => d \in Remote

\* The index lags behind within an operation only.
IndexOK ==
  op.pc # "off" => \A d \in Docs :
    /\ \/ index[d] # "absent" <=> Live(d)
       \/ op.why = "add" /\ op.pc \in {"evict", "unlink"} /\ d = op.doc
    /\ index[d] = "cached" => \/ d \in Cached
                              \/ op.pc = "unlink" /\ d = op.victim
                              \/ op.pc = "overwrite" /\ d = op.doc

\* The total that is counted down is what the table adds up to.
TotalOK ==
  /\ op.pc = "evict" => op.total = TotalSize(Cached)
  /\ (op.pc = "unlink" /\ op.why # "tombstone") => op.total = TotalSize(Cached) + Size(op.victim)

\* Nothing that may go is left, and the document does not fit.
NoRoom == /\ \A d \in Cached : ~Evictable(d)
          /\ TotalSize(Cached) + Size(op.doc) > limit

\* The document just downloaded is the last to go.
RoomOK ==
  /\ (op.pc \in {"evict", "unlink"} /\ op.why \in {"open", "copy"} /\ op.doc \in Cached)
       => op.doc = table[Len(table)]
  /\ (op.pc \in {"evict", "unlink", "read", "opened"} /\ op.why \in {"open", "copy"} /\ op.doc \notin Cached)
       => NoRoom

IInv == TypeOK /\ OpOK /\ FilesOK /\ UnsentOK /\ IndexOK /\ TotalOK /\ RoomOK
-------------------------------------------------------------------------------
(* The table *)

\* A table lists every blob once.
Table == {t \in Seq(Docs) : IsInjective(t)}

LEMMA RemovedAt ==
  ASSUME NEW t \in Seq(Docs), NEW i \in 1..Len(t)
  PROVE  /\ RemoveAt(t, i) \in Seq(Docs) /\ Len(RemoveAt(t, i)) = Len(t) - 1
         /\ \A k \in 1..Len(t) - 1 : RemoveAt(t, i)[k] = IF k < i THEN t[k] ELSE t[k + 1]
<1>1. /\ SubSeq(t, 1, i - 1) \in Seq(Docs) /\ Len(SubSeq(t, 1, i - 1)) = i - 1
      /\ \A k \in 1..i - 1 : SubSeq(t, 1, i - 1)[k] = t[k]
  OBVIOUS
<1>2. /\ SubSeq(t, i + 1, Len(t)) \in Seq(Docs) /\ Len(SubSeq(t, i + 1, Len(t))) = Len(t) - i
      /\ \A k \in 1..Len(t) - i : SubSeq(t, i + 1, Len(t))[k] = t[i + k]
  OBVIOUS
<1>3. PICK a, b : a = SubSeq(t, 1, i - 1) /\ b = SubSeq(t, i + 1, Len(t))
  OBVIOUS
<1>4. /\ a \in Seq(Docs) /\ b \in Seq(Docs) /\ Len(a) = i - 1 /\ Len(b) = Len(t) - i
      /\ i \in Nat /\ Len(t) \in Nat /\ i <= Len(t)
      /\ \A k \in 1..i - 1 : a[k] = t[k]
      /\ \A k \in 1..Len(t) - i : b[k] = t[i + k]
  BY <1>1, <1>2, <1>3
<1>5. PICK n : n = Len(t) /\ n \in Nat /\ i <= n
  BY <1>4
<1>6. a \o b \in Seq(Docs) /\ Len(a \o b) = n - 1
  <2>1. a \in Seq(Docs) /\ b \in Seq(Docs)
    BY <1>4
  <2>2. a \o b \in Seq(Docs) /\ Len(a \o b) = Len(a) + Len(b)
    BY <2>1
  <2>3. QED
    BY <1>4, <1>5, <2>2
<1>7. ASSUME NEW k \in 1..n - 1 PROVE (a \o b)[k] = IF k < i THEN t[k] ELSE t[k + 1]
  <2>1. CASE k < i
    <3>1. (a \o b)[k] = a[k]
      BY <1>4, <1>5, <2>1
    <3>2. QED
      BY <1>4, <1>5, <2>1, <3>1
  <2>2. CASE ~(k < i)
    <3>1. (a \o b)[k] = b[k - (i - 1)] /\ k - (i - 1) \in 1..n - i
      BY <1>4, <1>5, <2>2
    <3>2. i + (k - (i - 1)) = k + 1
      BY <1>4
    <3>3. QED
      BY <1>4, <1>5, <2>2, <3>1, <3>2
  <2>3. QED
    BY <2>1, <2>2
<1>8. QED
  BY <1>3, <1>5, <1>6, <1>7 DEF RemoveAt

\* What is left when a blob leaves the table; the last one stays last.
LEMMA TableWithout ==
  ASSUME NEW t \in Table, NEW d
  PROVE  /\ Without(t, d) \in Table /\ ToSet(Without(t, d)) = ToSet(t) \ {d}
         /\ (t # <<>> /\ t[Len(t)] # d)
              => Without(t, d) # <<>> /\ Without(t, d)[Len(Without(t, d))] = t[Len(t)]
<1>0. t \in Seq(Docs) /\ Len(t) \in Nat /\ DOMAIN t = 1..Len(t) /\ \A i, k \in 1..Len(t) : t[i] = t[k] => i = k
  BY DEF Table, IsInjective
<1>1. CASE ~Contains(t, d)
  <2>1. Without(t, d) = t
    BY <1>1 DEF Without
  <2>2. d \notin ToSet(t)
    BY <1>0, <1>1 DEF Contains, ToSet
  <2>3. QED
    BY <2>1, <2>2
<1>2. CASE Contains(t, d)
  <2>1. PICK i \in 1..Len(t) : t[i] = d /\ Without(t, d) = RemoveAt(t, i)
    BY <1>0, <1>2 DEF Without, Contains
  <2>2. PICK u : u = RemoveAt(t, i)
    OBVIOUS
  <2>3. /\ u \in Seq(Docs) /\ Len(u) = Len(t) - 1 /\ DOMAIN u = 1..Len(t) - 1
        /\ \A k \in 1..Len(t) - 1 : u[k] = IF k < i THEN t[k] ELSE t[k + 1]
    <3>1. /\ u \in Seq(Docs) /\ Len(u) = Len(t) - 1
          /\ \A k \in 1..Len(t) - 1 : u[k] = IF k < i THEN t[k] ELSE t[k + 1]
      BY <1>0, <2>2, RemovedAt
    <3>2. QED
      BY <3>1
  <2>4. IsInjective(u)
    <3> SUFFICES ASSUME NEW k \in 1..Len(t) - 1, NEW l \in 1..Len(t) - 1, u[k] = u[l] PROVE k = l
      BY <2>3 DEF IsInjective
    <3>1. k + 1 \in 1..Len(t) /\ l + 1 \in 1..Len(t) /\ k \in 1..Len(t) /\ l \in 1..Len(t)
      BY <1>0
    <3>2. QED
      BY <1>0, <2>3, <3>1
  <2>5. ASSUME NEW e \in ToSet(u) PROVE e \in ToSet(t) \ {d}
    <3>1. PICK k \in 1..Len(t) - 1 : u[k] = e
      BY <2>3, <2>5 DEF ToSet
    <3>2. k + 1 \in 1..Len(t) /\ k \in 1..Len(t)
      BY <1>0
    <3>3. QED
      BY <1>0, <2>1, <2>3, <3>1, <3>2 DEF ToSet
  <2>6. ASSUME NEW e \in ToSet(t) \ {d} PROVE e \in ToSet(u)
    <3>1. PICK k \in 1..Len(t) : t[k] = e /\ k # i
      BY <1>0, <2>1, <2>6 DEF ToSet
    <3>2. CASE k < i
      BY <1>0, <2>3, <3>1, <3>2 DEF ToSet
    <3>3. CASE k > i
      <4>1. k - 1 \in 1..Len(t) - 1 /\ u[k - 1] = t[k]
        BY <1>0, <2>3, <3>1, <3>3
      <4>2. QED
        BY <2>3, <3>1, <4>1 DEF ToSet
    <3>4. QED
      BY <3>1, <3>2, <3>3
  <2>7. (t # <<>> /\ t[Len(t)] # d) => u # <<>> /\ u[Len(u)] = t[Len(t)]
    <3> SUFFICES ASSUME t[Len(t)] # d PROVE u # <<>> /\ u[Len(u)] = t[Len(t)]
      OBVIOUS
    <3>1. i < Len(t)
      BY <1>0, <2>1
    <3>2. Len(t) - 1 \in 1..Len(t) - 1 /\ ~(Len(t) - 1 < i)
      BY <1>0, <3>1
    <3>3. QED
      BY <1>0, <2>3, <3>2
  <2>8. ToSet(u) = ToSet(t) \ {d}
    BY <2>5, <2>6
  <2>9. QED
    BY <2>1, <2>2, <2>3, <2>4, <2>7, <2>8 DEF Table
<1>3. QED
  BY <1>1, <1>2

\* A blob that is put into the table is there, and the last.
LEMMA TablePut ==
  ASSUME NEW t \in Table, NEW d \in Docs
  PROVE  /\ Put(t, d) \in Table /\ ToSet(Put(t, d)) = ToSet(t) \cup {d}
         /\ Put(t, d) # <<>> /\ Put(t, d)[Len(Put(t, d))] = d
<1>1. PICK u : u = Without(t, d)
  OBVIOUS
<1>2. u \in Seq(Docs) /\ IsInjective(u) /\ ToSet(u) = ToSet(t) \ {d}
  BY <1>1, TableWithout DEF Table
<1>3. PICK p : p = Append(u, d)
  OBVIOUS
<1>4. /\ p \in Seq(Docs) /\ Len(p) = Len(u) + 1 /\ Len(u) \in Nat /\ p[Len(p)] = d
      /\ \A k \in 1..Len(u) : p[k] = u[k]
      /\ DOMAIN p = 1..Len(u) + 1 /\ DOMAIN u = 1..Len(u)
  BY <1>2, <1>3
<1>5. d \notin ToSet(u)
  BY <1>2
<1>6. \A k \in 1..Len(u) : u[k] # d
  BY <1>4, <1>5 DEF ToSet
<1>7. IsInjective(p)
  BY <1>2, <1>4, <1>6 DEF IsInjective
<1>8. ToSet(p) = ToSet(u) \cup {d}
  BY <1>4 DEF ToSet
<1>9. QED
  BY <1>1, <1>2, <1>3, <1>4, <1>7, <1>8 DEF Put, Table
-------------------------------------------------------------------------------
(* Sizes *)

LEMMA SizeType ==
  ASSUME NEW d \in Docs PROVE Size(d) \in Nat /\ Size(d) > 0
<1>1. /\ d \in Blobs /\ PlainLen[d] \in Nat
      /\ ChunkSize \in Nat /\ ChunkSize > 0 /\ TagLen \in Nat /\ TagLen > 0 /\ HeaderLen \in Nat /\ HeaderLen > 0
  BY DocsAreBlobs, SizesArePositive, LengthsAreNaturals
<1>2. PlainLen[d] \div ChunkSize \in Nat
  BY <1>1
<1>3. PICK n \in Nat : n = PlainLen[d] \div ChunkSize + 1
  BY <1>2
<1>4. TagLen * n \in Nat
  BY <1>1
<1>5. QED
  BY <1>1, <1>3, <1>4 DEF Size

\* The bytes of the files of some documents.
BytesIn(docs) == UNION {{d} \X (1..Size(d)) : d \in docs}

LEMMA BytesOfOne ==
  ASSUME NEW d \in Docs
  PROVE  IsFiniteSet({d} \X (1..Size(d))) /\ Cardinality({d} \X (1..Size(d))) = Size(d)
<1>1. IsFiniteSet({d}) /\ Cardinality({d}) = 1
  BY FS_Singleton
<1>2. Size(d) \in Nat /\ Size(d) > 0
  BY SizeType
<1>3. IsFiniteSet(1..Size(d)) /\ Cardinality(1..Size(d)) = Size(d)
  BY <1>2, FS_Interval
<1>4. PICK n, T : n = Size(d) /\ T = 1..Size(d)
  OBVIOUS
<1>5. IsFiniteSet({d} \X T) /\ Cardinality({d} \X T) = Cardinality({d}) * Cardinality(T)
  BY <1>1, <1>3, <1>4, FS_Product
<1>6. n \in Nat /\ Cardinality({d} \X T) = 1 * n
  BY <1>1, <1>2, <1>3, <1>4, <1>5
<1>7. 1 * n = n
  BY <1>6
<1>8. QED
  BY <1>4, <1>5, <1>6, <1>7

LEMMA BytesFinite ==
  ASSUME NEW S \in SUBSET Docs
  PROVE  IsFiniteSet(BytesIn(S)) /\ TotalSize(S) \in Nat /\ TotalSize(S) = Cardinality(BytesIn(S))
<1>1. IsFiniteSet(S)
  BY DocsAreFinite, FS_Subset
<1>2. IsFiniteSet({{d} \X (1..Size(d)) : d \in S})
  <2>1. PICK f : f = [d \in S |-> {d} \X (1..Size(d))]
    OBVIOUS
  <2>2. f \in Surjection(S, {{d} \X (1..Size(d)) : d \in S})
    BY <2>1 DEF Surjection
  <2>3. QED
    BY <1>1, <2>2, FS_Surjection
<1>3. \A x \in {{d} \X (1..Size(d)) : d \in S} : IsFiniteSet(x)
  BY BytesOfOne
<1>4. IsFiniteSet(BytesIn(S))
  BY <1>2, <1>3, FS_UNION DEF BytesIn
<1>5. QED
  BY <1>4, FS_CardinalityType DEF TotalSize, BytesIn

\* A document adds its size.
LEMMA TotalAdds ==
  ASSUME NEW S \in SUBSET Docs, NEW d \in Docs, d \notin S
  PROVE  /\ TotalSize(S) \in Nat /\ TotalSize(S \cup {d}) = TotalSize(S) + Size(d)
<1>1. S \cup {d} \in SUBSET Docs
  OBVIOUS
<1>2. BytesIn(S \cup {d}) = BytesIn(S) \cup ({d} \X (1..Size(d)))
  BY DEF BytesIn
<1>3. BytesIn(S) \cap ({d} \X (1..Size(d))) = {}
  BY DEF BytesIn
<1>4. Cardinality(BytesIn(S) \cap ({d} \X (1..Size(d)))) = 0
  BY <1>3, FS_EmptySet
<1>5. /\ IsFiniteSet(BytesIn(S)) /\ TotalSize(S) \in Nat /\ TotalSize(S) = Cardinality(BytesIn(S))
      /\ TotalSize(S \cup {d}) = Cardinality(BytesIn(S \cup {d}))
  BY <1>1, BytesFinite
<1>6. Cardinality(BytesIn(S) \cup ({d} \X (1..Size(d))))
        = Cardinality(BytesIn(S)) + Cardinality({d} \X (1..Size(d)))
            - Cardinality(BytesIn(S) \cap ({d} \X (1..Size(d))))
  BY <1>5, BytesOfOne, FS_Union
<1>7. PICK n : n = Size(d) /\ n \in Nat
  BY SizeType
<1>8. Cardinality({d} \X (1..Size(d))) = n
  BY <1>7, BytesOfOne
<1>9. Cardinality(BytesIn(S \cup {d})) = Cardinality(BytesIn(S)) + n - 0
  BY <1>2, <1>4, <1>6, <1>8
<1>10. PICK m : m = TotalSize(S) /\ m \in Nat
  BY <1>5
<1>11. TotalSize(S \cup {d}) = m + n
  BY <1>5, <1>7, <1>9, <1>10
<1>12. QED
  BY <1>7, <1>10, <1>11
-------------------------------------------------------------------------------
(* Steps that only move the operation along *)

LEMMA RestingOps ==
  /\ Idle \in Operation /\ Idle.pc = "idle" /\ Idle.why = "none" /\ Idle.queue = <<>>
  /\ Off \in Operation /\ Off.pc = "off" /\ Off.why = "none" /\ Off.queue = <<>>
<1>1. <<>> \in Seq(Docs) /\ 0 \in Nat /\ NoDoc \in Docs \cup {NoDoc}
  OBVIOUS
<1>2. {"idle", "off"} \subseteq Places /\ "none" \in Reasons
  BY DEF Places, Reasons
<1>3. Idle \in Operation
  BY <1>1, <1>2 DEF Idle, Operation
<1>4. Off = [pc |-> "off", why |-> "none", doc |-> NoDoc, from |-> NoDoc, queue |-> <<>>,
             total |-> 0, victim |-> NoDoc]
  BY DEF Off, Idle
<1>5. Off \in Operation
  BY <1>1, <1>2, <1>4 DEF Operation
<1>6. QED
  BY <1>3, <1>4, <1>5 DEF Idle

\* The operation ends, or the process does.
LEMMA Rests ==
  ASSUME IInv, UNCHANGED <<disk, stored>>, op' \in {Idle, Off},
         crashes' \in 0..MaxCrashes, crashes' # 0 \/ crashes = 0,
         crashes' = 0 => op.pc \notin {"enter", "record", "unlink"},
         index' \in [Docs -> {"absent", "cached", "uncached"}],
         op' = Idle => \A d \in Docs : /\ index'[d] # "absent" <=> Live(d)
                                       /\ index'[d] = "cached" => d \in Cached
  PROVE  IInv'
<1>1. /\ row' = row /\ keep' = keep /\ table' = table /\ limit' = limit /\ file' = file
      /\ synced' = synced /\ named' = named /\ lost' = lost /\ stored' = stored
  BY DEF disk
<1>2. op' \in Operation /\ op'.pc \in {"idle", "off"} /\ op'.why = "none"
  BY RestingOps
<1>3. TypeOK'
  BY <1>1, <1>2 DEF IInv, TypeOK
<1>4. OpOK'
  BY <1>1, <1>2, RestingOps DEF OpOK
<1>5. FilesOK'
  BY <1>1, <1>2 DEF IInv, FilesOK, Cached
<1>6. UnsentOK'
  BY <1>1, <1>2 DEF IInv, UnsentOK, UnsentIsWhole, Cached
<1>7. IndexOK'
  BY <1>1, <1>2, RestingOps DEF IndexOK, Cached, Live
<1>8. TotalOK' /\ RoomOK'
  BY <1>2 DEF TotalOK, RoomOK
<1>9. QED
  BY <1>3, <1>4, <1>5, <1>6, <1>7, <1>8 DEF IInv

\* The operation goes on to a place where its document is as it was, and what
\* is shown of documents is the truth.
LEMMA Continues ==
  ASSUME IInv, UNCHANGED <<row, keep, table, file, synced, named, lost, stored, crashes>>,
         limit' \in Limits, op' \in Operation, OpOK',
         op.pc \notin {"enter", "record", "unlink"},
         op'.pc \in {"evict", "fetch", "read", "opened", "write", "prefetch"},
         op'.pc = "read" /\ op'.doc \in Cached => file[op'.doc] # NoFile,
         op'.pc = "opened" => op.pc = "read" /\ op.why = op'.why /\ op.doc = op'.doc,
         op'.pc = "evict" => op'.total = TotalSize(Cached) /\ op'.why = "limit",
         (op'.pc \in {"read", "opened"} /\ op'.doc \notin Cached)
           => op.pc \in {"evict", "read"} /\ op.why \in {"open", "copy"} /\ op.doc = op'.doc /\ limit' = limit,
         index' \in [Docs -> {"absent", "cached", "uncached"}],
         \A d \in Docs : /\ index'[d] # "absent" <=> Live(d)
                         /\ index'[d] = "cached" => d \in Cached
  PROVE  IInv'
<1>3. TypeOK'
  BY DEF IInv, TypeOK
<1>5. FilesOK'
  BY DEF IInv, FilesOK, Cached
<1>6. UnsentOK'
  BY DEF IInv, UnsentOK, UnsentIsWhole, Cached
<1>7. IndexOK'
  BY DEF IndexOK, Cached, Live
<1>8. TotalOK'
  BY DEF TotalOK, Cached
<1>9. RoomOK'
  BY DEF IInv, RoomOK, NoRoom, Cached, Evictable, Protected, Live
<1>10. QED
  BY <1>3, <1>5, <1>6, <1>7, <1>8, <1>9 DEF IInv

\* The index between the steps that change what it shows.
LEMMA Truth ==
  ASSUME IInv, op.pc \notin {"off", "unlink", "overwrite"}, op.pc # "evict" \/ op.why # "add",
         NEW d \in Docs
  PROVE  /\ index[d] # "absent" <=> Live(d)
         /\ index[d] = "cached" => d \in Cached
BY DEF IInv, IndexOK

LEMMA EnsureOp ==
  ASSUME NEW o \in Operation, NEW d \in Docs
  PROVE  /\ Ensure(o, d) \in Operation /\ Ensure(o, d).why = o.why /\ Ensure(o, d).doc = d
         /\ Ensure(o, d).queue = o.queue
         /\ \/ Ensure(o, d).pc = "read" /\ Contains(table, d) /\ file[d] # NoFile
            \/ Ensure(o, d).pc = "fetch" /\ ~(Contains(table, d) /\ file[d] # NoFile)
BY DEF Ensure, Operation, Places

LEMMA InTable ==
  ASSUME TypeOK
  PROVE  /\ table \in Table /\ Cached \subseteq Docs
         /\ \A d : Contains(table, d) <=> d \in Cached
         /\ \A i \in DOMAIN table : table[i] \in Cached
         /\ table # <<>> <=> Cached # {}
<1>1. table \in Seq(Docs) /\ table \in Table /\ DOMAIN table = 1..Len(table)
  BY DEF TypeOK, Table
<1>2. \A i \in 1..Len(table) : table[i] \in Docs
  BY <1>1
<1>3. QED
  BY <1>1, <1>2 DEF Cached, ToSet, Contains

LEMMA SmallSteps ==
  ASSUME IInv, FetchFails \/ Unlock \/ Lock \/ Kill PROVE IInv'
<1>1. TypeOK /\ crashes \in Nat /\ MaxCrashes \in Nat
  BY BoundsAreNaturals DEF IInv, TypeOK
<1>2. CASE FetchFails
  BY <1>1, <1>2, Truth, Rests DEF FetchFails, TypeOK
<1>3. CASE Unlock
  <2>1. op.pc = "off" /\ op' = Idle /\ UNCHANGED <<disk, stored, crashes>>
    BY <1>3, RestingOps DEF Unlock
  <2>2. \A d \in Docs : index'[d] = IF Live(d) THEN Shown(d, table) ELSE "absent"
    BY <1>3 DEF Unlock
  <2>3. \A d \in Docs : /\ Shown(d, table) \in {"cached", "uncached"}
                        /\ Shown(d, table) = "cached" => d \in Cached
    BY <1>1, InTable DEF Shown
  <2>4. index' \in [Docs -> {"absent", "cached", "uncached"}]
    BY <1>3, <2>3 DEF Unlock
  <2>5. QED
    BY <1>1, <2>1, <2>2, <2>3, <2>4, Rests DEF TypeOK
<1>4. CASE Lock \/ Kill
  <2>1. op' = Off /\ index' = Hidden /\ UNCHANGED <<disk, stored>>
    BY <1>4 DEF Lock, Kill
  <2>2. crashes' \in 0..MaxCrashes /\ (crashes' # 0 \/ crashes = 0)
    BY <1>1, <1>4 DEF Lock, Kill, TypeOK
  <2>3. crashes' = 0 => op.pc \notin {"enter", "record", "unlink"}
    BY <1>1, <1>4, RestingOps DEF Lock, Kill
  <2>4. index' \in [Docs -> {"absent", "cached", "uncached"}]
    BY <2>1 DEF Hidden
  <2>5. op' # Idle
    BY <2>1, RestingOps
  <2>6. QED
    BY <2>1, <2>2, <2>3, <2>4, <2>5, Rests
<1>5. QED
  BY <1>2, <1>3, <1>4

\* What is to be prefetched is listed in some order.
LEMMA WantedQueue ==
  ASSUME TypeOK
  PROVE  SetToSeq(Wanted) \in Seq(Docs) /\ \A i \in DOMAIN SetToSeq(Wanted) : Live(SetToSeq(Wanted)[i])
<1>1. Wanted \in SUBSET Docs /\ \A d \in Wanted : Live(d)
  BY DEF Wanted, TypeOK
<1>2. IsFiniteSet(Wanted)
  BY <1>1, DocsAreFinite, FS_Subset
<1>3. PICK n \in Nat : n = Cardinality(Wanted)
  BY <1>2, FS_CardinalityType
<1>4. \E f : f \in Bijection(1..n, Wanted)
  BY <1>2, <1>3, FS_CardinalityType DEF ExistsBijection
<1>5. \E f \in [1..n -> Wanted] : IsInjective(f)
  BY <1>4 DEF Bijection, Injection, IsInjective
<1>6. SetToSeq(Wanted) \in [1..n -> Wanted]
  BY <1>3, <1>5 DEF SetToSeq
<1>7. QED
  BY <1>1, <1>3, <1>6

\* A command that starts an operation and changes nothing else.
LEMMA StartsStep ==
  ASSUME IInv, Add \/ SetCacheLimit \/ Prefetch \/ \E d \in Docs : Open(d) PROVE IInv'
<1>1. /\ TypeOK /\ op = Idle /\ op \in Operation /\ op.pc = "idle" /\ op.why = "none"
      /\ UNCHANGED <<row, keep, table, file, synced, named, lost, stored, crashes, index>>
      /\ limit' \in Limits
  BY RestingOps DEF IInv, TypeOK, Add, SetCacheLimit, Prefetch, Open, disk
<1>2. \A d \in Docs : /\ index[d] # "absent" <=> Live(d)
                      /\ index[d] = "cached" => d \in Cached
  BY <1>1, Truth
<1>3. index' \in [Docs -> {"absent", "cached", "uncached"}]
  BY <1>1 DEF TypeOK
<1>4. CASE Add
  <2>1. PICK d \in Fresh : op' = [Idle EXCEPT !.pc = "write", !.why = "add", !.doc = d]
    BY <1>4 DEF Add
  <2>2. d \in Docs /\ row[d] = "none" /\ d \notin stored
    BY <2>1 DEF Fresh, IInv, UnsentOK
  <2>3. op' \in Operation /\ op'.pc = "write" /\ op'.why = "add" /\ op'.doc = d
    BY <2>1, <2>2, RestingOps DEF Operation, Places, Reasons
  <2>4. OpOK'
    BY <1>1, <2>2, <2>3 DEF OpOK, Filling
  <2>5. QED
    BY <1>1, <1>2, <1>3, <2>3, <2>4, Continues
<1>5. CASE SetCacheLimit
  <2>1. op' = Evict([Idle EXCEPT !.why = "limit"], table) /\ TotalSize(Cached) \in Nat
    BY <1>1, <1>5, InTable, BytesFinite DEF SetCacheLimit
  <2>2. op' \in Operation /\ op'.pc = "evict" /\ op'.why = "limit" /\ op'.total = TotalSize(Cached)
    BY <2>1, RestingOps DEF Evict, Cached, Operation, Places, Reasons
  <2>3. OpOK'
    BY <2>2 DEF OpOK, Filling
  <2>4. QED
    BY <1>1, <1>2, <1>3, <2>2, <2>3, Continues
<1>6. CASE Prefetch
  <2>1. op' = [Idle EXCEPT !.pc = "prefetch", !.why = "prefetch", !.queue = SetToSeq(Wanted)]
    BY <1>6 DEF Prefetch
  <2>2. SetToSeq(Wanted) \in Seq(Docs) /\ \A i \in DOMAIN SetToSeq(Wanted) : Live(SetToSeq(Wanted)[i])
    BY <1>1, WantedQueue
  <2>3. op' \in Operation /\ op'.pc = "prefetch" /\ op'.why = "prefetch" /\ op'.queue = SetToSeq(Wanted)
    BY <2>1, <2>2, RestingOps DEF Operation, Places, Reasons
  <2>4. OpOK'
    BY <1>1, <2>2, <2>3 DEF OpOK, Filling, Live
  <2>5. QED
    BY <1>1, <1>2, <1>3, <2>3, <2>4, Continues
<1>7. ASSUME NEW d \in Docs, Open(d) PROVE IInv'
  <2>1. PICK o : o = [Idle EXCEPT !.why = "open"] /\ op' = Ensure(o, d) /\ Live(d)
    BY <1>7 DEF Open
  <2>2. o \in Operation /\ o.why = "open"
    BY <2>1, RestingOps DEF Operation, Reasons
  <2>3. op' \in Operation /\ op'.why = "open" /\ op'.doc = d /\ op'.pc \in {"read", "fetch"}
    BY <2>1, <2>2, EnsureOp
  <2>4. OpOK'
    BY <1>1, <2>1, <2>3 DEF OpOK, Filling, Live
  <2>5. op'.pc = "read" => d \in Cached
    BY <1>1, <2>1, <2>2, EnsureOp, InTable
  <2>6. op'.pc = "read" => file[d] # NoFile
    BY <2>1, <2>2, EnsureOp
  <2>7. QED
    BY <1>1, <1>2, <1>3, <2>3, <2>4, <2>5, <2>6, Continues
<1>8. QED
  BY <1>4, <1>5, <1>6, <1>7

LEMMA TailQueue ==
  ASSUME NEW q \in Seq(Docs), q # <<>>, \A i \in DOMAIN q : Live(q[i])
  PROVE  /\ Head(q) \in Docs /\ Live(Head(q))
         /\ Tail(q) \in Seq(Docs) /\ \A i \in DOMAIN Tail(q) : Live(Tail(q)[i])
<1>1. /\ Len(q) \in Nat /\ Len(q) > 0 /\ DOMAIN q = 1..Len(q) /\ Head(q) = q[1]
      /\ Tail(q) \in Seq(Docs) /\ DOMAIN Tail(q) = 1..Len(q) - 1
      /\ \A i \in 1..Len(q) - 1 : Tail(q)[i] = q[i + 1]
  OBVIOUS
<1>2. 1 \in DOMAIN q /\ \A i \in 1..Len(q) - 1 : i + 1 \in DOMAIN q
  BY <1>1
<1>3. q[1] \in Docs
  BY <1>2
<1>4. QED
  BY <1>1, <1>2, <1>3

LEMMA PrefetchNextStep == ASSUME IInv, PrefetchNext PROVE IInv'
<1>1. /\ TypeOK /\ op \in Operation /\ op.pc = "prefetch" /\ op.why = "prefetch"
      /\ UNCHANGED <<disk, row, keep, table, limit, file, synced, named, lost, stored, crashes, index>>
      /\ op.queue \in Seq(Docs) /\ \A i \in DOMAIN op.queue : Live(op.queue[i])
  BY DEF IInv, TypeOK, OpOK, PrefetchNext, disk, Operation
<1>2. \A d \in Docs : /\ index[d] # "absent" <=> Live(d)
                      /\ index[d] = "cached" => d \in Cached
  BY <1>1, Truth
<1>3. index' \in [Docs -> {"absent", "cached", "uncached"}] /\ crashes' \in 0..MaxCrashes /\ limit' \in Limits
  BY <1>1 DEF TypeOK
<1>4. CASE op.queue = <<>>
  <2>1. op' = Idle
    BY <1>4 DEF PrefetchNext
  <2>2. QED
    BY <1>1, <1>2, <1>3, <2>1, Rests
<1>5. CASE op.queue # <<>> /\ Contains(table, Head(op.queue))
  <2>1. op' = [op EXCEPT !.queue = Tail(@)]
    BY <1>5 DEF PrefetchNext
  <2>2. Tail(op.queue) \in Seq(Docs) /\ \A i \in DOMAIN Tail(op.queue) : Live(Tail(op.queue)[i])
    BY <1>1, <1>5, TailQueue
  <2>3. op' \in Operation /\ op'.pc = "prefetch" /\ op'.why = "prefetch" /\ op'.queue = Tail(op.queue)
    BY <1>1, <2>1, <2>2 DEF Operation
  <2>4. OpOK'
    BY <1>1, <2>2, <2>3 DEF OpOK, Filling, Live
  <2>5. QED
    BY <1>1, <1>2, <1>3, <2>3, <2>4, Continues
<1>6. CASE op.queue # <<>> /\ ~Contains(table, Head(op.queue))
  <2>1. PICK d : d = Head(op.queue) /\ d \in Docs /\ Live(d) /\ op' = Ensure(op, d)
    BY <1>1, <1>6, TailQueue DEF PrefetchNext
  <2>2. d \notin Cached
    BY <1>1, <1>6, <2>1, InTable
  <2>3. /\ op' \in Operation /\ op'.pc = "fetch" /\ op'.why = "prefetch" /\ op'.doc = d
        /\ op'.queue = op.queue
    BY <1>1, <1>6, <2>1, EnsureOp
  <2>4. OpOK'
    BY <1>1, <1>6, <2>1, <2>3 DEF OpOK, Filling, Live
  <2>5. QED
    BY <1>1, <1>2, <1>3, <2>3, <2>4, Continues
<1>7. QED
  BY <1>4, <1>5, <1>6

LEMMA OpenedStep == ASSUME IInv, Opened PROVE IInv'
<1>1. /\ TypeOK /\ op.pc = "opened"
      /\ UNCHANGED <<disk, row, keep, table, limit, file, synced, named, lost, stored, crashes, index>>
  BY DEF IInv, Opened, disk
<1>2. \A d \in Docs : /\ index[d] # "absent" <=> Live(d)
                      /\ index[d] = "cached" => d \in Cached
  BY <1>1, Truth
<1>3. index' \in [Docs -> {"absent", "cached", "uncached"}] /\ crashes' \in 0..MaxCrashes /\ limit' \in Limits
  BY <1>1 DEF TypeOK
<1>4. CASE op' = Idle
  BY <1>1, <1>2, <1>3, <1>4, Rests
<1>5. ASSUME NEW d \in Fresh,
             op' = [Idle EXCEPT !.pc = "write", !.why = "add", !.doc = d, !.from = op.doc]
      PROVE  IInv'
  <2>1. d \in Docs /\ row[d] = "none" /\ d \notin stored /\ op.doc \in Docs \cup {NoDoc}
    BY <1>1 DEF Fresh, TypeOK, Operation, IInv, UnsentOK
  <2>2. op' \in Operation /\ op'.pc = "write" /\ op'.why = "add" /\ op'.doc = d
    BY <1>5, <2>1, RestingOps DEF Operation, Places, Reasons
  <2>3. OpOK'
    BY <1>1, <2>1, <2>2 DEF OpOK, Filling
  <2>4. QED
    BY <1>1, <1>2, <1>3, <2>2, <2>3, Continues
<1>6. QED
  BY <1>4, <1>5 DEF Opened

LEMMA EvictedStep == ASSUME IInv, Evicted PROVE IInv'
<1>1. /\ TypeOK /\ OpOK /\ op \in Operation /\ op.pc = "evict" /\ op.doc \in Docs \cup {NoDoc}
      /\ UNCHANGED <<disk, row, keep, table, limit, file, synced, named, lost, stored, crashes>>
      /\ limit' \in Limits /\ crashes' \in 0..MaxCrashes
  BY DEF IInv, TypeOK, Evicted, disk, Operation
<1>2. op.why # "add" => \A d \in Docs : /\ index[d] # "absent" <=> Live(d)
                                        /\ index[d] = "cached" => d \in Cached
  BY <1>1, Truth
<1>3. index \in [Docs -> {"absent", "cached", "uncached"}]
  BY <1>1 DEF TypeOK
<1>4. CASE op.why \in {"open", "copy"}
  <2>1. op' = [op EXCEPT !.pc = "read", !.total = 0] /\ index' = index
    BY <1>4 DEF Evicted
  <2>2. op' \in Operation /\ op'.pc = "read" /\ op'.why = op.why /\ op'.doc = op.doc
    BY <1>1, <2>1 DEF Operation, Places
  <2>3. OpOK'
    BY <1>1, <1>4, <2>2 DEF OpOK, Filling, Live
  <2>4. op.doc \in Cached => file[op.doc] # NoFile
    BY <1>1, <1>4 DEF IInv, FilesOK
  <2>5. QED
    BY <1>1, <1>2, <1>3, <1>4, <2>1, <2>2, <2>3, <2>4, Continues
<1>5. CASE op.why = "prefetch"
  <2>1. /\ op' = [op EXCEPT !.pc = "prefetch", !.total = 0, !.doc = NoDoc, !.queue = Tail(@)]
        /\ index' = [index EXCEPT ![op.doc] = Shown(op.doc, table)]
    BY <1>5 DEF Evicted
  <2>2. /\ op.queue \in Seq(Docs) /\ op.queue # <<>> /\ \A i \in DOMAIN op.queue : Live(op.queue[i])
        /\ op.doc \in Docs /\ Live(op.doc)
    BY <1>1, <1>5 DEF OpOK, Operation
  <2>3. Tail(op.queue) \in Seq(Docs) /\ \A i \in DOMAIN Tail(op.queue) : Live(Tail(op.queue)[i])
    BY <2>2, TailQueue
  <2>4. op' \in Operation /\ op'.pc = "prefetch" /\ op'.why = "prefetch" /\ op'.queue = Tail(op.queue)
    BY <1>1, <1>5, <2>1, <2>3 DEF Operation, Places
  <2>5. OpOK'
    BY <1>1, <2>3, <2>4 DEF OpOK, Filling, Live
  <2>6. /\ Shown(op.doc, table) \in {"cached", "uncached"}
        /\ Shown(op.doc, table) = "cached" => op.doc \in Cached
    BY <1>1, InTable DEF Shown
  <2>7. /\ index' \in [Docs -> {"absent", "cached", "uncached"}]
        /\ \A d \in Docs : /\ index'[d] # "absent" <=> Live(d)
                           /\ index'[d] = "cached" => d \in Cached
    BY <1>2, <1>3, <1>5, <2>1, <2>2, <2>6
  <2>8. QED
    BY <1>1, <2>4, <2>5, <2>7, Continues
<1>6. CASE op.why = "add"
  <2>1. op' = Idle /\ index' = [index EXCEPT ![op.doc] = "cached"]
    BY <1>6 DEF Evicted
  <2>2. op.doc \in Docs /\ row[op.doc] = "new" /\ op.doc \notin stored
    BY <1>1, <1>6 DEF OpOK
  <2>3. op.doc \in Cached /\ Live(op.doc)
    BY <2>2 DEF IInv, UnsentOK, UnsentIsWhole, Live
  <2>4. /\ index' \in [Docs -> {"absent", "cached", "uncached"}]
        /\ \A d \in Docs : /\ index'[d] # "absent" <=> Live(d)
                           /\ index'[d] = "cached" => d \in Cached
    BY <1>1, <1>3, <2>1, <2>2, <2>3 DEF IInv, IndexOK
  <2>5. QED
    BY <1>1, <2>1, <2>4, Rests
<1>7. CASE op.why = "limit"
  <2>1. op' = Idle /\ index' = index
    BY <1>7 DEF Evicted
  <2>2. QED
    BY <1>1, <1>2, <1>3, <1>7, <2>1, Rests
<1>8. QED
  BY <1>1, <1>4, <1>5, <1>6, <1>7 DEF OpOK, Filling

\* The blob that was read is moved to the end of the table.
LEMMA ReadStep == ASSUME IInv, Read PROVE IInv'
<1>1. /\ TypeOK /\ OpOK /\ op \in Operation /\ op.pc = "read" /\ op.why \in {"open", "copy"} /\ op.doc \in Docs
      /\ UNCHANGED <<row, keep, limit, file, synced, named, lost, stored, crashes>>
      /\ op' = [op EXCEPT !.pc = "opened"]
  BY DEF IInv, TypeOK, OpOK, Read
<1>2. op' \in Operation /\ op'.pc = "opened" /\ op'.why = op.why /\ op'.doc = op.doc
  BY <1>1 DEF Operation, Places
<1>3. table' \in Table /\ Cached' = Cached
  <2>1. table \in Table
    BY <1>1, InTable
  <2>2. CASE table' = table
    BY <2>1, <2>2 DEF Cached
  <2>3. CASE table' = Put(table, op.doc) /\ Contains(table, op.doc)
    <3>1. op.doc \in Cached /\ ToSet(Put(table, op.doc)) = ToSet(table) \cup {op.doc}
      BY <1>1, <2>1, <2>3, InTable, TablePut
    <3>2. QED
      BY <1>1, <2>1, <2>3, <3>1, TablePut DEF Cached
  <2>4. QED
    BY <2>2, <2>3 DEF Read
<1>4. /\ index' \in [Docs -> {"absent", "cached", "uncached"}]
      /\ \A d \in Docs : /\ index'[d] # "absent" <=> Live(d)
                         /\ index'[d] = "cached" => d \in Cached
  <2>1. \A d \in Docs : /\ index[d] # "absent" <=> Live(d)
                        /\ index[d] = "cached" => d \in Cached
    BY <1>1, Truth
  <2>2. index \in [Docs -> {"absent", "cached", "uncached"}]
    BY <1>1 DEF TypeOK
  <2>3. CASE op.why = "open"
    <3>1. Live(op.doc) /\ index' = [index EXCEPT ![op.doc] = Shown(op.doc, table)]
      BY <1>1, <2>3 DEF OpOK, Read
    <3>2. /\ Shown(op.doc, table) \in {"cached", "uncached"}
          /\ Shown(op.doc, table) = "cached" => op.doc \in Cached
      BY <1>1, InTable DEF Shown
    <3>3. QED
      BY <1>1, <2>1, <2>2, <3>1, <3>2
  <2>4. CASE op.why # "open"
    BY <2>1, <2>2, <2>4 DEF Read
  <2>5. QED
    BY <2>3, <2>4
<1>5. TypeOK'
  BY <1>1, <1>2, <1>3, <1>4 DEF TypeOK, Table
<1>6. OpOK'
  BY <1>1, <1>2 DEF OpOK, Live
<1>7. FilesOK'
  BY <1>1, <1>2, <1>3 DEF IInv, FilesOK
<1>8. UnsentOK'
  BY <1>1, <1>2, <1>3 DEF IInv, UnsentOK, UnsentIsWhole
<1>9. IndexOK'
  BY <1>1, <1>2, <1>3, <1>4 DEF IndexOK, Live
<1>10. TotalOK'
  BY <1>2 DEF TotalOK
<1>11. RoomOK'
  BY <1>1, <1>2, <1>3 DEF IInv, RoomOK, NoRoom, Evictable, Protected, Live
<1>12. QED
  BY <1>5, <1>6, <1>7, <1>8, <1>9, <1>10, <1>11 DEF IInv

\* A row leaves the table; its file is still there.
LEMMA EvictRowStep == ASSUME IInv, EvictRow PROVE IInv'
<1>1. /\ TypeOK /\ OpOK /\ op \in Operation /\ op.pc = "evict" /\ op.total > limit
      /\ UNCHANGED <<row, keep, limit, file, synced, named, lost, stored, index, crashes>>
      /\ table \in Table /\ Cached \subseteq Docs /\ limit \in Nat
  BY InTable, BoundsAreNaturals DEF IInv, TypeOK, EvictRow
<1>2. PICK i \in DOMAIN table :
        /\ LeastRecent(i) /\ table' = Without(table, table[i])
        /\ op' = [op EXCEPT !.pc = "unlink", !.victim = table[i]]
  BY DEF EvictRow
<1>3. PICK v : v = table[i] /\ v \in Cached /\ v \in Docs /\ Evictable(v)
  BY <1>1, <1>2, InTable DEF LeastRecent
<1>4. table' \in Table /\ Cached' = Cached \ {v}
  BY <1>1, <1>2, <1>3, TableWithout DEF Cached
<1>5. /\ op' \in Operation /\ op'.pc = "unlink" /\ op'.victim = v /\ op'.why = op.why
      /\ op'.doc = op.doc /\ op'.queue = op.queue /\ op'.total = op.total
  BY <1>1, <1>2, <1>3 DEF Operation, Places
<1>6. TypeOK'
  BY <1>1, <1>4, <1>5 DEF TypeOK, Table
<1>7. OpOK'
  BY <1>1, <1>3, <1>4, <1>5 DEF OpOK, Filling, Live
<1>8. FilesOK'
  BY <1>1, <1>3, <1>4, <1>5 DEF IInv, FilesOK
<1>9. UnsentOK'
  <2>1. row[v] # "new"
    BY <1>3 DEF Evictable, Protected, Live
  <2>2. QED
    BY <1>1, <1>4, <1>5, <2>1 DEF IInv, UnsentOK, UnsentIsWhole
<1>10. IndexOK'
  BY <1>1, <1>4, <1>5 DEF IInv, IndexOK, Live
<1>11. op.total = TotalSize(Cached) /\ TotalSize(Cached) = TotalSize(Cached \ {v}) + Size(v)
  <2>1. (Cached \ {v}) \cup {v} = Cached /\ Cached \ {v} \in SUBSET Docs
    BY <1>1, <1>3
  <2>2. TotalSize((Cached \ {v}) \cup {v}) = TotalSize(Cached \ {v}) + Size(v)
    BY <1>3, <2>1, TotalAdds
  <2>3. QED
    BY <1>1, <2>1, <2>2 DEF IInv, TotalOK
<1>12. TotalOK'
  <2>1. op'.total = TotalSize(Cached') + Size(op'.victim)
    BY <1>4, <1>5, <1>11
  <2>2. QED
    BY <1>5, <2>1 DEF TotalOK
<1>13. RoomOK'
  <2>1. CASE op.why \in {"open", "copy"} /\ op.doc \in Cached /\ op.doc = v
    <3>1. op.doc = table[Len(table)]
      BY <1>1, <2>1 DEF IInv, RoomOK
    <3>2. DOMAIN table = 1..Len(table) /\ Len(table) \in Nat /\ i \in 1..Len(table) /\ i = Len(table)
      <4>1. table \in Seq(Docs) /\ IsInjective(table)
        BY <1>1 DEF Table
      <4>2. DOMAIN table = 1..Len(table) /\ Len(table) \in Nat /\ i \in 1..Len(table)
        BY <1>2, <4>1
      <4>3. Len(table) \in DOMAIN table /\ table[i] = table[Len(table)]
        BY <1>3, <2>1, <3>1, <4>2
      <4>4. i = Len(table)
        BY <4>1, <4>2, <4>3 DEF IsInjective
      <4>5. QED
        BY <4>2, <4>4
    <3>3. \A e \in Cached \ {v} : ~Evictable(e)
      <4>1. SUFFICES ASSUME NEW j \in 1..Len(table), table[j] # v PROVE ~Evictable(table[j])
        BY <3>2 DEF Cached, ToSet
      <4>2. j \in 1..i - 1
        BY <1>3, <3>2, <4>1
      <4>3. QED
        BY <1>2, <4>2 DEF LeastRecent
    <3>4. TotalSize(Cached \ {v}) + Size(v) > limit
      BY <1>1, <1>11
    <3>5. NoRoom'
      BY <1>1, <1>4, <1>5, <2>1, <3>3, <3>4 DEF NoRoom, Evictable, Protected, Live
    <3>6. QED
      BY <1>4, <1>5, <2>1, <3>5 DEF RoomOK
  <2>2. CASE op.why \in {"open", "copy"} /\ op.doc \in Cached /\ op.doc # v
    <3>1. op.doc = table[Len(table)]
      BY <1>1, <2>2 DEF IInv, RoomOK
    <3>2. op.doc = table'[Len(table')]
      BY <1>1, <1>2, <1>3, <2>2, <3>1, TableWithout, InTable
    <3>3. QED
      BY <1>4, <1>5, <2>2, <3>2 DEF RoomOK
  <2>3. CASE op.why \in {"open", "copy"} /\ op.doc \notin Cached
    BY <1>1, <1>3, <2>3 DEF IInv, RoomOK, NoRoom
  <2>4. CASE op.why \notin {"open", "copy"}
    BY <1>5, <2>4 DEF RoomOK
  <2>5. QED
    BY <2>1, <2>2, <2>3, <2>4
<1>14. QED
  BY <1>6, <1>7, <1>8, <1>9, <1>10, <1>12, <1>13 DEF IInv

\* The file goes, and with it its bytes from the total.
LEMMA UnlinkStep == ASSUME IInv, Unlink PROVE IInv'
<1>1. /\ TypeOK /\ OpOK /\ op \in Operation /\ op.pc = "unlink"
      /\ UNCHANGED <<row, keep, table, limit, stored, crashes>>
  BY DEF IInv, TypeOK, Unlink
<1>2. PICK v : v = op.victim /\ v \in Docs /\ v \notin Cached
  BY <1>1 DEF OpOK
<1>3. /\ file \in [Docs -> Int] /\ file' = [file EXCEPT ![v] = NoFile]
      /\ synced' = synced \ {v} /\ named' = named \ {v} /\ lost' = lost \ {v}
      /\ Cached' = Cached
  BY <1>1, <1>2 DEF Unlink, Removed, TypeOK, Cached
<1>4. /\ file' \in [Docs -> Int] /\ file'[v] = NoFile /\ \A d \in Docs \ {v} : file'[d] = file[d]
  BY <1>2, <1>3 DEF NoFile
<1>5. UnsentOK' /\ FilesOK'
  <2>1. op'.pc \in {"overwrite", "evict"} /\ op'.why = op.why /\ op'.doc = op.doc
    BY <1>1 DEF Unlink, Operation
  <2>2. Cached \subseteq Docs /\ lost \subseteq Docs
    BY <1>1, InTable DEF TypeOK
  <2>3. UnsentOK'
    BY <1>1, <1>2, <1>3, <1>4, <2>1 DEF IInv, UnsentOK, UnsentIsWhole
  <2>4. FilesOK'
    BY <1>1, <1>2, <1>3, <1>4, <2>1, <2>2 DEF IInv, FilesOK
  <2>5. QED
    BY <2>3, <2>4
<1>6. CASE op.why = "tombstone"
  <2>1. op' = [op EXCEPT !.pc = "overwrite", !.victim = NoDoc] /\ index' = index
    BY <1>6 DEF Unlink
  <2>2. /\ op' \in Operation /\ op'.pc = "overwrite" /\ op'.why = op.why /\ op'.doc = op.doc
    BY <1>1, <2>1 DEF Operation, Places
  <2>3. op.doc = v
    BY <1>1, <1>2, <1>6 DEF OpOK
  <2>4. TypeOK'
    BY <1>1, <1>3, <1>4, <2>1, <2>2 DEF TypeOK
  <2>5. OpOK'
    BY <1>1, <1>2, <1>6, <2>2, <2>3 DEF OpOK
  <2>6. IndexOK'
    BY <1>1, <1>2, <1>3, <1>6, <2>1, <2>2, <2>3 DEF IInv, IndexOK, Live
  <2>7. TotalOK' /\ RoomOK'
    BY <2>2 DEF TotalOK, RoomOK
  <2>8. QED
    BY <1>5, <2>4, <2>5, <2>6, <2>7 DEF IInv
<1>7. CASE op.why # "tombstone"
  <2>1. /\ op' = [op EXCEPT !.pc = "evict", !.victim = NoDoc, !.total = @ - Size(v)]
        /\ index' = [index EXCEPT ![v] = IF @ = "absent" THEN @ ELSE "uncached"]
    BY <1>2, <1>7 DEF Unlink, Refreshed
  <2>2. op.total - Size(v) = TotalSize(Cached) /\ TotalSize(Cached) \in Nat
    <3>1. op.total = TotalSize(Cached) + Size(v)
      BY <1>1, <1>2, <1>7 DEF IInv, TotalOK
    <3>2. PICK n, m : n = Size(v) /\ n \in Nat /\ m = TotalSize(Cached) /\ m \in Nat
      BY <1>1, <1>2, SizeType, InTable, BytesFinite
    <3>3. (m + n) - n = m
      BY <3>2
    <3>4. QED
      BY <3>1, <3>2, <3>3
  <2>3. /\ op' \in Operation /\ op'.pc = "evict" /\ op'.why = op.why /\ op'.doc = op.doc
        /\ op'.queue = op.queue /\ op'.total = TotalSize(Cached)
    BY <1>1, <2>1, <2>2 DEF Operation, Places
  <2>4. index \in [Docs -> {"absent", "cached", "uncached"}]
    BY <1>1 DEF TypeOK
  <2>5. TypeOK'
    BY <1>1, <1>3, <1>4, <2>1, <2>3, <2>4 DEF TypeOK
  <2>6. OpOK'
    BY <1>1, <1>7, <2>3 DEF OpOK, Live
  <2>7. IndexOK'
    BY <1>1, <1>2, <1>3, <1>7, <2>1, <2>3, <2>4 DEF IInv, IndexOK, Live
  <2>8. TotalOK'
    BY <1>3, <2>3 DEF TotalOK
  <2>9. RoomOK'
    BY <1>1, <1>3, <2>3 DEF IInv, RoomOK, NoRoom, Evictable, Protected, Live
  <2>10. QED
    BY <1>5, <2>5, <2>6, <2>7, <2>8, <2>9 DEF IInv
<1>8. QED
  BY <1>6, <1>7

\* A file appears under its name, downloaded or encrypted here.
LEMMA FileStep == ASSUME IInv, Fetch \/ Write PROVE IInv'
<1>1. /\ TypeOK /\ OpOK /\ op \in Operation /\ op.doc \in Docs /\ op.pc \in {"fetch", "write"}
      /\ UNCHANGED <<row, keep, table, limit, named, stored, index, crashes>>
      /\ file' = [file EXCEPT ![op.doc] = Size(op.doc)] /\ lost' = lost \ {op.doc}
  BY DEF IInv, TypeOK, Fetch, Write, OpOK, Filling
<1>2. file \in [Docs -> Int] /\ Cached' = Cached /\ Cached \subseteq Docs /\ lost \subseteq Docs
  BY <1>1, InTable DEF TypeOK, Cached
<1>3. /\ file' \in [Docs -> Int] /\ file'[op.doc] = Size(op.doc)
      /\ Size(op.doc) \in 0..Size(op.doc) /\ Size(op.doc) # NoFile
      /\ \A d \in Docs \ {op.doc} : file'[d] = file[d]
  <2>1. PICK n : n = Size(op.doc) /\ n \in Nat /\ n > 0
    BY <1>1, SizeType
  <2>2. n \in Int /\ n \in 0..n /\ n # NoFile
    BY <2>1 DEF NoFile
  <2>3. QED
    BY <1>1, <1>2, <2>1, <2>2
<1>4. \A d \in Docs : /\ index[d] # "absent" <=> Live(d)
                      /\ index[d] = "cached" => d \in Cached
  BY <1>1, Truth
<1>5. /\ op' \in Operation /\ op'.why = op.why /\ op'.doc = op.doc /\ op'.queue = op.queue
      /\ \/ op.pc = "fetch" /\ op.doc \in stored /\ op'.pc = "enter" /\ synced' = synced \ {op.doc}
         \/ op.pc = "write" /\ op'.pc = "record" /\ synced' = synced \cup {op.doc}
  BY <1>1 DEF Fetch, Write, Flushed, Operation, Places
<1>6. TypeOK'
  BY <1>1, <1>3, <1>5 DEF TypeOK
<1>7. OpOK'
  BY <1>1, <1>5 DEF OpOK, Filling, Live
<1>8. FilesOK'
  BY <1>1, <1>2, <1>3, <1>5 DEF IInv, FilesOK
<1>9. UnsentOK'
  BY <1>1, <1>2, <1>3, <1>5 DEF IInv, UnsentOK, UnsentIsWhole, OpOK
<1>10. IndexOK'
  BY <1>1, <1>2, <1>4 DEF IndexOK, Live
<1>11. TotalOK' /\ RoomOK'
  BY <1>5 DEF TotalOK, RoomOK
<1>12. QED
  BY <1>6, <1>7, <1>8, <1>9, <1>10, <1>11 DEF IInv

\* Its row comes after it, last in the table.
LEMMA EnterStep == ASSUME IInv, Enter PROVE IInv'
<1>1. /\ TypeOK /\ OpOK /\ op \in Operation /\ op.doc \in Docs /\ op.pc = "enter" /\ op.why \in Filling
      /\ UNCHANGED <<row, keep, limit, file, synced, named, lost, stored, index, crashes>>
      /\ table' = Put(table, op.doc) /\ op' = Evict(op, table')
  BY DEF IInv, TypeOK, Enter, OpOK, Filling
<1>2. /\ table' \in Table /\ Cached' = Cached \cup {op.doc} /\ Cached \subseteq Docs
      /\ table'[Len(table')] = op.doc
  BY <1>1, InTable, TablePut DEF Cached
<1>3. TotalSize(Cached') \in Nat
  BY <1>1, <1>2, BytesFinite
<1>4. /\ op' \in Operation /\ op'.pc = "evict" /\ op'.why = op.why /\ op'.doc = op.doc
      /\ op'.queue = op.queue /\ op'.total = TotalSize(Cached')
  BY <1>1, <1>3 DEF Evict, Operation, Places, Cached
<1>5. \A d \in Docs : /\ index[d] # "absent" <=> Live(d)
                      /\ index[d] = "cached" => d \in Cached
  BY <1>1, Truth
<1>6. file[op.doc] = Size(op.doc) /\ Size(op.doc) # NoFile
  <2>1. PICK n : n = Size(op.doc) /\ n \in Nat
    BY <1>1, SizeType
  <2>2. n # NoFile
    BY <2>1 DEF NoFile
  <2>3. QED
    BY <1>1, <2>1, <2>2 DEF IInv, FilesOK
<1>7. TypeOK'
  BY <1>1, <1>2, <1>4 DEF TypeOK, Table
<1>8. OpOK'
  BY <1>1, <1>4 DEF OpOK, Filling, Live
<1>9. FilesOK'
  BY <1>1, <1>2, <1>4, <1>6 DEF IInv, FilesOK
<1>10. UnsentOK'
  BY <1>1, <1>2, <1>4 DEF IInv, UnsentOK, UnsentIsWhole
<1>11. IndexOK'
  BY <1>1, <1>2, <1>5 DEF IndexOK, Live
<1>12. TotalOK'
  BY <1>4 DEF TotalOK
<1>13. RoomOK'
  BY <1>2, <1>4 DEF RoomOK
<1>14. QED
  BY <1>7, <1>8, <1>9, <1>10, <1>11, <1>12, <1>13 DEF IInv

\* A document is there once its row is, and its file was before.
LEMMA RecordStep == ASSUME IInv, Record PROVE IInv'
<1>1. /\ TypeOK /\ OpOK /\ op \in Operation /\ op.doc \in Docs /\ op.pc = "record" /\ op.why = "add"
      /\ row[op.doc] = "none" /\ op.doc \notin stored /\ row \in [Docs -> Status]
      /\ UNCHANGED <<limit, file, synced, named, lost, stored, index, crashes>>
      /\ row' = [row EXCEPT ![op.doc] = "new"] /\ table' = Put(table, op.doc) /\ op' = Evict(op, table')
      /\ keep' \subseteq Docs
  BY DEF IInv, TypeOK, Record, OpOK
<1>2. /\ table' \in Table /\ Cached' = Cached \cup {op.doc} /\ Cached \subseteq Docs
  BY <1>1, InTable, TablePut DEF Cached
<1>3. TotalSize(Cached') \in Nat
  BY <1>1, <1>2, BytesFinite
<1>4. /\ op' \in Operation /\ op'.pc = "evict" /\ op'.why = "add" /\ op'.doc = op.doc
      /\ op'.total = TotalSize(Cached')
  BY <1>1, <1>3 DEF Evict, Operation, Places, Cached
<1>5. \A d \in Docs : /\ index[d] # "absent" <=> Live(d)
                      /\ index[d] = "cached" => d \in Cached
  BY <1>1, Truth
<1>6. file[op.doc] = Size(op.doc) /\ Size(op.doc) # NoFile /\ op.doc \in synced
  <2>1. PICK n : n = Size(op.doc) /\ n \in Nat
    BY <1>1, SizeType
  <2>2. n # NoFile
    BY <2>1 DEF NoFile
  <2>3. QED
    BY <1>1, <2>1, <2>2 DEF IInv, FilesOK
<1>7. row' \in [Docs -> Status] /\ row'[op.doc] = "new" /\ \A d \in Docs \ {op.doc} : row'[d] = row[d]
  BY <1>1 DEF Status
<1>8. TypeOK'
  BY <1>1, <1>2, <1>4, <1>7 DEF TypeOK, Table
<1>9. OpOK'
  BY <1>1, <1>4, <1>7 DEF OpOK
<1>10. FilesOK'
  BY <1>1, <1>2, <1>4, <1>6 DEF IInv, FilesOK
<1>11. UnsentOK'
  BY <1>1, <1>2, <1>4, <1>6, <1>7 DEF IInv, UnsentOK, UnsentIsWhole
<1>12. IndexOK'
  BY <1>1, <1>2, <1>4, <1>5, <1>7 DEF IndexOK, Live
<1>13. TotalOK'
  BY <1>4 DEF TotalOK
<1>14. RoomOK'
  BY <1>4 DEF RoomOK
<1>15. QED
  BY <1>8, <1>9, <1>10, <1>11, <1>12, <1>13, <1>14 DEF IInv

\* A row changes between operations, or at the end of one that has removed its
\* blob, and its blob may be wanted for a copy next.
LEMMA RowChanges ==
  ASSUME IInv, op.pc \in {"idle", "overwrite"}, UNCHANGED <<table, limit, file, synced, named, lost, crashes>>,
         row' \in [Docs -> Status], keep' \subseteq Docs, stored' \subseteq Docs,
         stored \subseteq stored', \A d \in stored' : row'[d] = "none" => d \in Remote,
         \A d \in Docs : row'[d] = "new" => row[d] = "new",
         index' \in [Docs -> {"absent", "cached", "uncached"}],
         \A d \in Docs : /\ index'[d] # "absent" <=> Live(d)'
                         /\ index'[d] = "cached" => d \in Cached,
         \/ op' = Idle
         \/ \E d \in Docs : op' = Ensure([Idle EXCEPT !.why = "copy"], d)
  PROVE  IInv'
<1>1. TypeOK /\ Cached' = Cached
  BY DEF IInv, Cached
<1>2. /\ op' \in Operation /\ op'.pc \in {"idle", "read", "fetch"} /\ OpOK'
      /\ op'.pc = "read" => op'.doc \in Cached /\ file[op'.doc] # NoFile
  <2>1. CASE op' = Idle
    BY <2>1, RestingOps DEF OpOK
  <2>2. ASSUME NEW d \in Docs, op' = Ensure([Idle EXCEPT !.why = "copy"], d)
        PROVE  /\ op' \in Operation /\ op'.pc \in {"idle", "read", "fetch"} /\ OpOK'
               /\ op'.pc = "read" => op'.doc \in Cached /\ file[op'.doc] # NoFile
    <3>1. PICK o : o = [Idle EXCEPT !.why = "copy"]
      OBVIOUS
    <3>2. o \in Operation /\ o.why = "copy"
      BY <3>1, RestingOps DEF Operation, Reasons
    <3>3. /\ op' \in Operation /\ op'.why = "copy" /\ op'.doc = d
          /\ \/ op'.pc = "read" /\ Contains(table, d) /\ file[d] # NoFile
             \/ op'.pc = "fetch"
      <4>1. op' = Ensure(o, d)
        BY <2>2, <3>1
      <4>2. QED
        BY <3>2, <4>1, EnsureOp
    <3>4. OpOK'
      BY <3>3 DEF OpOK, Filling
    <3>5. QED
      BY <1>1, <2>2, <3>3, <3>4, InTable
  <2>3. QED
    BY <2>1, <2>2
<1>3. TypeOK'
  BY <1>1, <1>2 DEF TypeOK
<1>4. FilesOK'
  BY <1>1, <1>2 DEF IInv, FilesOK
<1>5. UnsentOK'
  BY <1>1, <1>2 DEF IInv, UnsentOK, UnsentIsWhole
<1>6. IndexOK'
  BY <1>1, <1>2 DEF IndexOK
<1>7. TotalOK' /\ RoomOK'
  BY <1>1, <1>2 DEF TotalOK, RoomOK
<1>8. QED
  BY <1>2, <1>3, <1>4, <1>5, <1>6, <1>7 DEF IInv

\* Commands and answers of the server.
LEMMA RowStep ==
  ASSUME IInv, NEW d \in Docs, UpdateMeta(d) \/ Delete(d) \/ SetKeepOffline(d) \/ Push(d) \/ Pull(d)
  PROVE  IInv'
<1>1. /\ TypeOK /\ op = Idle /\ op.pc = "idle" /\ op.why = "none"
      /\ UNCHANGED <<table, limit, file, synced, named, lost, crashes>>
      /\ row \in [Docs -> Status] /\ keep \subseteq Docs /\ stored \subseteq Docs
      /\ index \in [Docs -> {"absent", "cached", "uncached"}]
      /\ \A e \in stored : row[e] = "none" => e \in Remote
  BY RestingOps DEF IInv, TypeOK, UnsentOK, UpdateMeta, Delete, SetKeepOffline, Push, Pull
<1>2. \A e \in Docs : /\ index[e] # "absent" <=> Live(e)
                      /\ index[e] = "cached" => e \in Cached
  BY <1>1, Truth
<1>3. /\ Shown(d, table) \in {"cached", "uncached"}
      /\ Shown(d, table) = "cached" => d \in Cached
  BY <1>1, InTable DEF Shown
<1>4. CASE UpdateMeta(d)
  <2>1. /\ row' = [row EXCEPT ![d] = IF @ = "clean" THEN "dirty" ELSE @] /\ Live(d) /\ index' = [index EXCEPT ![d] = Shown(d, table)]
        /\ keep' = keep /\ stored' = stored /\ op' = Idle
    BY <1>1, <1>4 DEF UpdateMeta
  <2>2. /\ row' \in [Docs -> Status] /\ \A e \in Docs \ {d} : row'[e] = row[e]
        /\ row[d] # "none" /\ row'[d] \in {row[d], "dirty"} /\ Live(d)'
    BY <1>1, <2>1 DEF Status, Live
  <2>3. /\ index' \in [Docs -> {"absent", "cached", "uncached"}]
        /\ \A e \in Docs : /\ index'[e] # "absent" <=> Live(e)'
                           /\ index'[e] = "cached" => e \in Cached
    BY <1>1, <1>2, <1>3, <2>1, <2>2 DEF Live
  <2>4. QED
    BY <1>1, <2>1, <2>2, <2>3, RowChanges
<1>5. CASE Delete(d)
  <2>1. /\ row' = [row EXCEPT ![d] = "removed"] /\ index' = [index EXCEPT ![d] = "absent"]
        /\ keep' = keep /\ stored' = stored /\ op' = Idle
    BY <1>1, <1>5 DEF Delete
  <2>2. row' \in [Docs -> Status] /\ row'[d] = "removed" /\ \A e \in Docs \ {d} : row'[e] = row[e]
    BY <1>1, <2>1 DEF Status
  <2>3. /\ index' \in [Docs -> {"absent", "cached", "uncached"}]
        /\ \A e \in Docs : /\ index'[e] # "absent" <=> Live(e)'
                           /\ index'[e] = "cached" => e \in Cached
    BY <1>1, <1>2, <2>1, <2>2 DEF Live
  <2>4. QED
    BY <1>1, <2>1, <2>2, <2>3, RowChanges
<1>6. CASE SetKeepOffline(d)
  <2>1. row' = row /\ index' = index /\ stored' = stored /\ op' = Idle /\ keep' \subseteq Docs
    BY <1>1, <1>6 DEF SetKeepOffline
  <2>2. \A e \in Docs : Live(e)' <=> Live(e)
    BY <2>1 DEF Live
  <2>3. QED
    BY <1>1, <1>2, <2>1, <2>2, RowChanges
<1>7. CASE Push(d)
  <2>1. /\ index' = index /\ keep' = keep /\ op' = Idle /\ stored' \subseteq Docs
        /\ stored \subseteq stored' /\ stored' \subseteq stored \cup {d} /\ row[d] # "none"
    BY <1>1, <1>7 DEF Push
  <2>2. /\ row' \in [Docs -> Status] /\ \A e \in Docs \ {d} : row'[e] = row[e]
        /\ \/ row'[d] = row[d]
           \/ row[d] \in {"new", "dirty"} /\ row'[d] = "clean"
           \/ row[d] = "removed" /\ row'[d] = "gone"
    BY <1>1, <1>7 DEF Push, Status
  <2>3. \A e \in Docs : Live(e)' <=> Live(e)
    BY <2>2 DEF Live
  <2>4. QED
    BY <1>1, <1>2, <2>1, <2>2, <2>3, RowChanges
<1>8. CASE Pull(d)
  <2>1. /\ row' = [row EXCEPT ![d] = "clean"] /\ index' = [index EXCEPT ![d] = Shown(d, table)]
        /\ keep' = keep /\ stored' = stored
        /\ op' = Idle \/ op' = Ensure([Idle EXCEPT !.why = "copy"], d)
    BY <1>8 DEF Pull
  <2>2. row' \in [Docs -> Status] /\ row'[d] = "clean" /\ \A e \in Docs \ {d} : row'[e] = row[e]
    BY <1>1, <2>1 DEF Status
  <2>3. /\ index' \in [Docs -> {"absent", "cached", "uncached"}]
        /\ \A e \in Docs : /\ index'[e] # "absent" <=> Live(e)'
                           /\ index'[e] = "cached" => e \in Cached
    BY <1>1, <1>2, <1>3, <2>1, <2>2 DEF Live
  <2>4. QED
    BY <1>1, <2>1, <2>2, <2>3, RowChanges
<1>9. QED
  BY <1>4, <1>5, <1>6, <1>7, <1>8

\* A tombstone: the blob goes, then the row.
LEMMA TombstoneStep == ASSUME IInv, NEW d \in Docs, PullTombstone(d) PROVE IInv'
<1>1. /\ TypeOK /\ op = Idle /\ op.pc = "idle" /\ op.why = "none" /\ d \in stored
      /\ UNCHANGED <<row, keep, limit, file, synced, named, lost, stored, index, crashes>>
  BY RestingOps DEF IInv, TypeOK, PullTombstone
<1>2. \A e \in Docs : /\ index[e] # "absent" <=> Live(e)
                      /\ index[e] = "cached" => e \in Cached
  BY <1>1, Truth
<1>3. /\ op' \in Operation /\ op'.pc \in {"unlink", "overwrite"} /\ op'.why = "tombstone" /\ op'.doc = d
      /\ table' \in Table /\ Cached' \subseteq Cached /\ Cached \ {d} \subseteq Cached'
      /\ op'.pc = "unlink" => op'.victim = d /\ d \notin Cached'
      /\ op'.pc = "overwrite" => Cached' = Cached
  <2>0. table \in Table
    BY <1>1, InTable
  <2>1. CASE Live(d) /\ Contains(table, d)
    <3>1. /\ table' = Without(table, d)
          /\ op' = [Idle EXCEPT !.pc = "unlink", !.why = "tombstone", !.doc = d, !.victim = d]
      BY <2>1 DEF PullTombstone
    <3>2. table' \in Table /\ Cached' = Cached \ {d}
      BY <2>0, <3>1, TableWithout DEF Cached
    <3>3. op' \in Operation /\ op'.pc = "unlink" /\ op'.why = "tombstone" /\ op'.doc = d /\ op'.victim = d
      BY <3>1, RestingOps DEF Operation, Places, Reasons
    <3>4. QED
      BY <3>2, <3>3
  <2>2. CASE ~(Live(d) /\ Contains(table, d))
    <3>1. table' = table /\ op' = [Idle EXCEPT !.pc = "overwrite", !.why = "tombstone", !.doc = d]
      BY <2>2 DEF PullTombstone
    <3>2. op' \in Operation /\ op'.pc = "overwrite" /\ op'.why = "tombstone" /\ op'.doc = d
      BY <3>1, RestingOps DEF Operation, Places, Reasons
    <3>3. QED
      BY <2>0, <3>1, <3>2 DEF Cached
  <2>3. QED
    BY <2>1, <2>2
<1>4. TypeOK'
  BY <1>1, <1>3 DEF TypeOK, Table
<1>5. OpOK'
  BY <1>3 DEF OpOK, Filling
<1>6. FilesOK'
  BY <1>1, <1>3 DEF IInv, FilesOK
<1>7. UnsentOK'
  BY <1>1, <1>3 DEF IInv, UnsentOK, UnsentIsWhole
<1>8. IndexOK'
  BY <1>1, <1>2, <1>3 DEF IndexOK, Live
<1>9. TotalOK' /\ RoomOK'
  BY <1>3 DEF TotalOK, RoomOK
<1>10. QED
  BY <1>4, <1>5, <1>6, <1>7, <1>8, <1>9 DEF IInv

LEMMA OverwriteStep == ASSUME IInv, Overwrite PROVE IInv'
<1>1. /\ TypeOK /\ op.pc = "overwrite" /\ op.why = "tombstone" /\ op.doc \in Docs
      /\ UNCHANGED <<keep, table, limit, file, synced, named, lost, stored, crashes>>
      /\ row \in [Docs -> Status] /\ keep \subseteq Docs /\ stored \subseteq Docs
      /\ index \in [Docs -> {"absent", "cached", "uncached"}]
      /\ row' = [row EXCEPT ![op.doc] = "gone"] /\ index' = [index EXCEPT ![op.doc] = "absent"]
      /\ op' = Idle \/ op' = Ensure([Idle EXCEPT !.why = "copy"], op.doc)
      /\ \A d \in stored : row[d] = "none" => d \in Remote
  BY DEF IInv, TypeOK, OpOK, UnsentOK, Overwrite
<1>2. row' \in [Docs -> Status] /\ row'[op.doc] = "gone" /\ \A d \in Docs \ {op.doc} : row'[d] = row[d]
  BY <1>1 DEF Status
<1>3. /\ index' \in [Docs -> {"absent", "cached", "uncached"}]
      /\ \A d \in Docs : /\ index'[d] # "absent" <=> Live(d)'
                         /\ index'[d] = "cached" => d \in Cached
  BY <1>1, <1>2 DEF IInv, IndexOK, Live
<1>4. QED
  BY <1>1, <1>2, <1>3, RowChanges

\* What was flushed stays, if its name does; of what was not, some bytes do.
LEMMA PowerLossStep == ASSUME IInv, PowerLoss PROVE IInv'
<1>1. /\ TypeOK /\ op' = Off /\ index' = Hidden /\ crashes' = crashes + 1 /\ crashes < MaxCrashes
      /\ UNCHANGED <<row, keep, table, limit, stored>>
      /\ synced' = {d \in Docs : file'[d] # NoFile} /\ named' = synced'
      /\ lost' = {d \in Cached : file'[d] = NoFile /\ (file[d] # NoFile \/ d \in lost)}
      /\ crashes \in Nat /\ MaxCrashes \in Nat /\ Cuts \subseteq Nat /\ Cached' = Cached /\ Cached \subseteq Docs
      /\ file \in [Docs -> Int]
  BY InTable, BoundsAreNaturals DEF IInv, PowerLoss, TypeOK, Cached
<1>2. file' \in [Docs -> Int]
  <2>1. Cuts \cup {NoFile} \cup {file[d] : d \in Docs} \subseteq Int
    <3>1. \A d \in Docs : file[d] \in Int
      BY <1>1
    <3>2. Cuts \cup {NoFile} \subseteq Int
      BY <1>1 DEF NoFile
    <3>3. QED
      BY <3>1, <3>2
  <2>2. PICK left \in [Docs -> Cuts \cup {NoFile} \cup {file[d] : d \in Docs}] : file' = left
    BY DEF PowerLoss
  <2>3. QED
    BY <2>1, <2>2
<1>3. \A d \in Docs : \/ file'[d] = file[d]
                      \/ d \notin synced /\ file'[d] \in Nat /\ file'[d] < file[d]
                      \/ file'[d] = NoFile
  BY <1>1 DEF PowerLoss
<1>4. /\ crashes' \in 0..MaxCrashes /\ crashes' # 0 /\ index' \in [Docs -> {"absent", "cached", "uncached"}]
  BY <1>1 DEF Hidden
<1>5. \A d \in Docs : file'[d] \in {NoFile} \cup 0..Size(d)
  <2> SUFFICES ASSUME NEW d \in Docs, file'[d] \in Nat, file'[d] < file[d] PROVE file'[d] \in 0..Size(d)
    BY <1>1, <1>3 DEF TypeOK
  <2>1. PICK n : n = Size(d) /\ n \in Nat
    BY SizeType
  <2>2. file[d] \in Int /\ file[d] <= n
    BY <1>1, <2>1 DEF TypeOK, NoFile
  <2>3. QED
    BY <2>1, <2>2
<1>6. TypeOK'
  BY <1>1, <1>2, <1>4, <1>5, RestingOps DEF TypeOK
<1>7. OpOK'
  BY <1>1, RestingOps DEF OpOK
<1>8. FilesOK'
  <2>1. \A d \in Cached : file'[d] # NoFile \/ d \in lost'
    <3>1. \A d \in Cached : file[d] # NoFile \/ d \in lost
      BY DEF IInv, FilesOK
    <3>2. QED
      BY <1>1, <3>1
  <2>2. \A d \in lost' : file'[d] = NoFile
    BY <1>1
  <2>3. QED
    BY <1>1, <1>4, <2>1, <2>2, RestingOps DEF FilesOK
<1>9. UnsentOK'
  <2>1. ASSUME NEW d \in Docs, row[d] = "new", d \notin stored
        PROVE  d \in Cached /\ ((file'[d] = Size(d) /\ file'[d] # NoFile) \/ d \in lost')
    <3>1. PICK n : n = Size(d) /\ n \in Nat
      BY SizeType
    <3>2. n # NoFile /\ \A k \in Nat : ~(k < NoFile)
      BY <3>1 DEF NoFile
    <3>3. /\ d \in Cached /\ (file[d] = n \/ d \in lost) /\ (d \in synced \/ d \in lost)
          /\ d \in lost => file[d] = NoFile
      BY <2>1, <3>1 DEF IInv, UnsentOK, UnsentIsWhole, FilesOK
    <3>4. QED
      BY <1>1, <1>3, <3>1, <3>2, <3>3
  <2>2. QED
    BY <1>1, <2>1, RestingOps DEF IInv, UnsentOK, UnsentIsWhole
<1>10. IndexOK' /\ TotalOK' /\ RoomOK'
  BY <1>1, RestingOps DEF IndexOK, TotalOK, RoomOK
<1>11. QED
  BY <1>6, <1>7, <1>8, <1>9, <1>10 DEF IInv
-------------------------------------------------------------------------------
(* The invariant *)

LEMMA InvariantInit == Init => IInv
<1> SUFFICES ASSUME Init PROVE IInv
  OBVIOUS
<1>1. op = Off /\ op.pc = "off" /\ op.why = "none" /\ table = <<>> /\ crashes = 0
  BY RestingOps DEF Init
<1>2. Cached = {}
  BY <1>1 DEF Cached, ToSet
<1>3. TypeOK
  <2>1. Remote \subseteq Docs /\ 0 \in 0..MaxCrashes
    BY DocsAreBlobs, BoundsAreNaturals
  <2>2. file \in [Docs -> Int] /\ \A d \in Docs : file[d] \in {NoFile} \cup 0..Size(d)
    BY DEF Init, NoFile
  <2>3. table \in Seq(Docs) /\ IsInjective(table)
    BY <1>1 DEF IsInjective
  <2>4. op \in Operation
    BY <1>1, RestingOps
  <2>5. QED
    BY <1>1, <2>1, <2>2, <2>3, <2>4 DEF Init, TypeOK, Hidden, Status
<1>4. OpOK
  BY <1>1 DEF OpOK
<1>5. FilesOK
  BY <1>1, <1>2 DEF Init, FilesOK
<1>6. UnsentOK
  BY <1>1 DEF Init, UnsentOK, UnsentIsWhole
<1>7. IndexOK /\ TotalOK /\ RoomOK
  BY <1>1 DEF IndexOK, TotalOK, RoomOK
<1>8. QED
  BY <1>3, <1>4, <1>5, <1>6, <1>7 DEF IInv

LEMMA InvariantStep == IInv /\ [Next]_vars => IInv'
<1> SUFFICES ASSUME IInv, [Next]_vars PROVE IInv'
  OBVIOUS
<1>1. CASE CacheStep
  BY <1>1, EvictRowStep, UnlinkStep, EvictedStep, FileStep, EnterStep, ReadStep, OpenedStep,
     RecordStep, OverwriteStep, PrefetchNextStep DEF CacheStep
<1>2. CASE Command
  BY <1>2, StartsStep, RowStep, TombstoneStep DEF Command
<1>3. CASE FetchFails \/ Unlock \/ Lock \/ Kill
  BY <1>3, SmallSteps
<1>4. CASE PowerLoss
  BY <1>4, PowerLossStep
<1>5. CASE UNCHANGED vars
  <2>1. /\ UNCHANGED <<row, keep, table, limit, file, synced, named, lost, stored, index, op, crashes>>
        /\ Cached' = Cached
    BY <1>5 DEF vars, disk, Cached
  <2>2. TypeOK' /\ OpOK' /\ FilesOK'
    BY <2>1 DEF IInv, TypeOK, OpOK, FilesOK, Live
  <2>3. UnsentOK' /\ IndexOK' /\ TotalOK'
    BY <2>1 DEF IInv, UnsentOK, UnsentIsWhole, IndexOK, TotalOK, Live
  <2>4. RoomOK'
    BY <2>1 DEF IInv, RoomOK, NoRoom, Evictable, Protected, Live
  <2>5. QED
    BY <2>2, <2>3, <2>4 DEF IInv
<1>6. QED
  BY <1>1, <1>2, <1>3, <1>4, <1>5 DEF Next

\* What is true between any two steps: TypeOK, what each place in an operation
\* implies, and the four properties with what they rest on.
THEOREM Invariant == Spec => []IInv
BY InvariantInit, InvariantStep, PTL DEF Spec

\* The variables keep their types, and the table lists no blob twice.
THEOREM TypesHold == Spec => []TypeOK
<1>1. IInv => TypeOK
  BY DEF IInv
<1>2. QED
  BY <1>1, Invariant, PTL

\* The table lists only blobs whose files are there, whatever happened, but for
\* those whose names a power loss took; and without crashes all files are in it,
\* so that the limit limits the disk.
THEOREM TableMatchesFiles == Spec => []FilesMatchTable
<1>1. IInv => FilesMatchTable
  <2> SUFFICES ASSUME IInv PROVE FilesMatchTable
    OBVIOUS
  <2>1. Cached \subseteq Docs
    BY InTable DEF IInv
  <2>2. QED
    BY <2>1, RestingOps DEF IInv, FilesOK, FilesMatchTable
<1>2. QED
  BY <1>1, Invariant, PTL

\* No kill, eviction, download or tombstone takes any of a document that the
\* server does not have, and no power loss does, on a file system that keeps the
\* renames made before a transaction that was committed: on one that may not,
\* lost names what it took.
THEOREM OnlyCopyIsSafe == Spec => []UnsentIsWhole
<1>1. IInv => UnsentIsWhole
  BY DEF IInv, UnsentOK
<1>2. QED
  BY <1>1, Invariant, PTL

\* What an unlocked vault shows between operations is so.
THEOREM IndexIsTrue == Spec => []IndexTellsTruth
<1>1. IInv => IndexTellsTruth
  BY RestingOps DEF IInv, IndexOK, IndexTellsTruth
<1>2. QED
  BY <1>1, Invariant, PTL

\* An open whose download succeeded fails for a torn file or a full cache only,
\* however many blobs of whatever sizes compete for it.
THEOREM OpenFailsOnlyForAReason == Spec => []OpenFailsForAReason
<1>1. IInv => OpenFailsForAReason
  <2> SUFFICES ASSUME IInv, op.pc = "opened" PROVE OpenFailsForAReason
    BY DEF OpenFailsForAReason
  <2>1. op.doc \in Docs /\ op.why \in {"open", "copy"} /\ crashes \in Nat /\ file \in [Docs -> Int]
    BY BoundsAreNaturals DEF IInv, OpOK, TypeOK
  <2>2. CASE file[op.doc] = NoFile
    <3>1. op.doc \notin Cached
      BY <2>1, <2>2 DEF IInv, FilesOK
    <3>2. NoRoom
      BY <2>1, <3>1 DEF IInv, RoomOK
    <3>3. {e \in Cached : Protected(e)} = Cached
      BY <3>2 DEF NoRoom, Evictable
    <3>4. QED
      BY <2>2, <3>2, <3>3 DEF NoRoom, OpenFailsForAReason
  <2>3. CASE file[op.doc] # NoFile /\ file[op.doc] # Size(op.doc)
    <3>1. PICK n : n = Size(op.doc) /\ n \in Nat
      BY <2>1, SizeType
    <3>2. file[op.doc] \in 0..n /\ file[op.doc] < n
      BY <2>1, <2>3, <3>1 DEF IInv, TypeOK
    <3>3. crashes > 0
      BY <2>1, <2>3 DEF IInv, FilesOK
    <3>4. QED
      BY <2>3, <3>1, <3>2, <3>3 DEF OpenFailsForAReason, Torn
  <2>4. CASE file[op.doc] = Size(op.doc)
    BY <2>4 DEF OpenFailsForAReason, Whole
  <2>5. QED
    BY <2>2, <2>3, <2>4
<1>2. QED
  BY <1>1, Invariant, PTL

\* Whatever a disk or a server makes of a document's file out of pieces of any
\* files, it is decrypted to the end only if it is that file.
THEOREM FormatHolds == Spec => []FormatIsSound
<1>1. FormatIsSound
  BY EveryBlobIsSound, DocsAreBlobs DEF FormatIsSound
<1>2. QED
  BY <1>1, PTL

\* What is read of a file that a crash has cut anywhere is a beginning of the
\* document, and it ends well for a whole file only.
LEMMA PartOfFile ==
  ASSUME NEW d \in Docs, NEW n \in 0..Size(d)
  PROVE  LET r == Decrypt(d, SubSeq(Ciphertext[d], 1, n))
         IN /\ IsPrefix(r.out, Text(PlainLen[d]))
            /\ r.finished => r.out = Text(PlainLen[d])
            /\ r.finished <=> n = Size(d)
<1> DEFINE f == Ciphertext[d]
           g == SubSeq(f, 1, n)
<1>1. d \in Blobs
  BY DocsAreBlobs
<1>2. f \in Seq(FileBytes) /\ Len(f) = Size(d) /\ Len(f) \in Nat
  BY <1>1, CiphertextBytes, LengthIsSize
<1> HIDE DEF f
<1>3. n \in 0..Len(f)
  BY <1>2
<1>4. g \in Seq(FileBytes) /\ Len(g) = n
  BY <1>2, <1>3
<1>5. n = Len(f) => g = f
  BY <1>2, SubSeqFull
<1>6. g \in Seq(FileBytes \cup {}) /\ \A x \in {} : "seg" \notin DOMAIN x
  <2>1. FileBytes \cup {} = FileBytes
    OBVIOUS
  <2>2. QED
    BY <1>4, <2>1
<1> HIDE DEF g
<1>7. LET r == Decrypt(d, g)
      IN /\ IsPrefix(r.out, Text(PlainLen[d]))
         /\ r.finished => ~r.error /\ g = f /\ r.out = Text(PlainLen[d])
         /\ g = f => r.finished
  BY <1>1, <1>6, OnlyTheFileOpens, Zenon DEF f
<1>8. g = f <=> n = Size(d)
  BY <1>2, <1>4, <1>5
<1>9. QED
  BY <1>7, <1>8, Zenon DEF f, g

\* No open and no copy ever hands out bytes that are not the document's, and
\* only of a whole file does it report that all went well.
THEOREM OpenNeverWrong == Spec => []OpenIsNeverWrong
<1>1. IInv => OpenIsNeverWrong
  <2> SUFFICES ASSUME IInv, op.pc = "opened", file[op.doc] # NoFile PROVE OpenIsNeverWrong
    BY DEF OpenIsNeverWrong
  <2> DEFINE d == op.doc
             n == file[d]
  <2>1. d \in Docs
    BY DEF IInv, OpOK
  <2>2. n \in 0..Size(d)
    BY <2>1 DEF IInv, TypeOK
  <2>3. Content(d) = Decrypt(d, SubSeq(Ciphertext[d], 1, n))
    BY <2>1, <2>2 DEF Content, Decoded
  <2>4. Whole(d) <=> n = Size(d)
    BY DEF Whole
  <2> HIDE DEF n
  <2>5. LET r == Content(d)
        IN /\ IsPrefix(r.out, Text(PlainLen[d]))
           /\ r.finished => r.out = Text(PlainLen[d])
           /\ r.finished <=> Whole(d)
    BY <2>1, <2>2, <2>3, <2>4, PartOfFile, ZenonT(60)
  <2>6. QED
    BY <2>5, Zenon DEF OpenIsNeverWrong
<1>2. QED
  BY <1>1, Invariant, PTL
===============================================================================
