-------------------------- MODULE BlobStream_proofs ---------------------------
(***************************************************************************)
(* Proofs about the encrypted file format for chunks, tags and headers of  *)
(* any size and contents of any length: what is encrypted is decrypted,    *)
(* and nothing but a file made from the blob is decrypted to its end.      *)
(***************************************************************************)
EXTENDS BlobStream, SequenceTheorems, WellFoundedInduction, NaturalsInduction, TLAPS

\* Induction on the naturals, for a set of them.
LEMMA Induction ==
  ASSUME NEW T, 0 \in T, \A n \in Nat : n \in T => n + 1 \in T
  PROVE  \A n \in Nat : n \in T
<1> DEFINE Rest == Nat \ T
<1>1. \A x, y \in Nat : x < y => <<x, y>> \in OpToRel(<, Nat)
  BY Zenon DEF OpToRel
<1>2. SUFFICES ASSUME Rest # {} PROVE FALSE
  OBVIOUS
<1>3. Rest \subseteq Nat
  OBVIOUS
<1> HIDE DEF Rest
<1>4. PICK x \in Rest : \A y \in Rest : ~(<<y, x>> \in OpToRel(<, Nat))
  BY <1>2, <1>3, NatLessThanWellFounded, WFMin, Zenon
<1>5. \A y \in Rest : ~(y < x)
  BY <1>1, <1>3, <1>4, Zenon
<1>6. x \in Nat /\ x # 0 /\ x - 1 \in Nat /\ (x - 1) + 1 = x /\ x - 1 < x
  BY <1>3 DEF Rest
<1>7. x - 1 \notin T
  BY <1>6 DEF Rest
<1>8. QED
  BY <1>5, <1>6, <1>7 DEF Rest
-------------------------------------------------------------------------------
(* Where things are in a file. *)

\* A full segment, and what comes before segment t.
Width == ChunkSize + TagLen
Skip(t) == HeaderLen + t * Width
Start(t) == t * ChunkSize

\* All sizes are positive.
LEMMA Widths ==
  /\ ChunkSize \in Nat \ {0} /\ TagLen \in Nat \ {0} /\ HeaderLen \in Nat \ {0}
  /\ Width \in Nat \ {0} /\ Width = ChunkSize + TagLen
BY SizesArePositive DEF Width

\* Places are natural numbers, and segments come after the header.
LEMMA Skips ==
  ASSUME NEW t \in Nat
  PROVE  /\ Skip(t) \in Nat /\ Skip(t) >= HeaderLen
         /\ Start(t) \in Nat
<1>1. t * Width \in Nat /\ t * ChunkSize \in Nat
  BY Widths
<1>2. QED
  BY <1>1, Widths DEF Skip, Start

\* The first segment starts right behind the header.
LEMMA SkipZero == Skip(0) = HeaderLen /\ Start(0) = 0
BY Widths DEF Skip, Start

\* The next segment starts where a full one ends.
LEMMA SkipNext ==
  ASSUME NEW t \in Nat
  PROVE  Skip(t + 1) = Skip(t) + Width /\ Start(t + 1) = Start(t) + ChunkSize
<1>1. (t + 1) * Width = t * Width + Width /\ t * Width \in Nat
  BY Widths
<1>2. (t + 1) * ChunkSize = t * ChunkSize + ChunkSize /\ t * ChunkSize \in Nat
  BY Widths
<1>3. QED
  BY <1>1, <1>2, Widths DEF Skip, Start

\* Every place behind the header and before segment n is in a segment.
LEMMA PlacesInFile ==
  ASSUME NEW n \in Nat
  PROVE  \A k \in Nat : (HeaderLen < k /\ k <= Skip(n))
           => \E t \in 0..n - 1, at \in 1..Width : k = Skip(t) + at
<1> DEFINE P(m) == \A k \in Nat : (HeaderLen < k /\ k <= Skip(m))
                     => \E t \in 0..m - 1, at \in 1..Width : k = Skip(t) + at
           T == {m \in Nat : P(m)}
<1>1. 0 \in T
  BY SkipZero, Widths
<1>2. ASSUME NEW m \in Nat, m \in T PROVE m + 1 \in T
  <2>1. SUFFICES ASSUME NEW k \in Nat, HeaderLen < k, k <= Skip(m + 1)
                 PROVE  \E t \in 0..(m + 1) - 1, at \in 1..Width : k = Skip(t) + at
    OBVIOUS
  <2>2. Skip(m) \in Nat /\ Skip(m + 1) = Skip(m) + Width /\ Width \in Nat
    BY Skips, SkipNext, Widths
  <2>3. CASE k <= Skip(m)
    <3>1. PICK t \in 0..m - 1, at \in 1..Width : k = Skip(t) + at
      BY <1>2, <2>1, <2>3
    <3>2. t \in 0..(m + 1) - 1
      OBVIOUS
    <3>3. QED
      BY <3>1, <3>2
  <2>4. CASE Skip(m) < k
    <3>1. m \in 0..(m + 1) - 1 /\ k - Skip(m) \in 1..Width /\ k = Skip(m) + (k - Skip(m))
      BY <2>1, <2>2, <2>4
    <3>2. QED
      BY <3>1
  <2>5. QED
    BY <2>2, <2>3, <2>4
<1> HIDE DEF T
<1>3. \A m \in Nat : m \in T
  BY <1>1, <1>2, Induction
<1>4. QED
  BY <1>3 DEF T

\* Segments are long enough for a file to have as many bytes.
LEMMA SkipsGrow ==
  ASSUME NEW n \in Nat
  PROVE  n <= Skip(n) /\ \A t \in 0..n : Skip(t) <= Skip(n)
<1> DEFINE T == {m \in Nat : m <= Skip(m) /\ \A t \in 0..m : Skip(t) <= Skip(m)}
<1>1. 0 \in T
  BY SkipZero, Widths
<1>2. ASSUME NEW m \in Nat, m \in T PROVE m + 1 \in T
  <2>1. Skip(m) \in Nat /\ Skip(m + 1) = Skip(m) + Width /\ Width \in Nat \ {0}
    BY Skips, SkipNext, Widths
  <2>2. \A t \in 0..m + 1 : t = m + 1 \/ t \in 0..m
    OBVIOUS
  <2>3. \A t \in 0..m : Skip(t) \in Nat
    BY Skips
  <2>4. \A t \in 0..m + 1 : Skip(t) <= Skip(m + 1)
    BY <1>2, <2>1, <2>2, <2>3
  <2>5. QED
    BY <1>2, <2>1, <2>4
<1> HIDE DEF T
<1>3. \A m \in Nat : m \in T
  BY <1>1, <1>2, Induction
<1>4. QED
  BY <1>3 DEF T
-------------------------------------------------------------------------------
(* Encryption.  p is the content, a sequence over any set S. *)

\* Bytes of a header, bytes of a segment that carry plaintext of S, and both.
HeaderBytes == [of : Blobs, header : Nat]

SealedBytes(S) ==
  [of : Blobs, seg : Nat, last : BOOLEAN, size : Nat, at : Nat, plain : S \cup {0}]

Bytes(S) == HeaderBytes \cup SealedBytes(S)

\* The full chunk t of p, and what follows n full chunks.
Full(p, t) == SubSeq(p, Start(t) + 1, Start(t) + ChunkSize)
Remainder(p, n) == SubSeq(p, Start(n) + 1, Len(p))

\* p is n full chunks and a shorter one.
HasChunks(p, n) == Start(n) <= Len(p) /\ Len(p) < Start(n) + ChunkSize

\* g starts with the header and the first n segments of p, all full.
Begins(g, b, p, n) ==
  /\ Len(g) >= Skip(n)
  /\ \A k \in 1..HeaderLen : g[k] = Header(b)[k]
  /\ \A t \in 0..n - 1, at \in 1..Width : g[Skip(t) + at] = Seal(b, t, FALSE, Full(p, t))[at]

\* The header is what its bytes say.
LEMMA HeaderBytesOf ==
  ASSUME NEW b \in Blobs, NEW S
  PROVE  /\ Header(b) \in Seq(Bytes(S)) /\ Len(Header(b)) = HeaderLen
         /\ \A k \in 1..HeaderLen : "seg" \notin DOMAIN Header(b)[k]
<1>1. HeaderLen \in Nat
  BY Widths
<1>2. \A k \in 1..HeaderLen : /\ Header(b)[k] = [of |-> b, header |-> k]
                              /\ Header(b)[k] \in Bytes(S)
  BY <1>1 DEF Header, Bytes, HeaderBytes
<1>3. Header(b) \in [1..HeaderLen -> Bytes(S)]
  BY <1>2 DEF Header
<1>4. QED
  BY <1>1, <1>2, <1>3

\* A segment is its data and a tag.
LEMMA SegmentBytes ==
  ASSUME NEW b \in Blobs, NEW seg \in Nat, NEW last \in BOOLEAN, NEW S, NEW data \in Seq(S)
  PROVE  LET s == Seal(b, seg, last, data)
         IN /\ s \in Seq(Bytes(S)) /\ Len(s) = Len(data) + TagLen
            /\ \A i \in 1..Len(data) + TagLen :
                 s[i] = [of |-> b, seg |-> seg, last |-> last, size |-> Len(data), at |-> i,
                         plain |-> IF i <= Len(data) THEN data[i] ELSE 0]
<1> DEFINE s == Seal(b, seg, last, data)
           n == Len(data) + TagLen
           byte(i) == [of |-> b, seg |-> seg, last |-> last, size |-> Len(data), at |-> i,
                       plain |-> IF i <= Len(data) THEN data[i] ELSE 0]
<1>1. Len(data) \in Nat /\ n \in Nat /\ \A i \in 1..Len(data) : data[i] \in S
  BY Widths
<1>2. s = [i \in 1..n |-> byte(i)]
  BY DEF Seal
<1>3. \A i \in 1..n : byte(i) \in SealedBytes(S)
  BY <1>1 DEF SealedBytes
<1> HIDE DEF s, n, byte
<1>4. s \in [1..n -> Bytes(S)] /\ \A i \in 1..n : s[i] = byte(i)
  BY <1>2, <1>3 DEF Bytes
<1>5. s \in Seq(Bytes(S)) /\ Len(s) = n
  BY <1>1, <1>4
<1>6. QED
  BY <1>4, <1>5 DEF s, n, byte

\* Chunks are what their numbers say.
LEMMA ChunkBytes ==
  ASSUME NEW S, NEW p \in Seq(S), NEW n \in Nat, Start(n) <= Len(p)
  PROVE  /\ Remainder(p, n) \in Seq(S) /\ Len(Remainder(p, n)) = Len(p) - Start(n)
         /\ \A i \in 1..Len(p) - Start(n) : Remainder(p, n)[i] = p[Start(n) + i]
         /\ Start(n) + ChunkSize <= Len(p) =>
              /\ Full(p, n) \in Seq(S) /\ Len(Full(p, n)) = ChunkSize
              /\ \A i \in 1..ChunkSize : Full(p, n)[i] = p[Start(n) + i]
<1>1. Start(n) \in Nat /\ ChunkSize \in Nat \ {0} /\ Len(p) \in Nat
  BY Skips, Widths
<1>2. \A i \in 1..Len(p) : p[i] \in S
  OBVIOUS
<1> DEFINE a == Start(n)
           l == Len(p)
<1>3. a \in Nat /\ l \in Nat /\ a <= l
  BY <1>1
<1> HIDE DEF a, l
<1>4. /\ SubSeq(p, a + 1, l) \in Seq(S)
      /\ Len(SubSeq(p, a + 1, l)) = l - a
      /\ \A i \in 1..l - a : SubSeq(p, a + 1, l)[i] = p[a + i]
  <2>1. \A i \in a + 1..l : p[i] \in S
    BY <1>2, <1>3 DEF l
  <2>2. /\ SubSeq(p, a + 1, l) \in Seq(S)
        /\ Len(SubSeq(p, a + 1, l)) = IF a + 1 <= l THEN l - (a + 1) + 1 ELSE 0
        /\ \A i \in 1..l - (a + 1) + 1 : SubSeq(p, a + 1, l)[i] = p[(a + 1) + i - 1]
    BY <1>3, <2>1, SubSeqProperties
  <2>3. QED
    BY <1>3, <2>2
<1>5. ASSUME a + ChunkSize <= l
      PROVE  /\ SubSeq(p, a + 1, a + ChunkSize) \in Seq(S)
             /\ Len(SubSeq(p, a + 1, a + ChunkSize)) = ChunkSize
             /\ \A i \in 1..ChunkSize : SubSeq(p, a + 1, a + ChunkSize)[i] = p[a + i]
  <2>1. \A i \in a + 1..a + ChunkSize : p[i] \in S
    BY <1>1, <1>2, <1>3, <1>5 DEF l
  <2> DEFINE z == a + ChunkSize
  <2>2. z \in Nat /\ a + 1 <= z /\ z - (a + 1) + 1 = ChunkSize
    BY <1>1, <1>3
  <2> HIDE DEF z
  <2>3. /\ SubSeq(p, a + 1, z) \in Seq(S)
        /\ Len(SubSeq(p, a + 1, z)) = IF a + 1 <= z THEN z - (a + 1) + 1 ELSE 0
        /\ \A i \in 1..z - (a + 1) + 1 : SubSeq(p, a + 1, z)[i] = p[(a + 1) + i - 1]
    <3>1. \A i \in a + 1..z : p[i] \in S
      BY <2>1 DEF z
    <3>2. QED
      BY <1>3, <2>2, <3>1, SubSeqProperties
  <2>4. QED
    BY <1>1, <1>3, <2>2, <2>3 DEF z
<1>6. QED
  BY <1>4, <1>5 DEF a, l, Remainder, Full

\* What an encryptor has written and buffered after i bytes of p: n segments
\* are written, the rest waits.
Encoding(w, buf, b, S, p, i, n) ==
  /\ Start(n) <= i /\ i < Start(n) + ChunkSize
  /\ buf = SubSeq(p, Start(n) + 1, i)
  /\ w \in Seq(Bytes(S)) /\ Len(w) = Skip(n)
  /\ Begins(w, b, p, n)

Encoder(w, buf, b, n) == [of |-> b, written |-> w, buf |-> buf, seg |-> n]

\* It has written its full buffer c as a segment.
Emptied(w, c, b, n) == Encoder(w \o Seal(b, n, FALSE, c), <<>>, b, n + 1)

\* Writing another full segment.
LEMMA SegmentWritten ==
  ASSUME NEW b \in Blobs, NEW S, NEW p \in Seq(S), NEW n \in Nat,
         Start(n) + ChunkSize <= Len(p),
         NEW w \in Seq(Bytes(S)), Len(w) = Skip(n), Begins(w, b, p, n)
  PROVE  LET g == w \o Seal(b, n, FALSE, Full(p, n))
         IN g \in Seq(Bytes(S)) /\ Len(g) = Skip(n + 1) /\ Begins(g, b, p, n + 1)
<1> DEFINE s == Seal(b, n, FALSE, Full(p, n))
           g == w \o s
<1>1. /\ Skip(n) \in Nat /\ Skip(n) >= HeaderLen /\ Start(n) \in Nat
      /\ Width \in Nat \ {0} /\ Width = ChunkSize + TagLen /\ HeaderLen \in Nat
      /\ ChunkSize \in Nat
  BY Skips, Widths
<1>2. Skip(n + 1) = Skip(n) + Width
  BY SkipNext, Zenon
<1>3. Full(p, n) \in Seq(S) /\ Len(Full(p, n)) = ChunkSize
  BY <1>1, ChunkBytes
<1>4. s \in Seq(Bytes(S)) /\ Len(s) = Width
  <2>1. s \in Seq(Bytes(S)) /\ Len(s) = Len(Full(p, n)) + TagLen
    BY <1>3, SegmentBytes, Zenon
  <2>2. QED
    BY <1>1, <1>3, <2>1
<1> HIDE DEF s
<1>5. /\ g \in Seq(Bytes(S)) /\ Len(g) = Skip(n) + Width
      /\ \A i \in 1..Skip(n) + Width : g[i] = IF i <= Skip(n) THEN w[i] ELSE s[i - Skip(n)]
  <2>1. /\ g \in Seq(Bytes(S)) /\ Len(g) = Len(w) + Len(s)
        /\ \A i \in 1..Len(w) + Len(s) : g[i] = IF i <= Len(w) THEN w[i] ELSE s[i - Len(w)]
    BY <1>4, ConcatProperties, Zenon
  <2>2. QED
    BY <1>4, <2>1, Zenon
<1> HIDE DEF g
<1>6. ASSUME NEW i \in 1..Skip(n) PROVE g[i] = w[i]
  BY <1>1, <1>5
<1>7. ASSUME NEW at \in 1..Width PROVE g[Skip(n) + at] = s[at]
  <2>1. /\ Skip(n) + at \in 1..Skip(n) + Width /\ ~(Skip(n) + at <= Skip(n))
        /\ (Skip(n) + at) - Skip(n) = at
    BY <1>1
  <2>2. QED
    BY <1>5, <2>1
<1>8. ASSUME NEW k \in 1..HeaderLen PROVE g[k] = Header(b)[k]
  <2>1. k \in 1..Skip(n)
    BY <1>1
  <2>2. w[k] = Header(b)[k]
    BY DEF Begins
  <2>3. QED
    BY <1>6, <2>1, <2>2
<1>9. ASSUME NEW t \in 0..(n + 1) - 1, NEW at \in 1..Width
      PROVE  g[Skip(t) + at] = Seal(b, t, FALSE, Full(p, t))[at]
  <2>1. CASE t = n
    BY <1>7, <2>1 DEF s
  <2>2. CASE t # n
    <3>1. t \in 0..n - 1 /\ t + 1 \in 0..n /\ t \in Nat
      BY <2>2
    <3>2. Skip(t + 1) <= Skip(n)
      BY <3>1, SkipsGrow
    <3>3. Skip(t) \in Nat /\ Skip(t + 1) = Skip(t) + Width
      BY <3>1, Skips, SkipNext, Zenon
    <3>4. Skip(t) + at \in 1..Skip(n)
      BY SMTT(30), <1>1, <3>2, <3>3
    <3>5. w[Skip(t) + at] = Seal(b, t, FALSE, Full(p, t))[at]
      BY <3>1, Zenon DEF Begins
    <3>6. QED
      BY <1>6, <3>4, <3>5
  <2>3. QED
    BY <2>1, <2>2
<1>10. Len(g) >= Skip(n + 1)
  BY <1>1, <1>2, <1>5
<1>11. Begins(g, b, p, n + 1)
  BY <1>8, <1>9, <1>10, Zenon DEF Begins
<1>12. QED
  BY <1>2, <1>5, <1>11 DEF g, s

\* A byte that does not fill the buffer, and one that does.
LEMMA WriteByteBuffers ==
  ASSUME NEW w, NEW buf, NEW b, NEW n \in Nat, NEW x, Len(Append(buf, x)) # ChunkSize
  PROVE  WriteByte(Encoder(w, buf, b, n), x) = Encoder(w, Append(buf, x), b, n)
BY DEF WriteByte, Encoder

\* A byte that fills the buffer has the chunk written.
LEMMA WriteByteFills ==
  ASSUME NEW w, NEW buf, NEW b, NEW n \in Nat, NEW x, Len(Append(buf, x)) = ChunkSize
  PROVE  WriteByte(Encoder(w, buf, b, n), x) = Emptied(w, Append(buf, x), b, n)
<1> DEFINE c == Append(buf, x)
           e == Encoder(w, c, b, n)
           z == w \o Seal(b, n, FALSE, c)
<1>1. [Encoder(w, buf, b, n) EXCEPT !.buf = Append(@, x)] = e
  BY DEF Encoder
<1>2. e.of = b /\ e.written = w /\ e.buf = c /\ e.seg = n
  BY DEF Encoder
<1>3. WriteFullChunk(e) = Encoder(z, <<>>, b, n + 1)
  <2>1. WriteFullChunk(e) = [e EXCEPT !.written = z, !.seg = n + 1, !.buf = <<>>]
    <3> HIDE DEF e
    <3>1. QED
      BY <1>2, Zenon DEF WriteFullChunk
  <2> HIDE DEF z
  <2>2. QED
    BY <2>1 DEF Encoder
<1> HIDE DEF e, z
<1>4. WriteByte(Encoder(w, buf, b, n), x) = WriteFullChunk(e)
  BY <1>1, <1>2 DEF WriteByte
<1>5. QED
  BY <1>3, <1>4 DEF e, z, Emptied

\* A part of a sequence grows by the element behind it.
LEMMA PartGrows ==
  ASSUME NEW S, NEW p \in Seq(S), NEW m \in Nat \ {0}, NEW i \in Nat, m - 1 <= i, i < Len(p)
  PROVE  /\ Append(SubSeq(p, m, i), p[i + 1]) = SubSeq(p, m, i + 1)
         /\ Len(SubSeq(p, m, i + 1)) = (i + 1) - (m - 1)
<1> DEFINE l == i + 1
<1>1. /\ m \in 1..Len(p) /\ l \in m..Len(p) /\ l \in m..Len(p) + 1 /\ l - 1 = i
      /\ m \in Int /\ l \in Int /\ i \in Int /\ \A k \in 1..Len(p) : p[k] \in S
  OBVIOUS
<1>2. (\A k \in m..i : p[k] \in S) /\ (\A k \in m..l : p[k] \in S)
  BY <1>1
<1> HIDE DEF l
<1>3. SubSeq(p, m, l) = SubSeq(p, m, l - 1) \o <<p[l]>>
  BY <1>1, SubSeqRecursiveSecond
<1>4. SubSeq(p, m, i) \in Seq(S) /\ p[l] \in S
  BY <1>1, <1>2, SubSeqProperties
<1>5. Append(SubSeq(p, m, i), p[l]) = SubSeq(p, m, i) \o <<p[l]>>
  BY <1>4, AppendIsConcat
<1>6. Len(SubSeq(p, m, l)) = IF m <= l THEN l - m + 1 ELSE 0
  BY <1>1, <1>2, SubSeqProperties
<1>7. Len(SubSeq(p, m, l)) = l - (m - 1)
  BY <1>1, <1>6
<1>8. QED
  BY <1>1, <1>3, <1>5, <1>7 DEF l

\* One byte more.
LEMMA WriteByteEncodes ==
  ASSUME NEW b \in Blobs, NEW S, NEW p \in Seq(S), NEW i \in Nat, i < Len(p), NEW n \in Nat,
         NEW w, NEW buf, Encoding(w, buf, b, S, p, i, n)
  PROVE  \E m \in Nat : \E v, c : /\ WriteByte(Encoder(w, buf, b, n), p[i + 1]) = Encoder(v, c, b, m)
                                  /\ Encoding(v, c, b, S, p, i + 1, m)
<1> DEFINE more == SubSeq(p, Start(n) + 1, i + 1)
<1>1. /\ Start(n) <= i /\ i < Start(n) + ChunkSize /\ buf = SubSeq(p, Start(n) + 1, i)
      /\ w \in Seq(Bytes(S)) /\ Len(w) = Skip(n) /\ Begins(w, b, p, n)
  BY DEF Encoding
<1>2. Start(n) \in Nat /\ ChunkSize \in Nat \ {0} /\ Len(p) \in Nat
  BY Skips, Widths
<1>3. Append(buf, p[i + 1]) = more /\ Len(more) = (i + 1) - Start(n)
  <2> DEFINE m == Start(n) + 1
  <2>1. m \in Nat \ {0} /\ m - 1 <= i /\ m - 1 = Start(n)
    BY <1>1, <1>2
  <2> HIDE DEF m
  <2>2. Append(SubSeq(p, m, i), p[i + 1]) = SubSeq(p, m, i + 1)
        /\ Len(SubSeq(p, m, i + 1)) = (i + 1) - (m - 1)
    BY <2>1, PartGrows
  <2>3. QED
    BY <1>1, <2>1, <2>2 DEF m
<1> HIDE DEF more
<1>4. CASE i + 1 < Start(n) + ChunkSize
  <2>1. Len(more) # ChunkSize
    BY <1>2, <1>3, <1>4
  <2>2. WriteByte(Encoder(w, buf, b, n), p[i + 1]) = Encoder(w, more, b, n)
    <3>1. Append(buf, p[i + 1]) = more
      BY <1>3
    <3>2. Len(Append(buf, p[i + 1])) # ChunkSize
      BY <2>1, <3>1, Zenon
    <3>3. WriteByte(Encoder(w, buf, b, n), p[i + 1]) = Encoder(w, Append(buf, p[i + 1]), b, n)
      BY <3>2, WriteByteBuffers
    <3>4. QED
      BY <3>1, <3>3, Zenon
  <2>3. Start(n) <= i + 1
    BY <1>1, <1>2
  <2>4. Encoding(w, more, b, S, p, i + 1, n)
    BY <1>1, <1>4, <2>3, Zenon DEF Encoding, more
  <2>5. QED
    BY <2>2, <2>4, Zenon
<1>5. CASE i + 1 = Start(n) + ChunkSize
  <2> DEFINE v == w \o Seal(b, n, FALSE, Full(p, n))
  <2>1. Len(more) = ChunkSize
    BY <1>2, <1>3, <1>5
  <2>2. more = Full(p, n)
    BY <1>5, Zenon DEF more, Full
  <2>3. WriteByte(Encoder(w, buf, b, n), p[i + 1]) = Encoder(v, <<>>, b, n + 1)
    <3>1. Append(buf, p[i + 1]) = more
      BY <1>3
    <3>2. Len(Append(buf, p[i + 1])) = ChunkSize
      BY <2>1, <3>1, Zenon
    <3>3. WriteByte(Encoder(w, buf, b, n), p[i + 1]) = Emptied(w, Append(buf, p[i + 1]), b, n)
      BY <3>2, WriteByteFills
    <3>4. QED
      BY <2>2, <3>1, <3>3, Zenon DEF Emptied
  <2>4. v \in Seq(Bytes(S)) /\ Len(v) = Skip(n + 1) /\ Begins(v, b, p, n + 1)
    <3>1. Start(n) + ChunkSize <= Len(p)
      BY <1>2, <1>5
    <3>2. QED
      BY <1>1, <3>1, SegmentWritten, Zenon
  <2> HIDE DEF v
  <2>5. n + 1 \in Nat /\ Start(n + 1) = i + 1 /\ Start(n + 1) \in Nat
    <3>1. Start(n + 1) = Start(n) + ChunkSize
      BY SkipNext, Zenon
    <3>2. QED
      BY <1>2, <1>5, <3>1
  <2>6. SubSeq(p, Start(n + 1) + 1, i + 1) = <<>>
    BY <2>5, SubSeqEmpty
  <2>7. Start(n + 1) <= i + 1 /\ i + 1 < Start(n + 1) + ChunkSize
    BY <1>2, <2>5
  <2>8. Encoding(v, <<>>, b, S, p, i + 1, n + 1)
    BY <2>4, <2>6, <2>7, Zenon DEF Encoding
  <2>9. QED
    BY <2>3, <2>5, <2>8, Zenon
<1>6. i + 1 < Start(n) + ChunkSize \/ i + 1 = Start(n) + ChunkSize
  BY <1>1, <1>2
<1>7. QED
  BY <1>4, <1>5, <1>6

\* A new encryptor has written the header.
LEMMA NewEncryptorEncodes ==
  ASSUME NEW b \in Blobs, NEW S, NEW p \in Seq(S)
  PROVE  /\ NewEncryptor(b) = Encoder(Header(b), <<>>, b, 0)
         /\ Encoding(Header(b), <<>>, b, S, p, 0, 0)
<1>1. NewEncryptor(b) = Encoder(Header(b), <<>>, b, 0)
  BY Zenon DEF NewEncryptor, Encoder
<1>2. /\ Start(0) = 0 /\ Skip(0) = HeaderLen /\ ChunkSize \in Nat \ {0} /\ HeaderLen \in Nat
  BY SkipZero, Widths
<1>3. Header(b) \in Seq(Bytes(S)) /\ Len(Header(b)) = HeaderLen
  BY HeaderBytesOf
<1>4. SubSeq(p, Start(0) + 1, 0) = <<>>
  BY <1>2, SubSeqEmpty
<1>5. Begins(Header(b), b, p, 0)
  <2>1. Len(Header(b)) >= Skip(0)
    BY <1>2, <1>3
  <2>2. \A t \in 0..0 - 1 : FALSE
    OBVIOUS
  <2>3. QED
    BY <2>1, <2>2, Zenon DEF Begins
<1>6. Start(0) <= 0 /\ 0 < Start(0) + ChunkSize
  BY <1>2
<1>7. QED
  BY <1>1, <1>2, <1>3, <1>4, <1>5, <1>6, Zenon DEF Encoding

\* The encryptor's states while it is written the first m bytes of p.
Encrypting(f, b, p, m) ==
  f = [i \in 0..m |-> IF i = 0 THEN NewEncryptor(b) ELSE WriteByte(f[i - 1], p[i])]

\* The states that Encrypt goes through exist: CHOOSE finds them.
LEMMA EncryptingExists ==
  ASSUME NEW b, NEW p
  PROVE  \A m \in Nat : \E f : Encrypting(f, b, p, m)
<1> DEFINE T == {m \in Nat : \E f : Encrypting(f, b, p, m)}
<1>1. 0 \in T
  <2> DEFINE f == [i \in 0..0 |-> NewEncryptor(b)]
  <2>1. f = [i \in 0..0 |-> IF i = 0 THEN NewEncryptor(b) ELSE WriteByte(f[i - 1], p[i])]
    OBVIOUS
  <2>2. QED
    BY <2>1 DEF Encrypting
<1>2. ASSUME NEW m \in Nat, m \in T PROVE m + 1 \in T
  <2>1. PICK f : f = [i \in 0..m |-> IF i = 0 THEN NewEncryptor(b) ELSE WriteByte(f[i - 1], p[i])]
    BY <1>2 DEF Encrypting
  <2> DEFINE g == [i \in 0..m + 1 |-> IF i = m + 1 THEN WriteByte(f[m], p[m + 1]) ELSE f[i]]
             F(i) == IF i = 0 THEN NewEncryptor(b) ELSE WriteByte(g[i - 1], p[i])
  <2>2. \A i \in 0..m : g[i] = f[i] /\ f[i] = IF i = 0 THEN NewEncryptor(b)
                                                       ELSE WriteByte(f[i - 1], p[i])
    BY <2>1
  <2>3. g[m + 1] = WriteByte(f[m], p[m + 1])
    OBVIOUS
  <2>4. g = [i \in 0..m + 1 |-> g[i]]
    OBVIOUS
  <2> HIDE DEF g
  <2>5. ASSUME NEW i \in 0..m + 1 PROVE g[i] = F(i)
    <3>1. CASE i = m + 1
      <4>1. i - 1 = m /\ i # 0 /\ m \in 0..m
        BY <3>1
      <4>2. g[m] = f[m]
        BY <2>2, <4>1
      <4>3. QED
        BY <2>3, <3>1, <4>1, <4>2
    <3>2. CASE i \in 0..m /\ i # 0
      <4>1. i - 1 \in 0..m
        BY <3>2
      <4>2. g[i - 1] = f[i - 1]
        BY <2>2, <4>1
      <4>3. QED
        BY <2>2, <3>2, <4>2
    <3>3. CASE i = 0
      BY <2>2, <3>3
    <3>4. QED
      BY <3>1, <3>2, <3>3
  <2>6. g = [i \in 0..m + 1 |-> F(i)]
    BY <2>4, <2>5
  <2>7. QED
    BY <2>6 DEF Encrypting
<1> HIDE DEF T
<1>3. \A m \in Nat : m \in T
  BY <1>1, <1>2, Induction
<1>4. QED
  BY <1>3 DEF T

\* What an encryptor writes.
LEMMA EncryptIs ==
  ASSUME NEW b \in Blobs, NEW S, NEW p \in Seq(S)
  PROVE  \E n \in Nat : \E w, buf : /\ Encoding(w, buf, b, S, p, Len(p), n)
                                    /\ Encrypt(b, p) = w \o Seal(b, n, TRUE, buf)
<1> DEFINE f == CHOOSE f : Encrypting(f, b, p, Len(p))
<1>1. Encrypt(b, p) = Finish(f[Len(p)])
  BY Zenon DEF Encrypt, Encrypting
<1>2. Len(p) \in Nat
  OBVIOUS
<1>3. Encrypting(f, b, p, Len(p))
  BY <1>2, EncryptingExists, Zenon
<1> HIDE DEF f
<1>4. \A i \in 0..Len(p) : f[i] = IF i = 0 THEN NewEncryptor(b) ELSE WriteByte(f[i - 1], p[i])
  <2> DEFINE F(i) == IF i = 0 THEN NewEncryptor(b) ELSE WriteByte(f[i - 1], p[i])
  <2>1. f = [i \in 0..Len(p) |-> F(i)]
    BY <1>3, Zenon DEF Encrypting
  <2> HIDE DEF F
  <2>2. \A i \in 0..Len(p) : f[i] = F(i)
    BY <2>1
  <2>3. QED
    BY <2>2 DEF F
<1> DEFINE P(i) == \E n \in Nat : \E w, buf : /\ f[i] = Encoder(w, buf, b, n)
                                             /\ Encoding(w, buf, b, S, p, i, n)
           T == {i \in Nat : i <= Len(p) => P(i)}
<1>5. 0 \in T
  <2>1. f[0] = Encoder(Header(b), <<>>, b, 0) /\ Encoding(Header(b), <<>>, b, S, p, 0, 0)
    BY <1>2, <1>4, NewEncryptorEncodes
  <2>2. P(0)
    BY <2>1
  <2>3. QED
    BY <2>2
<1>6. ASSUME NEW i \in Nat, i \in T PROVE i + 1 \in T
  <2>1. SUFFICES ASSUME i + 1 <= Len(p) PROVE P(i + 1)
    OBVIOUS
  <2>2. i < Len(p) /\ i + 1 \in 0..Len(p) /\ (i + 1) - 1 = i /\ i + 1 # 0 /\ i <= Len(p)
    BY <1>2, <2>1
  <2>3. PICK n, w, buf : n \in Nat /\ f[i] = Encoder(w, buf, b, n) /\ Encoding(w, buf, b, S, p, i, n)
    BY <1>6, <2>2
  <2>4. f[i + 1] = WriteByte(Encoder(w, buf, b, n), p[i + 1])
    BY <1>4, <2>2, <2>3
  <2>5. PICK m, v, c : /\ m \in Nat
                       /\ WriteByte(Encoder(w, buf, b, n), p[i + 1]) = Encoder(v, c, b, m)
                       /\ Encoding(v, c, b, S, p, i + 1, m)
    BY <2>2, <2>3, WriteByteEncodes
  <2>6. QED
    BY <2>4, <2>5, Zenon
<1> HIDE DEF T
<1>7. \A i \in Nat : i \in T
  BY <1>5, <1>6, Induction
<1>8. PICK n, w, buf : /\ n \in Nat
                       /\ f[Len(p)] = Encoder(w, buf, b, n)
                       /\ Encoding(w, buf, b, S, p, Len(p), n)
  <2>1. Len(p) <= Len(p)
    BY <1>2
  <2>2. QED
    BY <1>2, <1>7, <2>1, Zenon DEF T
<1>9. Finish(Encoder(w, buf, b, n)) = w \o Seal(b, n, TRUE, buf)
  BY DEF Finish, Encoder
<1>10. QED
  BY <1>1, <1>8, <1>9, Zenon

\* f is the file of p for blob b: n full segments and the last one.
LastLen(p, n) == (Len(p) - Start(n)) + TagLen

IsFile(f, b, S, p, n) ==
  /\ HasChunks(p, n)
  /\ f \in Seq(Bytes(S)) /\ Len(f) = Skip(n) + LastLen(p, n)
  /\ Begins(f, b, p, n)
  /\ \A at \in 1..LastLen(p, n) : f[Skip(n) + at] = Seal(b, n, TRUE, Remainder(p, n))[at]

\* Encryption writes full segments and then the last one.
LEMMA EncryptLayout ==
  ASSUME NEW b \in Blobs, NEW S, NEW p \in Seq(S)
  PROVE  \E n \in Nat : IsFile(Encrypt(b, p), b, S, p, n)
<1>0. PICK n \in Nat : \E w, buf : /\ Encoding(w, buf, b, S, p, Len(p), n)
                                   /\ Encrypt(b, p) = w \o Seal(b, n, TRUE, buf)
  BY EncryptIs
<1>1. PICK w, buf : /\ Encoding(w, buf, b, S, p, Len(p), n)
                    /\ Encrypt(b, p) = w \o Seal(b, n, TRUE, buf)
  BY <1>0
<1> DEFINE s == Seal(b, n, TRUE, Remainder(p, n))
           f == w \o s
<1>2. /\ Start(n) <= Len(p) /\ Len(p) < Start(n) + ChunkSize /\ buf = Remainder(p, n)
      /\ w \in Seq(Bytes(S)) /\ Len(w) = Skip(n) /\ Begins(w, b, p, n)
  BY <1>1, Zenon DEF Encoding, Remainder
<1>3. Encrypt(b, p) = f
  BY <1>1, <1>2, Zenon
<1>4. /\ Skip(n) \in Nat /\ Skip(n) >= HeaderLen /\ HeaderLen \in Nat /\ Start(n) \in Nat
      /\ Len(p) \in Nat /\ TagLen \in Nat /\ LastLen(p, n) \in Nat /\ Width \in Nat
  <2>1. Skip(n) \in Nat /\ Skip(n) >= HeaderLen /\ Start(n) \in Nat
    BY Skips, Zenon
  <2>2. Len(p) \in Nat
    OBVIOUS
  <2>3. QED
    BY <1>2, <2>1, <2>2, Widths DEF LastLen
<1>5. Remainder(p, n) \in Seq(S) /\ Len(Remainder(p, n)) = Len(p) - Start(n)
  BY <1>2, ChunkBytes
<1>6. s \in Seq(Bytes(S)) /\ Len(s) = LastLen(p, n)
  <2>1. s \in Seq(Bytes(S)) /\ Len(s) = Len(Remainder(p, n)) + TagLen
    BY <1>5, SegmentBytes, Zenon
  <2>2. QED
    BY <1>5, <2>1 DEF LastLen
<1> HIDE DEF s
<1>7. /\ f \in Seq(Bytes(S)) /\ Len(f) = Len(w) + Len(s)
      /\ \A i \in 1..Len(w) + Len(s) : f[i] = IF i <= Len(w) THEN w[i] ELSE s[i - Len(w)]
  BY <1>2, <1>6, ConcatProperties, Zenon
<1>8. /\ f \in Seq(Bytes(S)) /\ Len(f) = Skip(n) + LastLen(p, n)
      /\ \A i \in 1..Skip(n) + LastLen(p, n) :
           f[i] = IF i <= Skip(n) THEN w[i] ELSE s[i - Skip(n)]
  BY <1>2, <1>6, <1>7, Zenon
<1> HIDE DEF f
<1>9. ASSUME NEW i \in 1..Skip(n) PROVE f[i] = w[i]
  BY <1>4, <1>8
<1>10. ASSUME NEW at \in 1..LastLen(p, n) PROVE f[Skip(n) + at] = s[at]
  <2>1. /\ Skip(n) + at \in 1..Skip(n) + LastLen(p, n) /\ ~(Skip(n) + at <= Skip(n))
        /\ (Skip(n) + at) - Skip(n) = at
    BY <1>4
  <2>2. QED
    BY <1>8, <2>1
<1>11. Begins(f, b, p, n)
  <2>1. Len(f) >= Skip(n)
    BY <1>4, <1>8
  <2>2. ASSUME NEW k \in 1..HeaderLen PROVE f[k] = Header(b)[k]
    <3>1. k \in 1..Skip(n)
      BY <1>4
    <3>2. w[k] = Header(b)[k]
      BY <1>2, Zenon DEF Begins
    <3>3. QED
      BY <1>9, <3>1, <3>2
  <2>3. ASSUME NEW t \in 0..n - 1, NEW at \in 1..Width
        PROVE  f[Skip(t) + at] = Seal(b, t, FALSE, Full(p, t))[at]
    <3>1. t \in Nat /\ t + 1 \in 0..n
      OBVIOUS
    <3>2. Skip(t + 1) <= Skip(n)
      BY <3>1, SkipsGrow
    <3>3. Skip(t) \in Nat /\ Skip(t + 1) = Skip(t) + Width
      BY <3>1, Skips, SkipNext, Zenon
    <3>4. Skip(t) + at \in 1..Skip(n)
      BY <1>4, <3>2, <3>3
    <3>5. w[Skip(t) + at] = Seal(b, t, FALSE, Full(p, t))[at]
      BY <1>2, Zenon DEF Begins
    <3>6. QED
      BY <1>9, <3>4, <3>5
  <2>4. QED
    BY <2>1, <2>2, <2>3, Zenon DEF Begins
<1>12. IsFile(f, b, S, p, n)
  BY <1>2, <1>8, <1>10, <1>11, Zenon DEF IsFile, HasChunks, s
<1>13. QED
  BY <1>3, <1>12 DEF f

\* Chunk t, and the segment that holds it.
Chunk(p, n, t) == IF t = n THEN Remainder(p, n) ELSE Full(p, t)
SegmentOf(b, p, n, t) == Seal(b, t, t = n, Chunk(p, n, t))

\* A chunk lies within the content and has the length of its place.
LEMMA Chunks ==
  ASSUME NEW S, NEW p \in Seq(S), NEW n \in Nat, HasChunks(p, n), NEW t \in 0..n
  PROVE  /\ Start(t) <= Len(p)
         /\ t < n => Start(t) + ChunkSize <= Len(p)
         /\ Chunk(p, n, t) \in Seq(S)
         /\ Len(Chunk(p, n, t)) = IF t = n THEN Len(p) - Start(n) ELSE ChunkSize
         /\ \A i \in 1..Len(Chunk(p, n, t)) : Chunk(p, n, t)[i] = p[Start(t) + i]
<1>1. /\ t \in Nat /\ Start(t) \in Nat /\ Start(n) \in Nat /\ Len(p) \in Nat
      /\ ChunkSize \in Nat
  <2>1. t \in Nat /\ Len(p) \in Nat
    OBVIOUS
  <2>2. Start(t) \in Nat /\ Start(n) \in Nat
    BY <2>1, Skips, Zenon
  <2>3. QED
    BY <2>1, <2>2, Widths
<1>2. Start(n) <= Len(p)
  BY DEF HasChunks
<1>3. Start(t) <= Start(n) /\ (t < n => Start(t) + ChunkSize <= Start(n))
  <2>1. t * ChunkSize <= n * ChunkSize
    BY <1>1
  <2>2. ASSUME t < n PROVE (t + 1) * ChunkSize <= n * ChunkSize
    <3>1. t + 1 \in Nat /\ t + 1 <= n
      BY <2>2
    <3>2. QED
      BY <1>1, <3>1
  <2>3. Start(t + 1) = Start(t) + ChunkSize
    BY <1>1, SkipNext, Zenon
  <2>4. QED
    BY <2>1, <2>2, <2>3 DEF Start
<1>4. Start(t) <= Len(p) /\ (t < n => Start(t) + ChunkSize <= Len(p))
  BY <1>1, <1>2, <1>3
<1>5. CASE t = n
  <2>1. Chunk(p, n, t) = Remainder(p, n)
    BY <1>5 DEF Chunk
  <2>2. QED
    BY <1>2, <1>4, <1>5, <2>1, ChunkBytes
<1>6. CASE t # n
  <2>1. Chunk(p, n, t) = Full(p, t) /\ t < n
    BY <1>1, <1>6 DEF Chunk
  <2>2. /\ Full(p, t) \in Seq(S) /\ Len(Full(p, t)) = ChunkSize
        /\ \A i \in 1..ChunkSize : Full(p, t)[i] = p[Start(t) + i]
    BY <1>1, <1>4, <2>1, ChunkBytes
  <2>3. QED
    BY <1>4, <1>6, <2>1, <2>2
<1>7. QED
  BY <1>5, <1>6
-------------------------------------------------------------------------------
(* Reading.  g is any sequence over a set B, of which a are decrypted. *)

\* What reading up to n bytes of s gives.
LEMMA FirstOfIs ==
  ASSUME NEW B, NEW s \in Seq(B), NEW n \in Nat
  PROVE  /\ FirstOf(s, n) \in Seq(B)
         /\ Len(FirstOf(s, n)) = IF n < Len(s) THEN n ELSE Len(s)
         /\ \A i \in 1..Len(FirstOf(s, n)) : FirstOf(s, n)[i] = s[i]
<1> DEFINE m == IF n < Len(s) THEN n ELSE Len(s)
           r == SubSeq(s, 1, m)
<1>1. m \in Nat /\ m <= Len(s) /\ \A i \in 1..Len(s) : s[i] \in B
  OBVIOUS
<1>2. FirstOf(s, n) = r
  BY DEF FirstOf
<1> HIDE DEF m
<1>3. r \in Seq(B) /\ Len(r) = m /\ \A i \in 1..m : r[i] = s[i]
  <2>1. \A i \in 1..m : s[i] \in B
    BY <1>1
  <2>2. /\ r \in Seq(B) /\ Len(r) = IF 1 <= m THEN m - 1 + 1 ELSE 0
        /\ \A i \in 1..m - 1 + 1 : r[i] = s[1 + i - 1]
    BY <1>1, <2>1, SubSeqProperties
  <2>3. QED
    BY <1>1, <2>2
<1> HIDE DEF r
<1>4. QED
  BY <1>2, <1>3 DEF m

\* What is left of s after m bytes.
LEMMA RestIs ==
  ASSUME NEW B, NEW s \in Seq(B), NEW m \in Nat
  PROVE  /\ SubSeq(s, m + 1, Len(s)) \in Seq(B)
         /\ Len(SubSeq(s, m + 1, Len(s))) = IF m < Len(s) THEN Len(s) - m ELSE 0
         /\ \A i \in 1..Len(SubSeq(s, m + 1, Len(s))) : SubSeq(s, m + 1, Len(s))[i] = s[m + i]
<1> DEFINE l == Len(s)
           r == SubSeq(s, m + 1, l)
<1>1. l \in Nat /\ \A i \in m + 1..l : s[i] \in B
  OBVIOUS
<1> HIDE DEF l
<1>2. /\ r \in Seq(B) /\ Len(r) = IF m + 1 <= l THEN l - (m + 1) + 1 ELSE 0
      /\ \A i \in 1..l - (m + 1) + 1 : r[i] = s[(m + 1) + i - 1]
  BY <1>1, SubSeqProperties
<1> HIDE DEF r
<1>3. r \in Seq(B) /\ Len(r) = (IF m < l THEN l - m ELSE 0)
      /\ \A i \in 1..Len(r) : r[i] = s[m + i]
  BY <1>1, <1>2
<1>4. QED
  BY <1>3 DEF l, r

\* The byte read ahead and the bytes not read yet are what follows the first a
\* bytes of g.
Cut(pending, rest, B, g, a) ==
  /\ pending \in Seq(B) /\ rest \in Seq(B) /\ Len(pending) <= 1
  /\ a + Len(pending) + Len(rest) = Len(g)
  /\ \A i \in 1..Len(pending) : pending[i] = g[a + i]
  /\ \A i \in 1..Len(rest) : rest[i] = g[a + Len(pending) + i]

\* What a segment is filled with, and what is left behind it.
Filled(pending, rest) == pending \o FirstOf(rest, ChunkSize + TagLen - Len(pending))
Behind(pending, rest) == SubSeq(rest, ChunkSize + TagLen - Len(pending) + 1, Len(rest))

\* A read gives the next bytes of g, up to a full segment of them.
LEMMA FilledIs ==
  ASSUME NEW B, NEW g \in Seq(B), NEW a \in Nat,
         NEW pending, NEW rest, Cut(pending, rest, B, g, a)
  PROVE  /\ Filled(pending, rest) \in Seq(B)
         /\ Len(Filled(pending, rest)) = IF a + Width < Len(g) THEN Width ELSE Len(g) - a
         /\ \A i \in 1..Len(Filled(pending, rest)) : Filled(pending, rest)[i] = g[a + i]
         /\ Behind(pending, rest) \in Seq(B)
         /\ Len(Behind(pending, rest)) =
              IF a + Width < Len(g) THEN Len(g) - (a + Width) ELSE 0
         /\ \A i \in 1..Len(Behind(pending, rest)) :
              Behind(pending, rest)[i] = g[a + Width + i]
<1> DEFINE ahead == Len(pending)
           want == ChunkSize + TagLen - ahead
           first == FirstOf(rest, want)
           s == pending \o first
           r == SubSeq(rest, want + 1, Len(rest))
<1>1. /\ pending \in Seq(B) /\ rest \in Seq(B) /\ ahead \in Nat /\ ahead <= 1
      /\ Len(rest) \in Nat /\ Len(g) \in Nat /\ a + ahead + Len(rest) = Len(g)
      /\ \A i \in 1..ahead : pending[i] = g[a + i]
      /\ \A i \in 1..Len(rest) : rest[i] = g[a + ahead + i]
  BY DEF Cut
<1>2. Width \in Nat \ {0} /\ Width = ChunkSize + TagLen
  BY Widths
<1>3. want \in Nat /\ ahead + want = Width
  BY <1>1, Widths
<1>4. Filled(pending, rest) = s /\ Behind(pending, rest) = r
  BY DEF Filled, Behind
<1> HIDE DEF want
<1>5. /\ first \in Seq(B) /\ Len(first) = (IF want < Len(rest) THEN want ELSE Len(rest))
      /\ \A i \in 1..Len(first) : first[i] = rest[i]
  BY <1>1, <1>3, FirstOfIs
<1>6. /\ r \in Seq(B) /\ Len(r) = (IF want < Len(rest) THEN Len(rest) - want ELSE 0)
      /\ \A i \in 1..Len(r) : r[i] = rest[want + i]
  BY <1>1, <1>3, RestIs
<1> HIDE DEF first, r
<1>7. /\ s \in Seq(B) /\ Len(s) = ahead + Len(first)
      /\ \A i \in 1..ahead + Len(first) :
           s[i] = IF i <= ahead THEN pending[i] ELSE first[i - ahead]
  <2>1. pending \in Seq(B) /\ first \in Seq(B)
    BY <1>1, <1>5
  <2>2. QED
    BY <2>1, ConcatProperties, Zenon
<1> HIDE DEF s, ahead
<1>8. Len(s) = IF a + Width < Len(g) THEN Width ELSE Len(g) - a
  BY SMTT(30), <1>1, <1>2, <1>3, <1>5, <1>7
<1>9. ASSUME NEW i \in 1..Len(s) PROVE s[i] = g[a + i]
  <2>1. Len(first) \in Nat /\ Len(first) <= Len(rest)
    BY <1>1, <1>3, <1>5
  <2>2. CASE i <= ahead
    <3>1. i \in 1..ahead
      BY <1>1, <2>2
    <3>2. QED
      BY <1>1, <1>7, <2>2, <3>1
  <2>3. CASE ~(i <= ahead)
    <3>1. i - ahead \in 1..Len(first) /\ i - ahead \in 1..Len(rest) /\ a + ahead + (i - ahead) = a + i
      BY <1>1, <1>7, <2>1, <2>3
    <3>2. s[i] = first[i - ahead]
      BY <1>7, <2>3
    <3>3. first[i - ahead] = rest[i - ahead]
      BY <1>5, <3>1
    <3>4. rest[i - ahead] = g[a + ahead + (i - ahead)]
      BY <1>1, <3>1
    <3>5. QED
      BY <3>1, <3>2, <3>3, <3>4
  <2>4. QED
    BY <2>2, <2>3
<1>10. Len(r) = IF a + Width < Len(g) THEN Len(g) - (a + Width) ELSE 0
  BY SMTT(30), <1>1, <1>2, <1>3, <1>6
<1>11. ASSUME NEW i \in 1..Len(r) PROVE r[i] = g[a + Width + i]
  <2>1. want + i \in 1..Len(rest) /\ a + ahead + (want + i) = a + Width + i
    BY <1>1, <1>2, <1>3, <1>6
  <2>2. r[i] = rest[want + i]
    BY <1>6
  <2>3. rest[want + i] = g[a + ahead + (want + i)]
    BY <1>1, <2>1
  <2>4. QED
    BY <2>1, <2>2, <2>3
<1>12. QED
  BY <1>4, <1>6, <1>7, <1>8, <1>9, <1>10, <1>11, Zenon

\* One byte of what is left is read ahead.
LEMMA ReadAhead ==
  ASSUME NEW B, NEW g \in Seq(B), NEW a \in Nat, NEW after \in Seq(B), after # <<>>,
         a + Len(after) = Len(g), \A i \in 1..Len(after) : after[i] = g[a + i]
  PROVE  Cut(SubSeq(after, 1, 1), Tail(after), B, g, a)
<1>1. Len(after) \in Nat \ {0} /\ \A i \in 1..Len(after) : after[i] \in B
  BY EmptySeq
<1>2. /\ SubSeq(after, 1, 1) \in Seq(B) /\ Len(SubSeq(after, 1, 1)) = 1
      /\ SubSeq(after, 1, 1)[1] = after[1]
  <2>1. \A i \in 1..1 : after[i] \in B
    BY <1>1
  <2>2. /\ SubSeq(after, 1, 1) \in Seq(B)
        /\ Len(SubSeq(after, 1, 1)) = IF 1 <= 1 THEN 1 - 1 + 1 ELSE 0
        /\ \A i \in 1..1 - 1 + 1 : SubSeq(after, 1, 1)[i] = after[1 + i - 1]
    BY <2>1, SubSeqProperties
  <2>3. QED
    BY <2>2
<1>3. /\ Tail(after) \in Seq(B) /\ Len(Tail(after)) = Len(after) - 1
      /\ \A i \in 1..Len(Tail(after)) : Tail(after)[i] = after[i + 1]
  BY HeadTailProperties
<1> DEFINE h == SubSeq(after, 1, 1)
           r == Tail(after)
<1> HIDE DEF h, r
<1>4. a + Len(h) + Len(r) = Len(g)
  BY <1>1, <1>2, <1>3 DEF h, r
<1>5. ASSUME NEW i \in 1..Len(h) PROVE h[i] = g[a + i]
  <2>1. i = 1 /\ 1 \in 1..Len(after)
    BY <1>1, <1>2, <1>5 DEF h
  <2>2. QED
    BY <1>2, <2>1 DEF h
<1>6. ASSUME NEW i \in 1..Len(r) PROVE r[i] = g[a + Len(h) + i]
  <2>1. i + 1 \in 1..Len(after) /\ a + Len(h) + i = a + (i + 1)
    BY <1>1, <1>2, <1>3, <1>6 DEF h, r
  <2>2. r[i] = after[i + 1]
    BY <1>3, <1>6 DEF r
  <2>3. QED
    BY <2>1, <2>2
<1>7. Len(h) <= 1 /\ h \in Seq(B) /\ r \in Seq(B)
  BY <1>2, <1>3 DEF h, r
<1>8. Cut(h, r, B, g, a)
  BY <1>4, <1>5, <1>6, <1>7, Zenon DEF Cut
<1>9. QED
  BY <1>8 DEF h, r

\* A byte of blob b is one of its file's, in whatever file it is found: nobody
\* else can seal.
Genuine(x, b, p, n) ==
  ("seg" \in DOMAIN x /\ x.of = b) =>
    /\ x.seg \in 0..n
    /\ x.at \in 1..Len(Chunk(p, n, x.seg)) + TagLen
    /\ x = SegmentOf(b, p, n, x.seg)[x.at]

IsByte(x, b, seg, last, data, i) ==
  /\ "seg" \in DOMAIN x /\ x.of = b /\ x.seg = seg /\ x.last = last
  /\ x.size = Len(data) /\ x.at = i
  /\ i <= Len(data) => x.plain = data[i]

\* The bytes of a segment, one by one.
LEMMA SegmentIs ==
  ASSUME NEW b \in Blobs, NEW S, NEW p \in Seq(S), NEW n \in Nat, HasChunks(p, n), NEW t \in 0..n
  PROVE  /\ SegmentOf(b, p, n, t) \in Seq(Bytes(S))
         /\ Len(SegmentOf(b, p, n, t)) = Len(Chunk(p, n, t)) + TagLen
         /\ \A i \in 1..Len(Chunk(p, n, t)) + TagLen :
              IsByte(SegmentOf(b, p, n, t)[i], b, t, t = n, Chunk(p, n, t), i)
<1> DEFINE l == (t = n)
           c == Chunk(p, n, t)
           z == Seal(b, t, l, c)
<1>1. t \in Nat /\ l \in BOOLEAN
  OBVIOUS
<1>2. c \in Seq(S)
  BY Chunks
<1>3. SegmentOf(b, p, n, t) = z
  BY Zenon DEF SegmentOf
<1> HIDE DEF l, c, z
<1>4. /\ z \in Seq(Bytes(S)) /\ Len(z) = Len(c) + TagLen
      /\ \A i \in 1..Len(c) + TagLen :
           z[i] = [of |-> b, seg |-> t, last |-> l, size |-> Len(c), at |-> i,
                   plain |-> IF i <= Len(c) THEN c[i] ELSE 0]
  BY <1>1, <1>2, SegmentBytes DEF z
<1>5. ASSUME NEW i \in 1..Len(c) + TagLen
      PROVE  IsByte(z[i], b, t, l, c, i)
  BY <1>4 DEF IsByte
<1>6. QED
  BY <1>3, <1>4, <1>5, Zenon DEF l, c

\* Only segment t opens as segment t.
LEMMA OnlyTheSegmentOpens ==
  ASSUME NEW b \in Blobs, NEW S, NEW p \in Seq(S), NEW n \in Nat, HasChunks(p, n), NEW t \in 0..n,
         NEW B, NEW s \in Seq(B), Len(s) >= TagLen, NEW last \in BOOLEAN,
         OpensAs(b, t, last, s), \A i \in 1..Len(s) : Genuine(s[i], b, p, n)
  PROVE  /\ last <=> t = n
         /\ Len(s) = Len(Chunk(p, n, t)) + TagLen
         /\ \A i \in 1..Len(s) : s[i] = SegmentOf(b, p, n, t)[i]
         /\ PlainOf(s) = Chunk(p, n, t)
<1> DEFINE c == Chunk(p, n, t)
           z == SegmentOf(b, p, n, t)
<1>1. /\ Len(s) \in Nat /\ TagLen \in Nat \ {0}
  BY Widths
<1>2. c \in Seq(S) /\ Len(c) \in Nat
  BY Chunks
<1>3. \A i \in 1..Len(c) + TagLen :
        /\ z[i].last = (t = n) /\ z[i].size = Len(c)
        /\ i <= Len(c) => z[i].plain = c[i]
  <2>1. \A i \in 1..Len(c) + TagLen : IsByte(z[i], b, t, t = n, c, i)
    BY SegmentIs, Zenon
  <2>2. QED
    BY <2>1, Zenon DEF IsByte
<1>4. ASSUME NEW i \in 1..Len(s)
      PROVE  /\ s[i].last = last /\ s[i].size = Len(s) - TagLen
             /\ i \in 1..Len(c) + TagLen /\ s[i] = z[i]
  <2>1. /\ "seg" \in DOMAIN s[i] /\ s[i].of = b /\ s[i].seg = t /\ s[i].last = last
        /\ s[i].size = Len(s) - TagLen /\ s[i].at = i
    BY Zenon DEF OpensAs
  <2>2. /\ s[i].at \in 1..Len(Chunk(p, n, s[i].seg)) + TagLen
        /\ s[i] = SegmentOf(b, p, n, s[i].seg)[s[i].at]
    BY <2>1, Zenon DEF Genuine
  <2>3. QED
    BY <2>1, <2>2, Zenon
<1> HIDE DEF c, z
<1>5. 1 \in 1..Len(s)
  BY <1>1
<1>6. /\ z[1].last = last /\ z[1].size = Len(s) - TagLen /\ 1 \in 1..Len(c) + TagLen
  BY <1>4, <1>5, Zenon
<1>7. z[1].last = (t = n) /\ z[1].size = Len(c)
  BY <1>3, <1>6, Zenon
<1>8. (last <=> t = n) /\ Len(s) = Len(c) + TagLen
  <2>1. last = (t = n) /\ Len(s) - TagLen = Len(c)
    BY <1>6, <1>7, Zenon
  <2>2. last <=> t = n
    BY <2>1, Zenon
  <2>3. QED
    BY <1>1, <1>2, <2>1, <2>2
<1>9. PlainOf(s) = c
  <2> DEFINE q == [i \in 1..Len(c) |-> s[i].plain]
  <2>1. Len(s) - TagLen = Len(c)
    BY <1>1, <1>2, <1>8
  <2>2. PlainOf(s) = q
    BY <2>1, Zenon DEF PlainOf
  <2>3. ASSUME NEW i \in 1..Len(c) PROVE s[i].plain = c[i]
    <3>1. i \in 1..Len(s) /\ i \in 1..Len(c) + TagLen /\ i <= Len(c)
      BY <1>1, <1>2, <1>8
    <3>2. s[i] = z[i]
      BY <1>4, <3>1
    <3>3. z[i].plain = c[i]
      BY <1>3, <3>1
    <3>4. QED
      BY <3>2, <3>3
  <2>4. q = [i \in 1..Len(c) |-> c[i]]
    BY <2>3
  <2>5. c = [i \in 1..Len(c) |-> c[i]]
    BY <1>2
  <2>6. QED
    BY <2>2, <2>4, <2>5
<1>10. QED
  BY <1>4, <1>8, <1>9 DEF c, z

\* The segments of a file, where they are.
LEMMA FileAt ==
  ASSUME NEW b \in Blobs, NEW S, NEW p \in Seq(S), NEW n \in Nat, NEW f, IsFile(f, b, S, p, n),
         NEW t \in 0..n
  PROVE  /\ Skip(t) + Len(Chunk(p, n, t)) + TagLen <= Len(f)
         /\ \A i \in 1..Len(Chunk(p, n, t)) + TagLen : f[Skip(t) + i] = SegmentOf(b, p, n, t)[i]
         /\ t = n <=> Len(f) <= Skip(t) + Width
         /\ t = n => Len(f) = Skip(t) + Len(Chunk(p, n, t)) + TagLen
         /\ t < n => Len(Chunk(p, n, t)) + TagLen = Width
<1>1. /\ Start(n) <= Len(p) /\ Len(p) < Start(n) + ChunkSize
      /\ Len(f) = Skip(n) + LastLen(p, n) /\ Begins(f, b, p, n) /\ HasChunks(p, n)
      /\ \A at \in 1..LastLen(p, n) : f[Skip(n) + at] = Seal(b, n, TRUE, Remainder(p, n))[at]
  BY Zenon DEF IsFile, HasChunks
<1>2. t \in Nat /\ Len(p) \in Nat
  OBVIOUS
<1>3. Skip(t) \in Nat /\ Skip(n) \in Nat /\ Start(n) \in Nat
  BY <1>2, Skips, Zenon
<1>4. Len(Chunk(p, n, t)) = IF t = n THEN Len(p) - Start(n) ELSE ChunkSize
  BY <1>1, Chunks
<1>5. /\ ChunkSize \in Nat /\ TagLen \in Nat \ {0} /\ Width \in Nat /\ Width = ChunkSize + TagLen
  BY Widths
<1>6. LastLen(p, n) = (Len(p) - Start(n)) + TagLen
  BY DEF LastLen
<1>7. CASE t = n
  <2>1. Len(Chunk(p, n, t)) + TagLen = LastLen(p, n)
    BY <1>4, <1>6, <1>7
  <2>2. SegmentOf(b, p, n, t) = Seal(b, n, TRUE, Remainder(p, n))
    <3>1. (t = n) = TRUE
      BY <1>7
    <3>2. Chunk(p, n, t) = Remainder(p, n)
      BY <1>7 DEF Chunk
    <3>3. QED
      BY <1>7, <3>1, <3>2, Zenon DEF SegmentOf
  <2>3. \A i \in 1..Len(Chunk(p, n, t)) + TagLen : f[Skip(t) + i] = SegmentOf(b, p, n, t)[i]
    BY <1>1, <1>7, <2>1, <2>2, Zenon
  <2>4. /\ Skip(t) + Len(Chunk(p, n, t)) + TagLen = Len(f)
        /\ Len(f) <= Skip(t) + Width
    BY <1>1, <1>2, <1>3, <1>4, <1>5, <1>6, <1>7
  <2>5. QED
    BY <1>2, <1>3, <1>5, <1>7, <2>3, <2>4
<1>8. CASE t # n
  <2>1. t \in 0..n - 1 /\ t < n /\ t + 1 \in 0..n
    BY <1>8
  <2>2. Len(Chunk(p, n, t)) + TagLen = Width
    BY <1>4, <1>5, <1>8
  <2>3. SegmentOf(b, p, n, t) = Seal(b, t, FALSE, Full(p, t))
    <3>1. (t = n) = FALSE
      BY <1>8
    <3>2. Chunk(p, n, t) = Full(p, t)
      BY <1>8 DEF Chunk
    <3>3. QED
      BY <3>1, <3>2, Zenon DEF SegmentOf
  <2>4. \A i \in 1..Len(Chunk(p, n, t)) + TagLen : f[Skip(t) + i] = SegmentOf(b, p, n, t)[i]
    BY <1>1, <2>1, <2>2, <2>3, Zenon DEF Begins
  <2>5. Skip(t + 1) <= Skip(n)
    BY <2>1, SkipsGrow
  <2>6. Skip(t + 1) = Skip(t) + Width
    BY <1>2, SkipNext, Zenon
  <2>7. Skip(t) + Width < Len(f)
    BY SMTT(30), <1>1, <1>2, <1>3, <1>5, <1>6, <2>5, <2>6
  <2>8. Skip(t) + Len(Chunk(p, n, t)) + TagLen <= Len(f) /\ ~(Len(f) <= Skip(t) + Width)
    BY SMTT(30), <1>1, <1>2, <1>3, <1>4, <1>5, <1>6, <1>8, <2>7
  <2>9. QED
    BY <1>8, <2>2, <2>4, <2>8
<1>9. QED
  BY <1>7, <1>8

\* Reading content chunk after chunk.
LEMMA ChunkAppended ==
  ASSUME NEW S, NEW p \in Seq(S), NEW n \in Nat, HasChunks(p, n), NEW t \in 0..n
  PROVE  /\ t = n => SubSeq(p, 1, Start(t)) \o Chunk(p, n, t) = p
         /\ t # n => SubSeq(p, 1, Start(t)) \o Chunk(p, n, t) = SubSeq(p, 1, Start(t + 1))
<1>1. t \in Nat /\ Len(p) \in Nat /\ \A i \in 1..Len(p) : p[i] \in S
  OBVIOUS
<1>2. Start(t) \in Nat /\ Start(t + 1) = Start(t) + ChunkSize /\ ChunkSize \in Nat
  BY <1>1, Skips, SkipNext, Widths, Zenon
<1> DEFINE a == Start(t)
           c == Chunk(p, n, t)
           z == Start(t + 1)
           h == SubSeq(p, 1, a)
<1>3. /\ a <= Len(p) /\ (t < n => a + ChunkSize <= Len(p))
      /\ c \in Seq(S) /\ Len(c) = (IF t = n THEN Len(p) - Start(n) ELSE ChunkSize)
      /\ \A i \in 1..Len(c) : c[i] = p[a + i]
  BY Chunks
<1>4. a \in Nat /\ z = a + ChunkSize /\ z \in Nat /\ (t = n => Start(n) = a)
  BY <1>2
<1> HIDE DEF a, c, z
<1>5. h \in Seq(S) /\ Len(h) = a /\ \A i \in 1..a : h[i] = p[i]
  <2>1. \A i \in 1..a : p[i] \in S
    BY <1>1, <1>3, <1>4
  <2>2. /\ h \in Seq(S) /\ Len(h) = IF 1 <= a THEN a - 1 + 1 ELSE 0
        /\ \A i \in 1..a - 1 + 1 : h[i] = p[1 + i - 1]
    BY <1>4, <2>1, SubSeqProperties
  <2>3. QED
    BY <1>4, <2>2
<1> HIDE DEF h
<1>6. /\ h \o c \in Seq(S) /\ Len(h \o c) = Len(h) + Len(c)
      /\ \A i \in 1..Len(h) + Len(c) : (h \o c)[i] = IF i <= Len(h) THEN h[i] ELSE c[i - Len(h)]
  BY <1>3, <1>5, ConcatProperties, Zenon
<1> DEFINE q == h \o c
<1> HIDE DEF q
<1>7. Len(c) \in Nat /\ q \in Seq(S) /\ Len(q) = a + Len(c)
  BY <1>3, <1>4, <1>5, <1>6 DEF q
<1>8. ASSUME NEW i \in 1..Len(q) PROVE q[i] = p[i]
  <2>1. CASE i <= a
    BY <1>4, <1>5, <1>6, <1>7, <2>1 DEF q
  <2>2. CASE ~(i <= a)
    <3>1. i - a \in 1..Len(c) /\ a + (i - a) = i
      BY <1>4, <1>7, <2>2
    <3>2. q[i] = c[i - a]
      BY <1>5, <1>6, <1>7, <2>2 DEF q
    <3>3. c[i - a] = p[a + (i - a)]
      BY <1>3, <3>1
    <3>4. QED
      BY <3>1, <3>2, <3>3
  <2>3. QED
    BY <2>1, <2>2
<1>9. CASE t = n
  <2>1. Len(q) = Len(p)
    BY <1>1, <1>3, <1>4, <1>7, <1>9
  <2>2. q = p
    BY <1>7, <1>8, <2>1, SeqEqual
  <2>3. QED
    BY <1>9, <2>2 DEF q, h, a, c
<1>10. CASE t # n
  <2>1. z <= Len(p) /\ Len(q) = z
    BY <1>1, <1>3, <1>4, <1>7, <1>10
  <2>2. /\ SubSeq(p, 1, z) \in Seq(S) /\ Len(SubSeq(p, 1, z)) = z
        /\ \A i \in 1..z : SubSeq(p, 1, z)[i] = p[i]
    <3>1. \A i \in 1..z : p[i] \in S
      BY <1>1, <1>4, <2>1
    <3>2. /\ SubSeq(p, 1, z) \in Seq(S) /\ Len(SubSeq(p, 1, z)) = IF 1 <= z THEN z - 1 + 1 ELSE 0
          /\ \A i \in 1..z - 1 + 1 : SubSeq(p, 1, z)[i] = p[1 + i - 1]
      BY <1>4, <3>1, SubSeqProperties
    <3>3. QED
      BY <1>4, <3>2
  <2>3. \A i \in 1..Len(q) : q[i] = SubSeq(p, 1, z)[i]
    BY <1>8, <2>1, <2>2
  <2>4. q = SubSeq(p, 1, z)
    BY <1>7, <2>1, <2>2, <2>3, SeqEqual
  <2>5. QED
    BY <1>10, <2>4 DEF q, h, a, c, z
<1>11. QED
  BY <1>9, <1>10
-------------------------------------------------------------------------------
(* Decryption of any sequence g by a reader of blob b whose file is f. *)

Reader(b, rest, pending, seg, out, finished, error) ==
  [of |-> b, rest |-> rest, pending |-> pending, seg |-> seg, out |-> out,
   finished |-> finished, error |-> error]

\* What is left after a segment s with r behind it.
Left(s, r) == IF IsLast(s, r) THEN r ELSE Tail(r)
Ahead(s, r) == IF IsLast(s, r) THEN <<>> ELSE SubSeq(r, 1, 1)

Opens(b, t, s, r) == ~(Len(s) < TagLen) /\ OpensAs(b, t, IsLast(s, r), s)

\* A reader that may go on, and what becomes of it when a segment opens and
\* when it does not.
Reading(b, rest, pending, t, out) == Reader(b, rest, pending, t, out, FALSE, FALSE)

SegmentOpened(b, t, out, s, r) ==
  Reader(b, Left(s, r), Ahead(s, r), t + 1, out \o PlainOf(s), IsLast(s, r), FALSE)

SegmentBroken(b, t, out, s, r) == Reader(b, Left(s, r), Ahead(s, r), t, out, FALSE, TRUE)

\* A step of the decryptor either opens the segment it has read or fails.
LEMMA ReadSegment ==
  ASSUME NEW b, NEW rest, NEW pending, NEW t \in Nat, NEW out,
         NEW s, s = Filled(pending, rest), NEW r, r = Behind(pending, rest)
  PROVE  /\ Opens(b, t, s, r) =>
              Step(Reading(b, rest, pending, t, out)) = SegmentOpened(b, t, out, s, r)
         /\ ~Opens(b, t, s, r) =>
              Step(Reading(b, rest, pending, t, out)) = SegmentBroken(b, t, out, s, r)
<1> DEFINE no == FALSE
           yes == TRUE
           u == t + 1
           x == Ahead(s, r)
           y == Left(s, r)
           last == IsLast(s, r)
           o == out \o PlainOf(s)
           d == Reader(b, rest, pending, t, out, no, no)
           next == Reader(b, y, x, t, out, no, no)
<1> HIDE DEF no, yes, u, x, y, last, o
<1>1. /\ d.of = b /\ d.rest = rest /\ d.pending = pending /\ d.seg = t /\ d.out = out
      /\ d.finished = no /\ d.error = no
  BY DEF Reader
<1>2. [d EXCEPT !.pending = x, !.rest = y] = next
  <2>1. [d EXCEPT !.pending = x] = Reader(b, rest, x, t, out, no, no)
    BY DEF Reader
  <2>2. [Reader(b, rest, x, t, out, no, no) EXCEPT !.rest = y] = next
    BY DEF Reader
  <2>3. [d EXCEPT !.pending = x, !.rest = y] = [[d EXCEPT !.pending = x] EXCEPT !.rest = y]
    <3> HIDE DEF d
    <3>1. QED
      BY Zenon
  <2>4. QED
    BY <2>1, <2>2, <2>3, Zenon
<1>3. next.out = out /\ next.seg = t
  BY DEF Reader
<1>4. Failed(next) = Reader(b, y, x, t, out, no, yes)
  <2>1. [next EXCEPT !.error = yes] = Reader(b, y, x, t, out, no, yes)
    BY DEF Reader
  <2>2. QED
    BY <2>1, Zenon DEF Failed, yes
<1>5. [next EXCEPT !.out = o, !.seg = u, !.finished = last] = Reader(b, y, x, u, o, last, no)
  <2>1. [next EXCEPT !.out = o] = Reader(b, y, x, t, o, no, no)
    BY DEF Reader
  <2>2. [Reader(b, y, x, t, o, no, no) EXCEPT !.seg = u] = Reader(b, y, x, u, o, no, no)
    BY DEF Reader
  <2>3. [Reader(b, y, x, u, o, no, no) EXCEPT !.finished = last] = Reader(b, y, x, u, o, last, no)
    BY DEF Reader
  <2>4. [next EXCEPT !.out = o, !.seg = u, !.finished = last] =
          [[[next EXCEPT !.out = o] EXCEPT !.seg = u] EXCEPT !.finished = last]
    <3> HIDE DEF next
    <3>1. QED
      BY Zenon
  <2>5. QED
    BY <2>1, <2>2, <2>3, <2>4, Zenon
<1> HIDE DEF d, next
<1>6. Step(d) = FillNextSegment(d)
  BY <1>1 DEF Step, no
<1>7. FillNextSegment(d) =
        IF Len(s) < TagLen \/ ~OpensAs(b, t, last, s) THEN Failed(next)
        ELSE [next EXCEPT !.out = o, !.seg = u, !.finished = last]
  BY <1>1, <1>2, <1>3, Zenon DEF FillNextSegment, Filled, Behind, Left, Ahead, last, o, u, x, y
<1>8. CASE Opens(b, t, s, r)
  <2>1. Step(d) = Reader(b, y, x, u, o, last, no)
    BY <1>5, <1>6, <1>7, <1>8 DEF Opens, last
  <2>2. QED
    BY <1>8, <2>1, Zenon DEF Reading, SegmentOpened, d, last, o, u, x, y, no
<1>9. CASE ~Opens(b, t, s, r)
  <2>1. Step(d) = Reader(b, y, x, t, out, no, yes)
    BY <1>4, <1>6, <1>7, <1>9 DEF Opens, last
  <2>2. QED
    BY <1>9, <2>1, Zenon DEF Reading, SegmentBroken, d, x, y, no, yes
<1>10. QED
  BY <1>8, <1>9, Zenon

\* g may be read by a reader of blob b, whose file for p is f.
Readable(b, S, p, n, f, B, g) ==
  /\ b \in Blobs /\ p \in Seq(S) /\ n \in Nat /\ IsFile(f, b, S, p, n)
  /\ g \in Seq(B) /\ \A i \in 1..Len(g) : Genuine(g[i], b, p, n)

\* The reader d has decrypted t full segments, failed, or reached the end.
AtSegment(d, t, b, p, f, B, g) ==
  /\ Skip(t) <= Len(g) /\ \A k \in 1..Skip(t) : g[k] = f[k]
  /\ \E rest, pending : /\ Cut(pending, rest, B, g, Skip(t))
                        /\ d = Reading(b, rest, pending, t, SubSeq(p, 1, Start(t)))

Stuck(d, p) == d.error /\ ~d.finished /\ \E m \in 0..Len(p) : d.out = SubSeq(p, 1, m)

Done(d, p, f, g) == d.finished /\ ~d.error /\ d.out = p /\ g = f

\* Sequences with the same elements are the same, over whatever sets.
LEMMA SameSequence ==
  ASSUME NEW S, NEW T, NEW s \in Seq(S), NEW t \in Seq(T),
         Len(s) = Len(t), \A i \in 1..Len(s) : s[i] = t[i]
  PROVE  s = t
<1> DEFINE U == S \cup T
<1>1. S \subseteq U /\ T \subseteq U
  OBVIOUS
<1> HIDE DEF U
<1>2. s \in Seq(U) /\ t \in Seq(U)
  BY <1>1
<1>3. QED
  BY <1>2, SeqEqual

\* A reader that is not at its end reads its next segment, fails, or reaches
\* the end.
LEMMA OpensStep ==
  ASSUME NEW b, NEW S, NEW p, NEW n, NEW f, NEW B, NEW g, Readable(b, S, p, n, f, B, g),
         NEW t \in 0..n, NEW d, AtSegment(d, t, b, p, f, B, g),
         NEW rest, NEW pending, Cut(pending, rest, B, g, Skip(t)),
         d = Reading(b, rest, pending, t, SubSeq(p, 1, Start(t))),
         Opens(b, t, Filled(pending, rest), Behind(pending, rest))
  PROVE  /\ t = n => Done(Step(d), p, f, g)
         /\ t # n => AtSegment(Step(d), t + 1, b, p, f, B, g)
<1> DEFINE s == Filled(pending, rest)
           r == Behind(pending, rest)
           a == Skip(t)
           c == Chunk(p, n, t)
           z == SegmentOf(b, p, n, t)
           last == IsLast(s, r)
           e == Step(d)
<1>1. /\ b \in Blobs /\ p \in Seq(S) /\ n \in Nat /\ IsFile(f, b, S, p, n) /\ HasChunks(p, n)
      /\ f \in Seq(Bytes(S)) /\ g \in Seq(B) /\ \A i \in 1..Len(g) : Genuine(g[i], b, p, n)
  BY Zenon DEF Readable, IsFile
<1>2. t \in Nat /\ Len(g) \in Nat /\ Len(f) \in Nat
  BY <1>1
<1>3. a \in Nat /\ a <= Len(g) /\ \A k \in 1..a : g[k] = f[k]
  BY <1>2, Skips, Zenon DEF AtSegment
<1>4. /\ s \in Seq(B) /\ Len(s) = (IF a + Width < Len(g) THEN Width ELSE Len(g) - a)
      /\ \A i \in 1..Len(s) : s[i] = g[a + i]
      /\ r \in Seq(B) /\ Len(r) = (IF a + Width < Len(g) THEN Len(g) - (a + Width) ELSE 0)
      /\ \A i \in 1..Len(r) : r[i] = g[a + Width + i]
  BY SMTT(30), <1>1, <1>3, FilledIs
<1>5. Width \in Nat \ {0} /\ Width = ChunkSize + TagLen /\ TagLen \in Nat
  BY Widths
<1>6. e = Reader(b, Left(s, r), Ahead(s, r), t + 1, SubSeq(p, 1, Start(t)) \o PlainOf(s), last, FALSE)
  <2> DEFINE o == SubSeq(p, 1, Start(t))
             v == Filled(pending, rest)
             w == Behind(pending, rest)
  <2> HIDE DEF o, v, w
  <2>1. t \in Nat /\ v = Filled(pending, rest) /\ w = Behind(pending, rest)
    BY <1>2 DEF v, w
  <2>2. Opens(b, t, v, w)
    BY DEF v, w
  <2>3. Step(Reading(b, rest, pending, t, o)) = SegmentOpened(b, t, o, v, w)
    BY <2>1, <2>2, ReadSegment
  <2>4. QED
    BY <2>3, Zenon DEF SegmentOpened, o, v, w
<1> HIDE DEF s, r, a, e
<1>7. last <=> Len(g) <= a + Width
  <2>1. Len(r) \in Nat /\ (r = <<>> <=> Len(r) = 0)
    BY <1>4, EmptySeq
  <2>2. QED
    BY <1>2, <1>3, <1>4, <1>5, <2>1 DEF IsLast
<1>8. Len(s) >= TagLen /\ OpensAs(b, t, last, s) /\ Len(s) \in Nat
  <2>1. ~(Len(s) < TagLen) /\ OpensAs(b, t, last, s)
    BY Zenon DEF Opens, s, r
  <2>2. QED
    BY <1>4, <1>5, <2>1
<1> HIDE DEF last
<1>9. last \in BOOLEAN
  BY DEF last, IsLast
<1>10. \A i \in 1..Len(s) : Genuine(s[i], b, p, n)
  <2>1. \A i \in 1..Len(s) : a + i \in 1..Len(g)
    BY <1>2, <1>3, <1>4, <1>5
  <2>2. QED
    BY <1>1, <1>4, <2>1
<1>11. /\ last <=> t = n
       /\ Len(s) = Len(c) + TagLen
       /\ \A i \in 1..Len(s) : s[i] = z[i]
       /\ PlainOf(s) = c
  BY <1>1, <1>4, <1>8, <1>9, <1>10, OnlyTheSegmentOpens
<1>12. /\ a + Len(c) + TagLen <= Len(f)
       /\ \A i \in 1..Len(c) + TagLen : f[a + i] = z[i]
       /\ t = n => Len(f) = a + Len(c) + TagLen
       /\ t < n => Len(c) + TagLen = Width
  BY <1>1, FileAt DEF a
<1>13. Len(c) \in Nat
  BY <1>1, Chunks
<1> HIDE DEF c, z
<1>14. a + Len(s) <= Len(g) /\ \A k \in 1..a + Len(s) : g[k] = f[k]
  <2>1. a + Len(s) <= Len(g)
    BY <1>2, <1>3, <1>4, <1>5
  <2>2. ASSUME NEW k \in 1..a + Len(s) PROVE g[k] = f[k]
    <3>1. CASE k <= a
      BY <1>3, <2>2, <3>1
    <3>2. CASE ~(k <= a)
      <4>1. k - a \in 1..Len(s) /\ a + (k - a) = k
        BY <1>3, <1>8, <2>2, <3>2
      <4>2. s[k - a] = g[a + (k - a)] /\ s[k - a] = z[k - a]
        BY <1>4, <1>11, <4>1
      <4>3. f[a + (k - a)] = z[k - a]
        BY <1>11, <1>12, <4>1
      <4>4. QED
        BY <4>1, <4>2, <4>3
    <3>3. QED
      BY <3>1, <3>2
  <2>3. QED
    BY <2>1, <2>2
<1>15. /\ t = n => SubSeq(p, 1, Start(t)) \o PlainOf(s) = p
       /\ t # n => SubSeq(p, 1, Start(t)) \o PlainOf(s) = SubSeq(p, 1, Start(t + 1))
  <2>1. /\ t = n => SubSeq(p, 1, Start(t)) \o c = p
        /\ t # n => SubSeq(p, 1, Start(t)) \o c = SubSeq(p, 1, Start(t + 1))
    BY <1>1, ChunkAppended DEF c
  <2>2. QED
    BY <1>11, <2>1, Zenon
<1>16. ASSUME t = n PROVE Done(e, p, f, g)
  <2>1. last = TRUE
    BY <1>9, <1>11, <1>16
  <2>2. Len(g) = Len(f)
    BY <1>2, <1>3, <1>4, <1>5, <1>7, <1>11, <1>12, <1>13, <1>16, <2>1
  <2>3. a + Len(s) = Len(g)
    BY <1>2, <1>3, <1>4, <1>5, <1>7, <2>1
  <2>4. g = f
    BY <1>1, <1>14, <2>2, <2>3, SameSequence
  <2>5. e.finished = TRUE /\ e.error = FALSE /\ e.out = p
    BY <1>6, <1>15, <1>16, <2>1 DEF Reader
  <2>6. QED
    BY <2>4, <2>5 DEF Done
<1>17. ASSUME t # n PROVE AtSegment(e, t + 1, b, p, f, B, g)
  <2>1. last = FALSE /\ t < n
    BY <1>1, <1>2, <1>9, <1>11, <1>17
  <2>2. Len(s) = Width /\ a + Width < Len(g) /\ Skip(t + 1) = a + Width
    <3>1. Skip(t + 1) = a + Width
      BY <1>2, SkipNext, Zenon DEF a
    <3>2. QED
      BY <1>2, <1>3, <1>4, <1>5, <1>7, <2>1, <3>1
  <2>3. r # <<>> /\ a + Width \in Nat /\ (a + Width) + Len(r) = Len(g)
    <3>1. Len(r) = Len(g) - (a + Width) /\ a + Width \in Nat
      BY <1>2, <1>3, <1>4, <1>5, <2>2
    <3>2. Len(r) # 0 /\ (a + Width) + Len(r) = Len(g)
      BY <1>2, <2>2, <3>1
    <3>3. r # <<>>
      BY <3>2, EmptySeq
    <3>4. QED
      BY <3>1, <3>2, <3>3
  <2>4. Cut(SubSeq(r, 1, 1), Tail(r), B, g, a + Width)
    <3>1. \A i \in 1..Len(r) : r[i] = g[(a + Width) + i]
      BY <1>4
    <3>2. QED
      BY <1>1, <1>4, <2>3, <3>1, ReadAhead
  <2>5. Left(s, r) = Tail(r) /\ Ahead(s, r) = SubSeq(r, 1, 1)
    BY <2>1 DEF Left, Ahead, last
  <2>6. e = Reading(b, Tail(r), SubSeq(r, 1, 1), t + 1, SubSeq(p, 1, Start(t + 1)))
    BY <1>6, <1>15, <1>17, <2>1, <2>5 DEF Reading
  <2>7. Skip(t + 1) <= Len(g) /\ \A k \in 1..Skip(t + 1) : g[k] = f[k]
    BY <1>2, <1>14, <2>2
  <2>8. QED
    BY <2>2, <2>4, <2>6, <2>7, Zenon DEF AtSegment
<1>18. QED
  BY <1>16, <1>17 DEF e

\* A segment that does not open ends the reading with an error.
LEMMA BreaksStep ==
  ASSUME NEW b, NEW S, NEW p, NEW n, NEW f, NEW B, NEW g, Readable(b, S, p, n, f, B, g),
         NEW t \in 0..n, NEW d, NEW rest, NEW pending,
         d = Reading(b, rest, pending, t, SubSeq(p, 1, Start(t))),
         ~Opens(b, t, Filled(pending, rest), Behind(pending, rest))
  PROVE  Stuck(Step(d), p)
<1> DEFINE o == SubSeq(p, 1, Start(t))
           v == Filled(pending, rest)
           w == Behind(pending, rest)
<1>1. p \in Seq(S) /\ n \in Nat /\ HasChunks(p, n)
  BY Zenon DEF Readable, IsFile
<1>2. t \in Nat
  BY <1>1
<1>3. Start(t) \in 0..Len(p)
  <2>1. Start(t) <= Len(p)
    BY <1>1, Chunks
  <2>2. Start(t) \in Nat
    BY <1>2, Skips, Zenon
  <2>3. QED
    BY <1>1, <2>1, <2>2
<1> HIDE DEF o, v, w
<1>4. t \in Nat /\ v = Filled(pending, rest) /\ w = Behind(pending, rest)
  BY <1>2 DEF v, w
<1>5. ~Opens(b, t, v, w)
  BY DEF v, w
<1>6. Step(Reading(b, rest, pending, t, o)) = SegmentBroken(b, t, o, v, w)
  BY <1>4, <1>5, ReadSegment
<1>7. Step(d) = SegmentBroken(b, t, o, v, w)
  BY <1>6, Zenon DEF o
<1>8. /\ SegmentBroken(b, t, o, v, w).error = TRUE /\ SegmentBroken(b, t, o, v, w).finished = FALSE
      /\ SegmentBroken(b, t, o, v, w).out = o
  BY DEF SegmentBroken, Reader
<1>9. Step(d).error = TRUE /\ Step(d).finished = FALSE /\ Step(d).out = SubSeq(p, 1, Start(t))
  BY <1>7, <1>8, Zenon DEF o
<1>10. QED
  BY <1>3, <1>9, Zenon DEF Stuck

\* One step of a reader that is not at its end.
LEMMA StepReads ==
  ASSUME NEW b, NEW S, NEW p, NEW n, NEW f, NEW B, NEW g, Readable(b, S, p, n, f, B, g),
         NEW t \in 0..n, NEW d, AtSegment(d, t, b, p, f, B, g)
  PROVE  \/ Stuck(Step(d), p)
         \/ t = n /\ Done(Step(d), p, f, g)
         \/ t # n /\ AtSegment(Step(d), t + 1, b, p, f, B, g)
<1>1. PICK rest, pending : /\ Cut(pending, rest, B, g, Skip(t))
                           /\ d = Reading(b, rest, pending, t, SubSeq(p, 1, Start(t)))
  BY Zenon DEF AtSegment
<1>2. CASE Opens(b, t, Filled(pending, rest), Behind(pending, rest))
  BY <1>1, <1>2, OpensStep
<1>3. CASE ~Opens(b, t, Filled(pending, rest), Behind(pending, rest))
  BY <1>1, <1>3, BreaksStep
<1>4. QED
  BY <1>2, <1>3

\* In its own file every segment opens.
LEMMA FileOpens ==
  ASSUME NEW b, NEW S, NEW p, NEW n, NEW f, NEW B, Readable(b, S, p, n, f, B, f),
         NEW t \in 0..n, NEW d, AtSegment(d, t, b, p, f, B, f)
  PROVE  \/ t = n /\ Done(Step(d), p, f, f)
         \/ t # n /\ AtSegment(Step(d), t + 1, b, p, f, B, f)
<1>1. PICK rest, pending : /\ Cut(pending, rest, B, f, Skip(t))
                           /\ d = Reading(b, rest, pending, t, SubSeq(p, 1, Start(t)))
  BY Zenon DEF AtSegment
<1> DEFINE s == Filled(pending, rest)
           r == Behind(pending, rest)
           a == Skip(t)
           c == Chunk(p, n, t)
           z == SegmentOf(b, p, n, t)
<1>2. /\ b \in Blobs /\ p \in Seq(S) /\ n \in Nat /\ IsFile(f, b, S, p, n) /\ HasChunks(p, n)
      /\ f \in Seq(B)
  BY Zenon DEF Readable, IsFile
<1>3. t \in Nat /\ Len(f) \in Nat
  BY <1>2
<1>4. a \in Nat
  BY <1>3, Skips, Zenon
<1>5. /\ s \in Seq(B) /\ Len(s) = (IF a + Width < Len(f) THEN Width ELSE Len(f) - a)
      /\ \A i \in 1..Len(s) : s[i] = f[a + i]
      /\ r \in Seq(B) /\ Len(r) = (IF a + Width < Len(f) THEN Len(f) - (a + Width) ELSE 0)
  BY SMTT(30), <1>1, <1>2, <1>4, FilledIs
<1>6. /\ \A i \in 1..Len(c) + TagLen : f[a + i] = z[i]
      /\ t = n <=> Len(f) <= a + Width
      /\ t = n => Len(f) = a + Len(c) + TagLen
      /\ t < n => Len(c) + TagLen = Width
  BY <1>2, FileAt
<1>7. Len(c) \in Nat /\ TagLen \in Nat \ {0} /\ Width \in Nat \ {0} /\ Width = ChunkSize + TagLen
  BY <1>2, Widths, Chunks
<1>8. \A i \in 1..Len(c) + TagLen : IsByte(z[i], b, t, t = n, c, i)
  BY <1>2, SegmentIs, Zenon
<1> HIDE DEF s, r, a, c, z
<1>9. Len(s) = Len(c) + TagLen
  BY SMTT(30), <1>2, <1>3, <1>4, <1>5, <1>6, <1>7
<1>10. IsLast(s, r) <=> t = n
  <2>1. Len(r) \in Nat /\ (r = <<>> <=> Len(r) = 0)
    BY <1>5, EmptySeq
  <2>2. QED
    BY SMTT(30), <1>2, <1>3, <1>4, <1>5, <1>6, <1>7, <2>1 DEF IsLast
<1>11. IsLast(s, r) = (t = n)
  <2>1. IsLast(s, r) \in BOOLEAN
    BY DEF IsLast
  <2>2. QED
    BY <1>10, <2>1
<1>12. OpensAs(b, t, IsLast(s, r), s)
  <2>1. ASSUME NEW i \in 1..Len(s)
        PROVE  /\ "seg" \in DOMAIN s[i] /\ s[i].of = b /\ s[i].seg = t /\ s[i].last = (t = n)
               /\ s[i].size = Len(s) - TagLen /\ s[i].at = i
    <3>1. i \in 1..Len(c) + TagLen /\ Len(s) - TagLen = Len(c)
      BY <1>7, <1>9
    <3>2. s[i] = z[i]
      BY <1>5, <1>6, <3>1
    <3>3. IsByte(s[i], b, t, t = n, c, i)
      BY <1>8, <3>1, <3>2, Zenon
    <3>4. QED
      BY <3>1, <3>3, Zenon DEF IsByte
  <2>2. QED
    BY <1>11, <2>1, Zenon DEF OpensAs
<1>13. ~(Len(s) < TagLen)
  BY <1>7, <1>9
<1>14. Opens(b, t, s, r)
  BY <1>12, <1>13, Zenon DEF Opens
<1>15. QED
  BY <1>1, <1>14, OpensStep DEF s, r

\* Where a reader begins.
LEMMA NewDecryptorReads ==
  ASSUME NEW b, NEW S, NEW p, NEW n, NEW f, NEW B, NEW g, Readable(b, S, p, n, f, B, g)
  PROVE  /\ Stuck(NewDecryptor(b, g), p) \/ AtSegment(NewDecryptor(b, g), 0, b, p, f, B, g)
         /\ f = g => AtSegment(NewDecryptor(b, g), 0, b, p, f, B, g)
<1> DEFINE rest == SubSeq(g, HeaderLen + 1, Len(g))
           h == Header(b)
           no == FALSE
           d == Reader(b, rest, <<>>, 0, <<>>, FALSE, FALSE)
<1>1. /\ b \in Blobs /\ p \in Seq(S) /\ n \in Nat /\ g \in Seq(B)
      /\ f \in Seq(Bytes(S)) /\ Begins(f, b, p, n)
  BY Zenon DEF Readable, IsFile
<1>2. HeaderLen \in Nat /\ Skip(0) = HeaderLen /\ Start(0) = 0 /\ Len(g) \in Nat /\ Len(p) \in Nat
  BY <1>1, Widths, SkipZero
<1>3. h \in Seq(Bytes(S)) /\ Len(h) = HeaderLen
  BY <1>1, HeaderBytesOf
<1>4. \A k \in 1..HeaderLen : f[k] = h[k]
  BY <1>1, Zenon DEF Begins
<1>5. NewDecryptor(b, g) = IF IsPrefix(h, g) THEN d ELSE Failed(d)
  BY Zenon DEF NewDecryptor, Reader
<1>6. SubSeq(p, 1, 0) = <<>>
  BY SubSeqEmpty
<1>7. SubSeq(h, 1, HeaderLen) = h
  BY <1>3, SubSeqFull
<1>8. ASSUME HeaderLen <= Len(g)
      PROVE  /\ SubSeq(g, 1, HeaderLen) \in Seq(B) /\ Len(SubSeq(g, 1, HeaderLen)) = HeaderLen
             /\ \A k \in 1..HeaderLen : SubSeq(g, 1, HeaderLen)[k] = g[k]
  <2>1. \A k \in 1..HeaderLen : g[k] \in B
    BY <1>1, <1>2, <1>8
  <2>2. /\ SubSeq(g, 1, HeaderLen) \in Seq(B)
        /\ Len(SubSeq(g, 1, HeaderLen)) = IF 1 <= HeaderLen THEN HeaderLen - 1 + 1 ELSE 0
        /\ \A k \in 1..HeaderLen - 1 + 1 : SubSeq(g, 1, HeaderLen)[k] = g[1 + k - 1]
    BY <1>2, <2>1, SubSeqProperties
  <2>3. QED
    BY <1>2, <2>2
<1> HIDE DEF h
<1>9. IsPrefix(h, g) => HeaderLen <= Len(g) /\ \A k \in 1..HeaderLen : g[k] = h[k]
  <2>1. SUFFICES ASSUME IsPrefix(h, g) PROVE HeaderLen <= Len(g) /\ \A k \in 1..HeaderLen : g[k] = h[k]
    OBVIOUS
  <2>2. HeaderLen <= Len(g) /\ SubSeq(h, 1, HeaderLen) = SubSeq(g, 1, HeaderLen)
    BY <1>3, <2>1 DEF IsPrefix
  <2>3. QED
    BY <1>7, <1>8, <2>2
<1>10. ASSUME IsPrefix(h, g) PROVE AtSegment(d, 0, b, p, f, B, g)
  <2>1. HeaderLen <= Len(g) /\ \A k \in 1..HeaderLen : g[k] = f[k]
    BY <1>4, <1>9, <1>10
  <2>2. /\ rest \in Seq(B) /\ Len(rest) = (IF HeaderLen < Len(g) THEN Len(g) - HeaderLen ELSE 0)
        /\ \A i \in 1..Len(rest) : rest[i] = g[HeaderLen + i]
    BY <1>1, <1>2, RestIs
  <2> HIDE DEF rest
  <2>3. Cut(<<>>, rest, B, g, HeaderLen)
    <3>1. <<>> \in Seq(B) /\ Len(<<>>) = 0
      OBVIOUS
    <3>2. HeaderLen + 0 + Len(rest) = Len(g)
      BY <1>2, <2>1, <2>2
    <3>3. \A i \in 1..0 : FALSE
      OBVIOUS
    <3>4. \A i \in 1..Len(rest) : rest[i] = g[HeaderLen + 0 + i]
      BY <1>2, <2>2
    <3>5. 0 <= 1
      OBVIOUS
    <3>6. QED
      BY <2>2, <3>1, <3>2, <3>3, <3>4, <3>5, Zenon DEF Cut
  <2>4. d = Reading(b, rest, <<>>, 0, SubSeq(p, 1, Start(0)))
    BY <1>2, <1>6, Zenon DEF Reading
  <2>5. QED
    BY <1>2, <2>1, <2>3, <2>4, Zenon DEF AtSegment
<1>11. ASSUME ~IsPrefix(h, g) PROVE Stuck(NewDecryptor(b, g), p)
  <2> HIDE DEF rest
  <2>1. Failed(d).error = TRUE /\ Failed(d).finished = FALSE /\ Failed(d).out = <<>>
    BY DEF Failed, Reader
  <2>2. 0 \in 0..Len(p)
    BY <1>2
  <2>3. QED
    BY <1>5, <1>6, <1>11, <2>1, <2>2, Zenon DEF Stuck
<1>12. f = g => IsPrefix(h, g)
  <2>1. SUFFICES ASSUME f = g PROVE IsPrefix(h, g)
    OBVIOUS
  <2>2. HeaderLen <= Len(g)
    <3>1. Len(f) >= Skip(n) /\ Skip(n) \in Nat /\ Skip(n) >= HeaderLen
      BY <1>1, Skips, Zenon DEF Begins
    <3>2. QED
      BY <1>2, <2>1, <3>1
  <2>3. SubSeq(g, 1, HeaderLen) = h
    <3>1. \A k \in 1..Len(h) : h[k] = SubSeq(g, 1, HeaderLen)[k]
      BY <1>3, <1>4, <1>8, <2>1, <2>2
    <3>2. Len(h) = Len(SubSeq(g, 1, HeaderLen)) /\ SubSeq(g, 1, HeaderLen) \in Seq(B)
      BY <1>3, <1>8, <2>2
    <3>3. h \in Seq(Bytes(S))
      BY <1>3
    <3>4. h = SubSeq(g, 1, HeaderLen)
      BY <3>1, <3>2, <3>3, SameSequence, ZenonT(60)
    <3>5. QED
      BY <3>4
  <2>4. QED
    BY <1>3, <1>7, <2>2, <2>3 DEF IsPrefix
<1>13. QED
  BY <1>5, <1>10, <1>11, <1>12, Zenon

\* The decryptor's states in its first m steps.
Decrypting(x, b, g, m) ==
  x = [i \in 0..m |-> IF i = 0 THEN NewDecryptor(b, g) ELSE Step(x[i - 1])]

\* The states that Decrypt goes through exist.
LEMMA DecryptingExists ==
  ASSUME NEW b, NEW g
  PROVE  \A m \in Nat : \E x : Decrypting(x, b, g, m)
<1> DEFINE T == {m \in Nat : \E x : Decrypting(x, b, g, m)}
<1>1. 0 \in T
  <2> DEFINE x == [i \in 0..0 |-> NewDecryptor(b, g)]
  <2>1. x = [i \in 0..0 |-> IF i = 0 THEN NewDecryptor(b, g) ELSE Step(x[i - 1])]
    OBVIOUS
  <2>2. QED
    BY <2>1 DEF Decrypting
<1>2. ASSUME NEW m \in Nat, m \in T PROVE m + 1 \in T
  <2>1. PICK x : x = [i \in 0..m |-> IF i = 0 THEN NewDecryptor(b, g) ELSE Step(x[i - 1])]
    BY <1>2 DEF Decrypting
  <2> DEFINE y == [i \in 0..m + 1 |-> IF i = m + 1 THEN Step(x[m]) ELSE x[i]]
             F(i) == IF i = 0 THEN NewDecryptor(b, g) ELSE Step(y[i - 1])
  <2>2. \A i \in 0..m : y[i] = x[i] /\ x[i] = IF i = 0 THEN NewDecryptor(b, g) ELSE Step(x[i - 1])
    BY <2>1
  <2>3. y[m + 1] = Step(x[m])
    OBVIOUS
  <2>4. y = [i \in 0..m + 1 |-> y[i]]
    OBVIOUS
  <2> HIDE DEF y
  <2>5. ASSUME NEW i \in 0..m + 1 PROVE y[i] = F(i)
    <3>1. CASE i = m + 1
      <4>1. i - 1 = m /\ i # 0 /\ m \in 0..m
        BY <3>1
      <4>2. y[m] = x[m]
        BY <2>2, <4>1
      <4>3. QED
        BY <2>3, <3>1, <4>1, <4>2
    <3>2. CASE i \in 0..m /\ i # 0
      <4>1. i - 1 \in 0..m
        BY <3>2
      <4>2. y[i - 1] = x[i - 1]
        BY <2>2, <4>1
      <4>3. QED
        BY <2>2, <3>2, <4>2
    <3>3. CASE i = 0
      BY <2>2, <3>3
    <3>4. QED
      BY <3>1, <3>2, <3>3
  <2>6. y = [i \in 0..m + 1 |-> F(i)]
    BY <2>4, <2>5
  <2>7. QED
    BY <2>6 DEF Decrypting
<1> HIDE DEF T
<1>3. \A m \in Nat : m \in T
  BY <1>1, <1>2, Induction
<1>4. QED
  BY <1>3 DEF T

\* Decrypt is as many steps as g has bytes, and one.
LEMMA DecryptIs ==
  ASSUME NEW b, NEW g, Len(g) \in Nat
  PROVE  \E x : /\ Decrypt(b, g) = x[Len(g) + 1] /\ x[0] = NewDecryptor(b, g)
                /\ \A i \in 0..Len(g) : x[i + 1] = Step(x[i])
<1> DEFINE x == CHOOSE x : Decrypting(x, b, g, Len(g) + 1)
           F(i) == IF i = 0 THEN NewDecryptor(b, g) ELSE Step(x[i - 1])
<1>1. Decrypt(b, g) = x[Len(g) + 1]
  BY Zenon DEF Decrypt, Decrypting
<1>2. Decrypting(x, b, g, Len(g) + 1)
  <2>1. Len(g) + 1 \in Nat
    OBVIOUS
  <2>2. QED
    BY <2>1, DecryptingExists, Zenon
<1> HIDE DEF x
<1>3. x = [i \in 0..Len(g) + 1 |-> F(i)]
  BY <1>2, Zenon DEF Decrypting
<1> HIDE DEF F
<1>4. \A i \in 0..Len(g) + 1 : x[i] = F(i)
  BY <1>3
<1>5. x[0] = NewDecryptor(b, g)
  BY <1>4 DEF F
<1>6. ASSUME NEW i \in 0..Len(g) PROVE x[i + 1] = Step(x[i])
  <2>1. i + 1 \in 0..Len(g) + 1 /\ i + 1 # 0 /\ (i + 1) - 1 = i
    OBVIOUS
  <2>2. QED
    BY <1>4, <2>1 DEF F
<1>7. QED
  BY <1>1, <1>5, <1>6, Zenon

\* Readers that are at an end stay there.
LEMMA EndsStay ==
  ASSUME NEW d, NEW p, NEW f, NEW g
  PROVE  (Stuck(d, p) => Stuck(Step(d), p)) /\ (Done(d, p, f, g) => Done(Step(d), p, f, g))
<1>1. (Stuck(d, p) \/ Done(d, p, f, g)) => Step(d) = d
  BY DEF Step, Stuck, Done
<1>2. QED
  BY <1>1, Zenon

\* Decryption ends with the whole file, or gives a beginning of its content.
LEMMA DecryptGives ==
  ASSUME NEW b, NEW S, NEW p, NEW n, NEW f, NEW B, NEW g, Readable(b, S, p, n, f, B, g)
  PROVE  /\ \E m \in 0..Len(p) : Decrypt(b, g).out = SubSeq(p, 1, m)
         /\ Decrypt(b, g).finished => /\ ~Decrypt(b, g).error /\ g = f
                                      /\ Decrypt(b, g).out = p
         /\ f = g => Decrypt(b, g).finished
<1>1. p \in Seq(S) /\ n \in Nat /\ HasChunks(p, n) /\ g \in Seq(B) /\ Len(g) \in Nat /\ Len(p) \in Nat
  <2>1. p \in Seq(S) /\ n \in Nat /\ HasChunks(p, n) /\ g \in Seq(B)
    BY Zenon DEF Readable, IsFile
  <2>2. QED
    BY <2>1
<1>2. PICK x : /\ Decrypt(b, g) = x[Len(g) + 1] /\ x[0] = NewDecryptor(b, g)
               /\ \A i \in 0..Len(g) : x[i + 1] = Step(x[i])
  BY <1>1, DecryptIs
<1> DEFINE At(i, t) == AtSegment(x[i], t, b, p, f, B, g)
           Fine(i) == Stuck(x[i], p) \/ Done(x[i], p, f, g) \/ \E t \in 0..n : At(i, t)
           T == {i \in Nat : i <= Len(g) + 1 => Fine(i)}
<1>3. 0 \in T
  <2>1. Fine(0)
    <3>1. 0 \in 0..n
      BY <1>1
    <3>2. Stuck(x[0], p) \/ At(0, 0)
      BY <1>2, NewDecryptorReads, Zenon
    <3>3. QED
      BY <3>1, <3>2, Zenon
  <2>2. QED
    BY <2>1
<1>4. ASSUME NEW i \in Nat, i \in T PROVE i + 1 \in T
  <2>1. SUFFICES ASSUME i + 1 <= Len(g) + 1 PROVE Fine(i + 1)
    OBVIOUS
  <2>2. i \in 0..Len(g) /\ i <= Len(g) + 1
    BY <1>1, <2>1
  <2>3. x[i + 1] = Step(x[i]) /\ Fine(i)
    BY <1>2, <1>4, <2>2
  <2>4. CASE Stuck(x[i], p)
    BY <2>3, <2>4, EndsStay, Zenon
  <2>5. CASE Done(x[i], p, f, g)
    BY <2>3, <2>5, EndsStay, Zenon
  <2>6. ASSUME NEW t \in 0..n, At(i, t) PROVE Fine(i + 1)
    <3>1. \/ Stuck(Step(x[i]), p)
          \/ t = n /\ Done(Step(x[i]), p, f, g)
          \/ t # n /\ AtSegment(Step(x[i]), t + 1, b, p, f, B, g)
      BY <2>6, StepReads, Zenon
    <3>2. t # n => t + 1 \in 0..n
      BY <1>1
    <3>3. QED
      BY <2>3, <3>1, <3>2, Zenon
  <2>7. QED
    BY <2>3, <2>4, <2>5, <2>6, Zenon
<1> HIDE DEF T
<1>5. \A i \in Nat : i \in T
  BY <1>3, <1>4, Induction
<1>6. Fine(Len(g) + 1)
  <2>1. Len(g) + 1 \in Nat /\ Len(g) + 1 <= Len(g) + 1
    BY <1>1
  <2>2. QED
    BY <1>5, <2>1, Zenon DEF T
<1> DEFINE e == Decrypt(b, g)
<1>7. /\ \E m \in 0..Len(p) : e.out = SubSeq(p, 1, m)
      /\ e.finished => ~e.error /\ g = f /\ e.out = p
  <2>1. CASE Stuck(x[Len(g) + 1], p)
    BY <1>2, <2>1, Zenon DEF Stuck
  <2>2. CASE Done(x[Len(g) + 1], p, f, g)
    <3>1. SubSeq(p, 1, Len(p)) = p /\ Len(p) \in 0..Len(p)
      BY <1>1, SubSeqFull
    <3>2. QED
      BY <1>2, <2>2, <3>1, Zenon DEF Done
  <2>3. ASSUME NEW t \in 0..n, At(Len(g) + 1, t)
        PROVE  e.finished = FALSE /\ \E m \in 0..Len(p) : e.out = SubSeq(p, 1, m)
    <3>1. PICK rest, pending : e = Reading(b, rest, pending, t, SubSeq(p, 1, Start(t)))
      BY <1>2, <2>3, Zenon DEF AtSegment
    <3>2. e.finished = FALSE /\ e.out = SubSeq(p, 1, Start(t))
      <4> DEFINE o == SubSeq(p, 1, Start(t))
      <4> HIDE DEF o
      <4>1. /\ Reading(b, rest, pending, t, o).finished = FALSE
            /\ Reading(b, rest, pending, t, o).out = o
        BY DEF Reading, Reader
      <4>2. QED
        BY <3>1, <4>1, Zenon DEF o
    <3>3. Start(t) \in 0..Len(p)
      <4>1. Start(t) <= Len(p)
        BY <1>1, Chunks
      <4>2. t \in Nat
        BY <1>1
      <4>3. Start(t) \in Nat
        BY <4>2, Skips, Zenon
      <4>4. QED
        BY <1>1, <4>1, <4>3
    <3>4. QED
      BY <3>2, <3>3, Zenon
  <2>4. QED
    BY <1>6, <2>1, <2>2, <2>3, Zenon
<1>8. ASSUME f = g PROVE e.finished
  <2> DEFINE V(i) == (i <= n => At(i, i)) /\ (n < i => Done(x[i], p, f, g))
             U == {i \in Nat : i <= Len(g) + 1 => V(i)}
  <2>1. 0 \in U
    <3>1. At(0, 0)
      BY <1>2, <1>8, NewDecryptorReads, Zenon
    <3>2. ~(n < 0)
      BY <1>1
    <3>3. V(0)
      BY <3>1, <3>2
    <3> HIDE DEF V
    <3>4. QED
      BY <3>3
  <2>2. ASSUME NEW i \in Nat, i \in U PROVE i + 1 \in U
    <3> HIDE DEF V
    <3>1. SUFFICES ASSUME i + 1 <= Len(g) + 1 PROVE V(i + 1)
      OBVIOUS
    <3>2. i \in 0..Len(g) /\ i <= Len(g) + 1
      BY <1>1, <3>1
    <3>3. V(i)
      BY <2>2, <3>2
    <3> USE DEF V
    <3>4. (i <= n => At(i, i)) /\ (n < i => Done(x[i], p, f, g))
      BY <3>3
    <3>5. x[i + 1] = Step(x[i])
      BY <1>2, <3>2
    <3>6. CASE i <= n
      <4>1. i \in 0..n /\ AtSegment(x[i], i, b, p, g, B, g) /\ Readable(b, S, p, n, g, B, g)
        <5>1. i \in 0..n
          BY <1>1, <3>6
        <5>2. At(i, i)
          BY <3>4, <3>6
        <5>3. QED
          BY <1>8, <5>1, <5>2, Zenon
      <4>2. \/ i = n /\ Done(Step(x[i]), p, g, g)
            \/ i # n /\ AtSegment(Step(x[i]), i + 1, b, p, g, B, g)
        BY <4>1, FileOpens
      <4>3. (i + 1 <= n => i # n) /\ (n < i + 1 => i = n)
        BY <1>1, <3>6
      <4>4. QED
        BY <1>8, <3>5, <4>2, <4>3, Zenon
    <3>7. CASE n < i
      <4>1. ~(i + 1 <= n)
        BY <1>1, <3>7
      <4>2. QED
        BY <3>4, <3>5, <3>7, <4>1, EndsStay, Zenon
    <3>8. QED
      BY <1>1, <3>6, <3>7
  <2> HIDE DEF U, V
  <2>3. \A i \in Nat : i \in U
    BY <2>1, <2>2, Induction
  <2>4. n <= Len(g)
    <3>1. Len(f) >= Skip(n)
      BY Zenon DEF Readable, IsFile, Begins
    <3>2. n <= Skip(n) /\ Skip(n) \in Nat
      BY <1>1, SkipsGrow, Skips, Zenon
    <3>3. QED
      BY <1>1, <1>8, <3>1, <3>2
  <2>5. Len(g) + 1 \in Nat /\ Len(g) + 1 <= Len(g) + 1 /\ n < Len(g) + 1
    BY <1>1, <2>4
  <2>6. Done(x[Len(g) + 1], p, f, g)
    <3>1. V(Len(g) + 1)
      BY <2>3, <2>5, Zenon DEF U
    <3>2. QED
      BY <2>5, <3>1, Zenon DEF V
  <2>7. QED
    BY <1>2, <2>6, Zenon DEF Done
<1>9. QED
  BY <1>7, <1>8, Zenon
-------------------------------------------------------------------------------
(* Every byte of a file is genuine, whoever reads it. *)

\* Every place of a file is in its header or in one of its segments.
LEMMA FilePlaces ==
  ASSUME NEW b \in Blobs, NEW S, NEW p \in Seq(S), NEW n \in Nat, NEW f, IsFile(f, b, S, p, n),
         NEW i \in 1..Len(f), HeaderLen < i
  PROVE  \E t \in 0..n, at \in Nat : /\ at \in 1..Len(Chunk(p, n, t)) + TagLen
                                     /\ f[i] = SegmentOf(b, p, n, t)[at]
<1>1. HasChunks(p, n) /\ f \in Seq(Bytes(S))
  BY Zenon DEF IsFile
<1>2. n \in 0..n /\ i \in Nat /\ Skip(n) \in Nat /\ Len(f) \in Nat
  <2>1. n \in 0..n /\ Len(f) \in Nat
    BY <1>1
  <2>2. QED
    BY <2>1, Skips
<1>3. CASE i <= Skip(n)
  <2>1. PICK t \in 0..n - 1, at \in 1..Width : i = Skip(t) + at
    BY <1>2, <1>3, PlacesInFile
  <2>2. t \in 0..n /\ t < n
    OBVIOUS
  <2>3. /\ \A j \in 1..Len(Chunk(p, n, t)) + TagLen : f[Skip(t) + j] = SegmentOf(b, p, n, t)[j]
        /\ Len(Chunk(p, n, t)) + TagLen = Width
    BY <2>2, FileAt
  <2>4. at \in Nat /\ at \in 1..Len(Chunk(p, n, t)) + TagLen
    BY <2>3, Widths
  <2>5. f[i] = SegmentOf(b, p, n, t)[at]
    BY <2>1, <2>3, <2>4
  <2>6. QED
    BY <2>2, <2>4, <2>5, Zenon
<1>4. CASE Skip(n) < i
  <2> DEFINE at == i - Skip(n)
  <2>1. /\ \A j \in 1..Len(Chunk(p, n, n)) + TagLen : f[Skip(n) + j] = SegmentOf(b, p, n, n)[j]
        /\ Len(f) = Skip(n) + Len(Chunk(p, n, n)) + TagLen
    BY <1>2, FileAt
  <2>2. Len(Chunk(p, n, n)) \in Nat
    <3>1. Chunk(p, n, n) \in Seq(S)
      BY <1>1, <1>2, Chunks
    <3>2. QED
      BY <3>1
  <2>3. at \in Nat /\ at \in 1..Len(Chunk(p, n, n)) + TagLen /\ Skip(n) + at = i
    BY <1>2, <1>4, <2>1, <2>2, Widths
  <2>4. f[i] = SegmentOf(b, p, n, n)[at]
    BY <2>1, <2>3
  <2>5. QED
    BY <1>2, <2>3, <2>4, Zenon
<1>5. QED
  BY <1>2, <1>3, <1>4

\* A byte of any blob's file is a byte of b's own file or sealed for another blob.
LEMMA FileIsGenuine ==
  ASSUME NEW c \in Blobs, NEW S, NEW q \in Seq(S), NEW m \in Nat, NEW f, IsFile(f, c, S, q, m),
         NEW b \in Blobs, NEW p, NEW n, b = c => p = q /\ n = m
  PROVE  \A i \in 1..Len(f) : Genuine(f[i], b, p, n)
<1>1. HasChunks(q, m) /\ f \in Seq(Bytes(S)) /\ Begins(f, c, q, m)
  BY Zenon DEF IsFile
<1>2. ASSUME NEW i \in 1..Len(f), i <= HeaderLen PROVE Genuine(f[i], b, p, n)
  <2>1. i \in 1..HeaderLen
    BY <1>2, Widths
  <2>2. f[i] = Header(c)[i]
    BY <1>1, <2>1, Zenon DEF Begins
  <2>3. "seg" \notin DOMAIN f[i]
    BY <2>1, <2>2, HeaderBytesOf
  <2>4. QED
    BY <2>3, Zenon DEF Genuine
<1>3. ASSUME NEW i \in 1..Len(f), HeaderLen < i PROVE Genuine(f[i], b, p, n)
  <2>1. PICK t \in 0..m, at \in Nat : /\ at \in 1..Len(Chunk(q, m, t)) + TagLen
                                      /\ f[i] = SegmentOf(c, q, m, t)[at]
    BY <1>3, FilePlaces
  <2>2. IsByte(f[i], c, t, t = m, Chunk(q, m, t), at)
    BY <1>1, <2>1, SegmentIs, Zenon
  <2>3. f[i].of = c /\ f[i].seg = t /\ f[i].at = at
    BY <2>2, Zenon DEF IsByte
  <2>4. SUFFICES ASSUME f[i].of = b
                 PROVE  /\ f[i].seg \in 0..n
                        /\ f[i].at \in 1..Len(Chunk(p, n, f[i].seg)) + TagLen
                        /\ f[i] = SegmentOf(b, p, n, f[i].seg)[f[i].at]
    BY Zenon DEF Genuine
  <2>5. b = c /\ p = q /\ n = m
    BY <2>3, <2>4
  <2>6. QED
    BY <2>1, <2>3, <2>5, Zenon
<1>4. \A i \in 1..Len(f) : i <= HeaderLen \/ HeaderLen < i
  BY <1>1, Widths
<1>5. QED
  BY <1>2, <1>3, <1>4, Zenon

\* The content of every blob, and its number of full chunks.
Plaintext(b) == Text(PlainLen[b])
Fulls(b) == CHOOSE n \in Nat : IsFile(Ciphertext[b], b, Nat, Plaintext(b), n)

\* The content of a blob is a sequence of numbers.
LEMMA ContentIs ==
  ASSUME NEW k \in Nat
  PROVE  Text(k) \in Seq(Nat) /\ Len(Text(k)) = k
<1>1. \A i \in 1..k : i \in Nat
  OBVIOUS
<1>2. Text(k) \in [1..k -> Nat]
  BY <1>1 DEF Text
<1>3. QED
  BY <1>2 DEF Text

\* The file of every blob has the layout of a file.
LEMMA CiphertextIs ==
  ASSUME NEW b \in Blobs
  PROVE  /\ PlainLen[b] \in Nat /\ Plaintext(b) \in Seq(Nat) /\ Len(Plaintext(b)) = PlainLen[b]
         /\ Ciphertext[b] = Encrypt(b, Plaintext(b))
         /\ Fulls(b) \in Nat /\ IsFile(Ciphertext[b], b, Nat, Plaintext(b), Fulls(b))
<1>1. PlainLen[b] \in Nat
  BY LengthsAreNaturals
<1>2. Plaintext(b) \in Seq(Nat) /\ Len(Plaintext(b)) = PlainLen[b]
  BY <1>1, ContentIs DEF Plaintext
<1>3. Ciphertext[b] = Encrypt(b, Plaintext(b))
  BY DEF Ciphertext, Plaintext
<1>4. \E n \in Nat : IsFile(Ciphertext[b], b, Nat, Plaintext(b), n)
  BY <1>2, <1>3, EncryptLayout
<1>5. QED
  BY <1>1, <1>2, <1>3, <1>4, Zenon DEF Fulls

\* What is encrypted is decrypted: a file made from any content p, of any set,
\* gives p back.
THEOREM RoundTrip ==
  ASSUME NEW b \in Blobs, NEW S, NEW p \in Seq(S)
  PROVE  LET d == Decrypt(b, Encrypt(b, p)) IN d.finished /\ ~d.error /\ d.out = p
<1> DEFINE f == Encrypt(b, p)
<1>1. PICK n \in Nat : IsFile(f, b, S, p, n)
  BY EncryptLayout
<1> HIDE DEF f
<1>2. f \in Seq(Bytes(S))
  BY <1>1, Zenon DEF IsFile
<1>3. \A i \in 1..Len(f) : Genuine(f[i], b, p, n)
  BY <1>1, FileIsGenuine
<1>4. Readable(b, S, p, n, f, Bytes(S), f)
  BY <1>1, <1>2, <1>3, Zenon DEF Readable
<1>5. Decrypt(b, f).finished /\ ~Decrypt(b, f).error /\ Decrypt(b, f).out = p
  <2>1. /\ Decrypt(b, f).finished => ~Decrypt(b, f).error /\ f = f /\ Decrypt(b, f).out = p
        /\ f = f => Decrypt(b, f).finished
    BY <1>4, DecryptGives
  <2>2. QED
    BY <2>1, Zenon
<1>6. QED
  BY <1>5, Zenon DEF f

\* A file has the length that the byte counter of a download expects.
THEOREM LengthIsSize == \A b \in Blobs : Len(Ciphertext[b]) = Size(b)
<1>1. SUFFICES ASSUME NEW b \in Blobs PROVE Len(Ciphertext[b]) = Size(b)
  OBVIOUS
<1> DEFINE n == Fulls(b)
           l == PlainLen[b]
           p == Plaintext(b)
<1>2. /\ l \in Nat /\ Len(p) = l /\ n \in Nat
      /\ Len(Ciphertext[b]) = Skip(n) + LastLen(p, n) /\ HasChunks(p, n)
  BY CiphertextIs, Zenon DEF IsFile
<1> HIDE DEF n, l, p
<1>3. n * ChunkSize <= l /\ l < n * ChunkSize + ChunkSize
  BY <1>2, Zenon DEF HasChunks, Start
<1>4. ChunkSize \in Nat \ {0} /\ TagLen \in Nat /\ HeaderLen \in Nat
  BY Widths
<1>5. l \div ChunkSize = n
  BY <1>2, <1>3, <1>4
<1>6. n * Width = n * ChunkSize + n * TagLen
  BY <1>2, <1>4 DEF Width
<1>7. TagLen * (n + 1) = n * TagLen + TagLen
  BY <1>2, <1>4
<1>8. n * ChunkSize \in Nat /\ n * TagLen \in Nat
  BY <1>2, <1>4
<1>9. Len(Ciphertext[b]) = (HeaderLen + n * Width) + ((l - n * ChunkSize) + TagLen)
  BY <1>2, Zenon DEF Skip, LastLen, Start
<1>10. Size(b) = HeaderLen + l + TagLen * (n + 1)
  BY <1>5, Zenon DEF Size, l
<1>11. QED
  BY <1>2, <1>4, <1>6, <1>7, <1>8, <1>9, <1>10

\* The bytes of the files of all blobs.
FileBytes == UNION {{Ciphertext[c][i] : i \in 1..Len(Ciphertext[c])} : c \in Blobs}

\* A file is made of the bytes of files.
LEMMA CiphertextBytes ==
  ASSUME NEW c \in Blobs
  PROVE  /\ Ciphertext[c] \in Seq(FileBytes)
         /\ \A i \in 1..Len(Ciphertext[c]) : Ciphertext[c][i] \in FileBytes
<1> DEFINE f == Ciphertext[c]
<1>1. f \in Seq(Bytes(Nat))
  BY CiphertextIs, Zenon DEF IsFile
<1>2. \A i \in 1..Len(f) : f[i] \in FileBytes
  BY DEF FileBytes
<1> HIDE DEF f
<1>3. f \in [1..Len(f) -> FileBytes] /\ Len(f) \in Nat
  BY <1>1, <1>2
<1>4. f \in Seq(FileBytes)
  BY <1>3
<1>5. QED
  BY <1>2, <1>4 DEF f

\* No byte of any file passes for a byte of b but b's own.
LEMMA FileBytesAreGenuine ==
  ASSUME NEW b \in Blobs
  PROVE  \A x \in FileBytes : Genuine(x, b, Plaintext(b), Fulls(b))
<1>1. SUFFICES ASSUME NEW c \in Blobs, NEW i \in 1..Len(Ciphertext[c])
               PROVE  Genuine(Ciphertext[c][i], b, Plaintext(b), Fulls(b))
  BY Zenon DEF FileBytes
<1>2. /\ Plaintext(c) \in Seq(Nat) /\ Fulls(c) \in Nat
      /\ IsFile(Ciphertext[c], c, Nat, Plaintext(c), Fulls(c))
  BY CiphertextIs, Zenon
<1>3. b = c => Plaintext(b) = Plaintext(c) /\ Fulls(b) = Fulls(c)
  OBVIOUS
<1> DEFINE p == Plaintext(b)
           n == Fulls(b)
           q == Plaintext(c)
           m == Fulls(c)
           f == Ciphertext[c]
<1> HIDE DEF p, n, q, m, f
<1>4. \A j \in 1..Len(f) : Genuine(f[j], b, p, n)
  <2>1. /\ q \in Seq(Nat) /\ m \in Nat /\ IsFile(f, c, Nat, q, m)
        /\ b = c => p = q /\ n = m
    BY <1>2, <1>3, Zenon DEF p, n, q, m, f
  <2>2. QED
    BY <2>1, FileIsGenuine
<1>5. QED
  BY <1>1, <1>4, Zenon DEF p, n, f

\* Only the blob's own file is decrypted to the end, and whatever else is read
\* gives a beginning of the blob's content: of all sequences of bytes that are
\* in some blob's file or that nobody sealed.
THEOREM OnlyTheFileOpens ==
  ASSUME NEW b \in Blobs, NEW Junk, \A x \in Junk : "seg" \notin DOMAIN x,
         NEW g \in Seq(FileBytes \cup Junk)
  PROVE  LET d == Decrypt(b, g)
         IN /\ IsPrefix(d.out, Text(PlainLen[b]))
            /\ d.finished => ~d.error /\ g = Ciphertext[b] /\ d.out = Text(PlainLen[b])
            /\ g = Ciphertext[b] => d.finished
<1> DEFINE p == Plaintext(b)
           n == Fulls(b)
           f == Ciphertext[b]
           B == FileBytes \cup Junk
           e == Decrypt(b, g)
<1>1. p \in Seq(Nat) /\ n \in Nat /\ IsFile(f, b, Nat, p, n)
  BY CiphertextIs, Zenon
<1>2. \A x \in B : Genuine(x, b, p, n)
  BY FileBytesAreGenuine, Zenon DEF Genuine
<1>3. p = Text(PlainLen[b])
  BY DEF Plaintext
<1> HIDE DEF p, n, f, B
<1>4. g \in Seq(B)
  BY DEF B
<1>5. \A i \in 1..Len(g) : Genuine(g[i], b, p, n)
  BY <1>2, <1>4
<1>6. Readable(b, Nat, p, n, f, B, g)
  BY <1>1, <1>4, <1>5, Zenon DEF Readable
<1>7. /\ \E m \in 0..Len(p) : e.out = SubSeq(p, 1, m)
      /\ e.finished => /\ ~e.error /\ g = f
                       /\ e.out = p
      /\ f = g => e.finished
  BY <1>6, DecryptGives
<1> HIDE DEF e
<1>8. IsPrefix(e.out, p)
  <2>1. PICK m \in 0..Len(p) : e.out = SubSeq(p, 1, m)
    BY <1>7
  <2>2. m \in Nat /\ m <= Len(p) /\ Len(p) \in Nat /\ \A i \in 1..m : p[i] \in Nat
    BY <1>1
  <2>3. e.out \in Seq(Nat) /\ Len(e.out) = IF 1 <= m THEN m - 1 + 1 ELSE 0
    BY <2>1, <2>2, SubSeqProperties
  <2>4. Len(e.out) = m
    BY <2>2, <2>3
  <2>5. SubSeq(e.out, 1, m) = e.out
    BY <2>3, <2>4, SubSeqFull
  <2>6. QED
    BY <2>1, <2>2, <2>4, <2>5 DEF IsPrefix
<1>9. QED
  BY <1>3, <1>7, <1>8, Zenon DEF e, f

\* Cutting a file off makes no new bytes.
LEMMA FirstOfBytes ==
  ASSUME NEW B, NEW s \in Seq(B), NEW n \in Nat
  PROVE  FirstOf(s, n) \in Seq(B)
BY FirstOfIs

\* Headers and segments are made of the bytes of files.
LEMMA PiecesAreBytes == Pieces \subseteq Seq(FileBytes)
<1>1. ASSUME NEW b \in Blobs PROVE Header(b) \in Seq(FileBytes)
  <2> DEFINE f == Ciphertext[b]
             h == Header(b)
  <2>1. /\ f \in Seq(Bytes(Nat)) /\ Begins(f, b, Plaintext(b), Fulls(b)) /\ Fulls(b) \in Nat
    BY CiphertextIs, Zenon DEF IsFile
  <2>2. Len(f) \in Nat /\ Len(f) >= HeaderLen /\ HeaderLen \in Nat
    <3>1. Len(f) >= Skip(Fulls(b))
      BY <2>1, Zenon DEF Begins
    <3>2. Skip(Fulls(b)) >= HeaderLen /\ Skip(Fulls(b)) \in Nat
      BY <2>1, Skips, Zenon
    <3>3. Len(f) \in Nat
      BY <2>1
    <3>4. QED
      BY <3>1, <3>2, <3>3, Widths
  <2>3. \A k \in 1..HeaderLen : h[k] = f[k]
    BY <2>1, Zenon DEF Begins
  <2>4. \A k \in 1..HeaderLen : f[k] \in FileBytes
    BY <2>2, CiphertextBytes
  <2>5. h \in Seq(Bytes(Nat)) /\ Len(h) = HeaderLen
    BY HeaderBytesOf
  <2> HIDE DEF h, f
  <2>6. h \in [1..HeaderLen -> FileBytes]
    BY <2>3, <2>4, <2>5
  <2>7. h \in Seq(FileBytes)
    BY <2>2, <2>6
  <2>8. QED
    BY <2>7 DEF h
<1>2. ASSUME NEW b \in Blobs, NEW s \in 0..PlainLen[b] \div ChunkSize
      PROVE  Segment(b, s) \in Seq(FileBytes)
  <2> DEFINE f == Ciphertext[b]
             from == HeaderLen + s * (ChunkSize + TagLen)
             rest == SubSeq(f, from + 1, Len(f))
  <2>1. f \in Seq(FileBytes)
    BY CiphertextBytes
  <2>2. s \in Nat
    OBVIOUS
  <2>3. from \in Nat /\ ChunkSize + TagLen \in Nat
    <3>1. from = Skip(s)
      BY Zenon DEF Skip, Width
    <3>2. Skip(s) \in Nat
      BY <2>2, Skips, Zenon
    <3>3. QED
      BY <3>1, <3>2, Widths
  <2>4. Segment(b, s) = FirstOf(rest, ChunkSize + TagLen)
    BY Zenon DEF Segment
  <2> HIDE DEF f, from
  <2>5. rest \in Seq(FileBytes)
    BY <2>1, <2>3, RestIs
  <2> HIDE DEF rest
  <2>6. QED
    BY <2>3, <2>4, <2>5, FirstOfBytes
<1>3. QED
  <2>1. SUFFICES ASSUME NEW x \in Pieces PROVE x \in Seq(FileBytes)
    OBVIOUS
  <2>2. PICK b \in Blobs : x \in {Header(b)} \cup {Segment(b, s) : s \in 0..PlainLen[b] \div ChunkSize}
    BY Zenon DEF Pieces
  <2>3. QED
    BY <1>1, <1>2, <2>2

\* So is whatever is put together from them and cut off.
LEMMA DamagedAreBytes == Damaged \subseteq Seq(FileBytes)
<1> DEFINE Few == Pieces \cup {<<>>}
<1>1. Few \subseteq Seq(FileBytes)
  BY PiecesAreBytes, EmptySeq
<1>2. \A s, t \in Seq(FileBytes) : s \o t \in Seq(FileBytes)
  BY ConcatProperties, Zenon
<1>3. ASSUME NEW p1 \in Few, NEW p2 \in Few, NEW p3 \in Few, NEW p4 \in Few
      PROVE  p1 \o p2 \o p3 \o p4 \in Seq(FileBytes)
  BY <1>1, <1>2, Zenon
<1>4. ASSUME NEW f \in Seq(FileBytes), NEW n \in 0..Len(f)
      PROVE  FirstOf(f, n) \in Seq(FileBytes)
  <2>1. n \in Nat
    OBVIOUS
  <2>2. QED
    BY <2>1, FirstOfBytes
<1>5. QED
  <2>1. SUFFICES ASSUME NEW x \in Damaged PROVE x \in Seq(FileBytes)
    OBVIOUS
  <2> DEFINE F == {p[1] \o p[2] \o p[3] \o p[4] : p \in [1..4 -> Few]}
  <2>2. Damaged = UNION {{FirstOf(f, n) : n \in 0..Len(f)} : f \in F}
    BY Zenon DEF Damaged
  <2> HIDE DEF F
  <2>3. PICK f \in F : x \in {FirstOf(f, n) : n \in 0..Len(f)}
    BY <2>2
  <2>4. PICK p \in [1..4 -> Few] : f = p[1] \o p[2] \o p[3] \o p[4]
    BY DEF F
  <2>5. p[1] \in Few /\ p[2] \in Few /\ p[3] \in Few /\ p[4] \in Few
    OBVIOUS
  <2>6. f \in Seq(FileBytes)
    BY <1>3, <2>4, <2>5, Zenon
  <2>7. QED
    BY <1>4, <2>3, <2>6

\* The format keeps what Sound says of it, for every blob.
THEOREM EveryBlobIsSound == Sound = Blobs
<1>1. ASSUME NEW b \in Blobs PROVE Len(Ciphertext[b]) = Size(b)
  BY LengthIsSize
<1>2. ASSUME NEW b \in Blobs, NEW n \in 0..3 * ChunkSize
      PROVE  LET d == Decrypt(b, Encrypt(b, Text(n))) IN d.finished /\ d.out = Text(n)
  <2>1. Text(n) \in Seq(Nat)
    BY ContentIs
  <2>2. QED
    BY <2>1, RoundTrip, Zenon
<1>3. ASSUME NEW b \in Blobs, NEW f \in Damaged
      PROVE  LET d == Decrypt(b, f) IN /\ IsPrefix(d.out, Text(PlainLen[b]))
                                       /\ d.finished => ~d.error /\ f = Ciphertext[b]
  <2>1. f \in Seq(FileBytes \cup {}) /\ \A x \in {} : "seg" \notin DOMAIN x
    <3>1. FileBytes \cup {} = FileBytes
      OBVIOUS
    <3>2. QED
      BY <3>1, DamagedAreBytes
  <2>2. QED
    BY <2>1, OnlyTheFileOpens, Zenon
<1>4. QED
  BY <1>1, <1>2, <1>3, Zenon DEF Sound
===============================================================================
