------------------------------ MODULE BlobStream ------------------------------
(***************************************************************************)
(* The encrypted file format of scrigno-core/blob.rs, as a pure algorithm: *)
(* a header, then chunks of ChunkSize bytes each sealed with TagLen more,  *)
(* the last one marked as such.  Encryption is perfect: a sealed byte says *)
(* which chunk of which blob it belongs to, and a chunk opens only in its  *)
(* place, whole, and with the marker it was sealed with.                   *)
(***************************************************************************)
EXTENDS Integers, Sequences, SequencesExt

CONSTANTS
  ChunkSize, \* plaintext bytes of a full chunk
  TagLen,    \* what sealing adds to a chunk
  HeaderLen, \* magic, version, wrapped key, nonce prefix
  Blobs,     \* blobs; the document a blob was encrypted for is part of its name
  PlainLen   \* [Blobs -> Nat], the length of what a blob was made from

ASSUME SizesArePositive == {ChunkSize, TagLen, HeaderLen} \subseteq Nat \ {0}
ASSUME LengthsAreNaturals == PlainLen \in [Blobs -> Nat]
-------------------------------------------------------------------------------
(* Encryptor *)

\* build_header: it carries the blob's own key, bound to its document.
Header(b) == [i \in 1..HeaderLen |-> [of |-> b, header |-> i]]

\* One STREAM segment: the chunk data as number seg of blob b.  The bytes of
\* the tag carry no plaintext.
Seal(b, seg, last, data) ==
  [i \in 1..Len(data) + TagLen |->
     [of |-> b, seg |-> seg, last |-> last, size |-> Len(data), at |-> i,
      plain |-> IF i <= Len(data) THEN data[i] ELSE 0]]

\* Encryptor::new and from_parts: the header is written at once.
NewEncryptor(b) == [of |-> b, written |-> Header(b), buf |-> <<>>, seg |-> 0]

\* write_full_chunk.
WriteFullChunk(e) ==
  [e EXCEPT !.written = @ \o Seal(e.of, e.seg, FALSE, e.buf), !.seg = @ + 1, !.buf = <<>>]

\* Write::write.  A longer write fills the buffer and empties it in the same
\* places as one byte after the other.
WriteByte(e, byte) ==
  LET more == [e EXCEPT !.buf = Append(@, byte)]
  IN IF Len(more.buf) = ChunkSize THEN WriteFullChunk(more) ELSE more

\* finish: there is always a last segment, even an empty one.
Finish(e) == e.written \o Seal(e.of, e.seg, TRUE, e.buf)

Encrypt(b, plaintext) ==
  LET after[i \in 0..Len(plaintext)] ==
        IF i = 0 THEN NewEncryptor(b) ELSE WriteByte(after[i - 1], plaintext[i])
  IN Finish(after[Len(plaintext)])
-------------------------------------------------------------------------------
(* Decryptor *)

Failed(d) == [d EXCEPT !.error = TRUE]

\* Decryptor::new: without its own document's header a file does not open.
NewDecryptor(b, bytes) ==
  LET d == [of |-> b, rest |-> SubSeq(bytes, HeaderLen + 1, Len(bytes)), pending |-> <<>>,
            seg |-> 0, out |-> <<>>, finished |-> FALSE, error |-> FALSE]
  IN IF IsPrefix(Header(b), bytes) THEN d ELSE Failed(d)

OpensUnmarked(b, seg, last, sealed) ==
  \A i \in 1..Len(sealed) :
    /\ "seg" \in DOMAIN sealed[i]
    /\ sealed[i].of = b /\ sealed[i].seg = seg
    /\ sealed[i].size = Len(sealed) - TagLen /\ sealed[i].at = i

\* The AEAD: sealed bytes open if they are one whole segment, with this number
\* and this marker.
OpensAs(b, seg, last, sealed) ==
  \A i \in 1..Len(sealed) :
    /\ "seg" \in DOMAIN sealed[i]
    /\ sealed[i].of = b /\ sealed[i].seg = seg /\ sealed[i].last = last
    /\ sealed[i].size = Len(sealed) - TagLen /\ sealed[i].at = i

PlainOf(sealed) == [i \in 1..Len(sealed) - TagLen |-> sealed[i].plain]

\* What reading up to n bytes of s gives.
FirstOf(s, n) == SubSeq(s, 1, IF n < Len(s) THEN n ELSE Len(s))

\* A segment is the last one if the file ends within it, or with it: of a full
\* segment one more byte is read ahead to tell.
IsLast(sealed, after) == Len(sealed) < ChunkSize + TagLen \/ after = <<>>

\* fill_next_segment: the byte read ahead comes first, then the file up to a
\* full segment.
FillNextSegment(d) ==
  LET want   == ChunkSize + TagLen - Len(d.pending)
      sealed == d.pending \o FirstOf(d.rest, want)
      after  == SubSeq(d.rest, want + 1, Len(d.rest))
      last   == IsLast(sealed, after)
      next   == [d EXCEPT !.pending = IF last THEN <<>> ELSE SubSeq(after, 1, 1),
                          !.rest = IF last THEN after ELSE Tail(after)]
  IN IF Len(sealed) < TagLen \/ ~OpensAs(d.of, d.seg, last, sealed)
     THEN Failed(next)
     ELSE [next EXCEPT !.out = @ \o PlainOf(sealed), !.seg = @ + 1, !.finished = last]

\* Read::read, until it reports the end of the file or an error.  Callers take
\* what a segment holds in pieces of any size; that changes nothing here.
Step(d) == IF d.finished \/ d.error THEN d ELSE FillNextSegment(d)

Decrypt(b, bytes) ==
  LET after[i \in 0..Len(bytes) + 1] ==
        IF i = 0 THEN NewDecryptor(b, bytes) ELSE Step(after[i - 1])
  IN after[Len(bytes) + 1]
-------------------------------------------------------------------------------
(* What the format promises *)

Text(n) == [i \in 1..n |-> i]

\* The file of every blob.
Ciphertext == [b \in Blobs |-> Encrypt(b, Text(PlainLen[b]))]

\* Its length: every full chunk and the last segment carry a tag.
Size(b) == HeaderLen + PlainLen[b] + TagLen * (PlainLen[b] \div ChunkSize + 1)

\* What can become of files in the hands of a disk and a server that promise
\* nothing: headers and segments of any blobs, put together in any order, cut
\* off anywhere.
Segment(b, s) ==
  LET from == HeaderLen + s * (ChunkSize + TagLen)
  IN FirstOf(SubSeq(Ciphertext[b], from + 1, Len(Ciphertext[b])), ChunkSize + TagLen)

Pieces == UNION {{Header(b)} \cup {Segment(b, s) : s \in 0..PlainLen[b] \div ChunkSize} :
                   b \in Blobs}

Damaged ==
  LET Few == Pieces \cup {<<>>}
  IN UNION {{FirstOf(f, n) : n \in 0..Len(f)} :
              f \in {p[1] \o p[2] \o p[3] \o p[4] : p \in [1..4 -> Few]}}

\* Blobs whose file has the length that Size says, whose encryption gives
\* contents of every length back, and which nothing else is decrypted to.
Sound ==
  {b \in Blobs :
     /\ Len(Ciphertext[b]) = Size(b)
     /\ \A n \in 0..3 * ChunkSize :
          LET d == Decrypt(b, Encrypt(b, Text(n))) IN d.finished /\ d.out = Text(n)
     /\ \A f \in Damaged :
          LET d == Decrypt(b, f) IN /\ IsPrefix(d.out, Text(PlainLen[b]))
                                    /\ d.finished => ~d.error /\ f = Ciphertext[b]}
===============================================================================
