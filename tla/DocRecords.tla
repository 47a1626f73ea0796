------------------------------ MODULE DocRecords ------------------------------
(***************************************************************************)
(* The `document` row of the server's database and the three ways the      *)
(* document routes derive a new row from an old one.  A row that does not  *)
(* exist is the row of version 0, the sentinel the server itself uses in   *)
(* the body of a 412 for a document it has never stored.                   *)
(***************************************************************************)
EXTENDS Integers

CONSTANTS
  Docs,     \* document ids, generated by the clients
  Blobs,    \* blob ids, generated by the clients
  Metas,    \* opaque encrypted metadata
  NoBlob,   \* the NULL of document.blob_id
  NoMeta,   \* the empty enc_meta of a row that does not exist
  MaxSeq    \* bound: the last value of document_change_seq

ASSUME NullsAreNew == NoBlob \notin Blobs /\ NoMeta \notin Metas
ASSUME MaxSeqIsNat == MaxSeq \in Nat

Row == [version : Nat,
        blob    : Blobs \cup {NoBlob},
        meta    : Metas \cup {NoMeta},
        deleted : BOOLEAN,
        seq     : Nat]

NoRow == [version |-> 0, blob |-> NoBlob, meta |-> NoMeta,
          deleted |-> FALSE, seq |-> 0]

Exists(row) == row.version > 0

Live(row) == Exists(row) /\ ~row.deleted

PutRowBackwards(ifm, blob, meta, seq) ==
  [version |-> ifm - 1, blob |-> blob, meta |-> meta, deleted |-> FALSE, seq |-> seq]

PutRowSkipping(ifm, blob, meta, seq) ==
  [version |-> ifm + 2, blob |-> blob, meta |-> meta, deleted |-> FALSE, seq |-> seq]

PutRowNumberedByVersion(ifm, blob, meta, seq) ==
  [version |-> ifm + 1, blob |-> blob, meta |-> meta, deleted |-> FALSE, seq |-> ifm + 1]

\* The row an accepted PUT writes: the version is If-Match + 1, whatever the
\* old row was, and a tombstone comes back to life.
PutRow(ifm, blob, meta, seq) ==
  [version |-> ifm + 1, blob |-> blob, meta |-> meta,
   deleted |-> FALSE, seq |-> seq]

\* The row an accepted DELETE writes: enc_meta is not in the SET list, so the
\* tombstone keeps the metadata of the version it replaces.
Tombstone(old, ifm, seq) ==
  [version |-> ifm + 1, blob |-> NoBlob, meta |-> old.meta,
   deleted |-> TRUE, seq |-> seq]

\* What the callers may ask of document id: op is "put" or "delete", ifm the
\* If-Match header.
RequestsFor(id, ifm) ==
  [op : {"put"}, id : {id}, ifm : {ifm}, blob : Blobs, meta : Metas]
  \cup
  [op : {"delete"}, id : {id}, ifm : {ifm}, blob : {NoBlob}, meta : {NoMeta}]

Request == [op : {"put"}, id : Docs, ifm : Nat, blob : Blobs, meta : Metas]
           \cup
           [op : {"delete"}, id : Docs, ifm : Nat, blob : {NoBlob}, meta : {NoMeta}]

\* The row request q writes over old, with sequence number seq.
Written(q, old, seq) ==
  IF q.op = "put" THEN PutRow(q.ifm, q.blob, q.meta, seq)
                  ELSE Tombstone(old, q.ifm, seq)

\* How a route answers: "mismatch" is the 412 with the current row as body.
Codes == {"created", "updated", "mismatch", "not_found", "blob_not_found", "error"}

\* The answer of an accepted write: 201 for the PUT that creates, 200 otherwise.
Accepted(q) == IF q.op = "put" /\ q.ifm = 0 THEN "created" ELSE "updated"
===============================================================================
