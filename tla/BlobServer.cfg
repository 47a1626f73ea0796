\* Two blobs of two contents, two uploads and one document write at a time.
SPECIFICATION FairSpec
CONSTANTS
  Docs = {d1}
  Blobs = {b1, b2}
  Contents = {c1, c2}
  None = None
  Uploads = {u1, u2}
  Puts = {p1}
  MaxU64 = 6
  MaxSize = 4
INVARIANTS TypeOK ReferencedHasRow DamageOnlyByRace RangesAreExact
PROPERTIES ReferencedIsImmutable OrphanRowsCollected
