SPECIFICATION FeedSpec
CONSTANTS
  Docs = {d1, d2}
  Blobs = {b1}
  Metas = {m1}
  Reqs = {r1, r2}
  NoBlob = NoBlob
  NoMeta = NoMeta
  MaxSeq = 4
  PageLimit = 1
SYMMETRY Symmetry
INVARIANTS
  TypeOK
  PendingIsNext
  SeqsDistinct
  MismatchIsNewer
PROPERTIES
  VersionsStepByOne
  ImplementsRegister
  OnlyLateCommitsEscape
