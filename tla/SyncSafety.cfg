SPECIFICATION Spec
CONSTANTS
  Devices = {c1, c2}
  Docs = {d1, d2, d3}
  Slots = {s1, s2}
  NoBlob = NoBlob
  NoMeta = NoMeta
  PageLimit = 1
  MaxRounds = 3
  MaxAdds = 2
  MaxEdits = 2
  MaxSeq = 6
  MaxInterrupts = 2
  MaxCollects = 1
  DeleteUnpushed = TRUE
  TightCache = TRUE
  Browsing = FALSE
SYMMETRY Symmetry
INVARIANTS
  TypeOK
  Readable
  CleanIsCommitted
  CursorCovers
  UnpushedBlobKept
  ServerBlobKept
PROPERTIES
  NeverRewinds
