SPECIFICATION LiveSpec
CONSTANTS
  Devices = {c1, c2}
  Docs = {d1, d2, d3}
  Slots = {s1, s2}
  NoBlob = NoBlob
  NoMeta = NoMeta
  PageLimit = 1
  MaxRounds = 3
  MaxAdds = 1
  MaxEdits = 3
  MaxSeq = 6
  MaxInterrupts = 0
  MaxCollects = 0
  DeleteUnpushed = FALSE
  TightCache = FALSE
  Browsing = TRUE
INVARIANTS
  NoEditLost
PROPERTIES
  EventuallyAgree
  SyncReturns
