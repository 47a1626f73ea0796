SPECIFICATION LiveSpec
CONSTANTS
  Devices = {c1, c2}
  Docs = {d1, d2}
  Slots = {s1, s2}
  NoBlob = NoBlob
  NoMeta = NoMeta
  PageLimit = 1
  MaxRounds = 3
  MaxAdds = 1
  MaxEdits = 2
  MaxSeq = 5
  MaxInterrupts = 0
  MaxCollects = 0
  DeleteUnpushed = TRUE
  TightCache = FALSE
  Browsing = FALSE
PROPERTIES
  EventuallyAgree
