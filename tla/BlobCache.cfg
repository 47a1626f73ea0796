SPECIFICATION Spec
CONSTANTS
  d1 = d1
  d2 = d2
  NoDoc = NoDoc
  Docs = {d1, d2}
  Blobs = {d1, d2}
  Remote = {d1}
  ChunkSize = 2
  TagLen = 1
  HeaderLen = 1
  PlainLen <- Lengths
  Limits = {0, 9}
  Cuts = {0, 4, 7}
  MaxCrashes = 2
INVARIANTS
  TypeOK
  FilesMatchTable
  UnsentIsWhole
  OpenFailsForAReason
  OpenIsNeverWrong
  IndexTellsTruth
  FormatIsSound
PROPERTIES
  KeptStays
