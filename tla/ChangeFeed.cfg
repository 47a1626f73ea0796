SPECIFICATION FeedSpec
CONSTANTS
  Docs = {d1, d2}
  Blobs = {b1}
  Metas = {m1}
  Reqs = {r1, r2}
  NoBlob = NoBlob
  NoMeta = NoMeta
  MaxSeq = 2
  PageLimit = 2
INVARIANTS
  CursorCoversFeed
