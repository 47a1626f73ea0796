\* One blob, one upload and one document write at a time, and the sweep.
SPECIFICATION Spec
CONSTANTS
  Docs = {d1}
  Blobs = {b1}
  Contents = {c1}
  None = None
  Uploads = {u1}
  Puts = {p1}
  MaxU64 = 6
  MaxSize = 4
INVARIANT ReferencedIsStored
