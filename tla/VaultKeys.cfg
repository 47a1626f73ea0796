\* Two first devices, enough ids for both creations and a recovery slot each.
SPECIFICATION FairSpec
CONSTANTS
  Devices = {d1, d2}
  Vaults = {v1, v2}
  SlotIds = {s1, s2, s3}
  Deleters = {x1}
  None = None
INVARIANTS TypeOK OneMasterKey LastSlotKept
PROPERTY EveryoneGetsIn
\* The system may stop: a data dir whose bootstrap was torn accepts no command.
CHECK_DEADLOCK FALSE
