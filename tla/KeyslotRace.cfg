\* One device with a passphrase and a recovery slot, two deletions at a time.
SPECIFICATION Spec
CONSTANTS
  Devices = {d1}
  Vaults = {v1}
  SlotIds = {s1, s2}
  Deleters = {x1, x2}
  None = None
INVARIANT LastSlotKept
\* The system may stop: a data dir whose bootstrap was torn accepts no command.
CHECK_DEADLOCK FALSE
