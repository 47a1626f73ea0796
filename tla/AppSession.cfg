SPECIFICATION Spec
CONSTANTS
  t1 = t1
  t2 = t2
  Tasks = {t1, t2}
  Nobody = Nobody
  MaxFailed = 2
  MaxStarts = 3
  MaxCrashes = 1
INVARIANTS TypeOK PromptsBounded QuickUnlockIsWhole PlaintextHasDeadline
PROPERTIES EventuallyLocked
