SPECIFICATION FairSpec
CONSTANTS
  t1 = t1  i1 = i1  i2 = i2  k1 = k1
  Nothing = Nothing
  Roots = {t1}
  Items = {i1, i2}
  Continues = {k1}
  MaxPending = 2
  MaxFaults = 1
INVARIANTS
  PendingNotRunning
  ContinuationStartsOne
PROPERTIES
  QueueSpec
  SuccessDrains
