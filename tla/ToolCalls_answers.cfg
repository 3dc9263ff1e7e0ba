SPECIFICATION FairSpec
CONSTANTS
  c1 = c1  c2 = c2  c3 = c3  test = test  push = push  wipe = wipe
  Nothing = Nothing
  Calls = {c1, c2}
  Allowed = {test}
  Asked = {push}
  Refused = {wipe}
  Mutations <- Mixed
  MaxWaits = 1
  MaxStarts = 2
INVARIANTS
  LapsedNeverRuns
  SuccessWasApplied
PROPERTIES
  RunsOnlyApproved
  CallsEnd
CHECK_DEADLOCK FALSE
