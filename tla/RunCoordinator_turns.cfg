SPECIFICATION CastSpec
CONSTANTS
  r1 = r1  r2 = r2  r3 = r3  a = a  b = b  c1 = c1  c2 = c2
  NoRun = NoRun
  Stopper = Stopper
  Runs = {r1, r2, r3}
  ThreadOf <- Mixed
  Clients = {c1, c2}
  MaxRetries = 1
  MaxOutputs = 1
  CloseWarns = {TRUE, FALSE}
INVARIANTS
  InvokesOnlyRunning
  OneActivePerThread
PROPERTIES
  HistorySpec
  AbandonedOnlyInHandler
  EveryCallReturns
  EveryRunSettles
