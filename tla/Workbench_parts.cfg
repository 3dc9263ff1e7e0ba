SPECIFICATION SpecOne
CONSTANTS
  q1 = q1  q2 = q2  q3 = q3  x = x  y = y
  f1 = f1  f2 = f2  s1 = s1  s2 = s2
  h1 = h1  h2 = h2  w1 = w1  w2 = w2
  Nothing = Nothing
  Requests <- TheRequests
  Persisting <- ThePersisting
  Unlisted <- TheUnlisted
  Accounts <- TheAccounts
  MaxKeys = 3
  MaxStops = 1
  Searchers <- TheSearchers
  FileOrder <- TheFiles
  Hits <- HitLines
  Scopes <- TheScopes
  Sizes <- TheSizes
  PerFile = 2  MaxPerFile = 3  MaxMatches = 5  MaxBatches = 2  Retained = 1
  MaxFileEdits = 1
  MaxSearches = 3
  Paths <- ThePaths
  KindOf <- TheKinds
  Adjacent <- TheTests
  ToCheck <- TheTasks
  Manifests <- TheManifests
  Policy <- ThePolicy
  MaxMoves = 3
  MaxLosses = 1
  Benchmarks <- TheBenchmarks
  TaskOrder <- TheTrialTasks
  BenchmarkOf <- TheBenchmarkOf
  Attempts = 1
  CandidateOrder <- TheCandidates
  Results <- TheResults
  Importers <- TheImporters
  MaxRepeats = 1
  MaxImportKills = 1
  Processes <- TheProcesses
  MaxRevisions = 2
  MaxTreeKills = 1
  Entries <- TheEntries
  HasReference <- TheReferences
  BodySize <- RenderedLength
  LineSize = 80  ReferenceSize = 50  NameSize = 4
  Budgets <- TheBudgets
  MaxSelected = 2
  Goals <- TheGoals
  MaxSkillEdits = 1
  MaxSkillKills = 1
SYMMETRY Interchangeable
INVARIANTS
  PagesPartition
  PagesShowMatches
  
  RecordedOnce
  RecordReliable
  
  ContextFits
PROPERTIES
  CursorsResolve
  NewerChoiceStands
CHECK_DEADLOCK FALSE
