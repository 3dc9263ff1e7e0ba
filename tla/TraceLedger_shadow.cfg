SPECIFICATION LedgerSpec
CONSTANTS
  t1 = t1  t2 = t2  k1 = k1  k2 = k2  k3 = k3  i1 = i1  i2 = i2  a1 = a1  w1 = w1  w2 = w2
  NoValue = NoValue
  Tasks = {t1, t2}
  Keys = {k1, k2, k3}
  Items = {i1, i2}
  TaskOf <- Owner
  StoreOf <- Kind
  Rank <- RankOf
  ArtifactOf <- Artifact
  Writers = {w1, w2}
  MaxVersion = 2
  MaxWrites = 2
  MaxStarts = 3
SYMMETRY AnyWriter
PROPERTIES
  ServesTheTask
  ErasureIsExact
