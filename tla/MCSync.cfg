\* One process, a stat document of two versions and one other document: late
\* commands and answers to the key of the call in progress and to the other key,
\* replaces whose CAS has expired by then among them.
CONSTANTS
  k1 = k1
  k2 = k2
  v1 = v1
  v2 = v2
  cell1 = cell1
  cell2 = cell2
  Absent = Absent
  Keys = {k1, k2}
  StatsKeys = {k1}
  Versions = {v1, v2}
  Contents = {v1}
  Cells = {cell1, cell2}
  Opaques = {1, 2}
  Faults <- FaultKinds
SPECIFICATION FairSpec
INVARIANT ResultsLive
PROPERTY ImplementsKeyValueStore
PROPERTY EveryCallReturns
