\* One process, one call that the library refuses: expected to violate
\* CommandsDestroyed (README, section 3).
CONSTANTS
  k1 = k1
  k2 = k2
  v1 = v1
  v2 = v2
  cell1 = cell1
  cell2 = cell2
  Absent = Absent
  Keys = {k1, k2}
  StatsKeys = {k1}
  Versions = {v1}
  Contents = {v1}
  Cells = {cell1, cell2}
  Opaques = {1, 2}
  Faults <- FaultKinds
SPECIFICATION Spec
INVARIANT CommandsDestroyed
