\* One mount, every fault and crashes, under the fairness of FairSpec.
CONSTANTS
  root = root
  a = a
  b = b
  ax = ax
  ay = ay
  p1 = p1
  p2 = p2
  Absent = Absent
  m1 = m1
  Mounts = {m1}
  Paths = {root, a}
  Root = root
  dirname <- MCDirname
  LongPaths = {}
  Ops <- MCAllOps
  Perms = {p1, p2}
  DefaultPerm = p1
  MkdirTypes = {"dir"}
  Offsets = {0, 1, 2}
  Lengths = {1}
  MAX_DOC_LEN = 2
  MAX_FILE_LEN = 3
  MaxCopies = 2
  Faults <- MCAllFaults
  CanCrash = TRUE
  RmdirEmptyOnly = FALSE
SPECIFICATION FairSpec
PROPERTY SuccessIsStored
PROPERTY EveryRequestReturns
