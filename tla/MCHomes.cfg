\* Two mounts that keep apart; no call fails and nobody dies.
CONSTANTS
  root = root
  a = a
  b = b
  ax = ax
  p1 = p1
  p2 = p2
  Absent = Absent
  m1 = m1
  m2 = m2
  Mounts = {m1, m2}
  Paths = {root, a, ax}
  Root = root
  dirname <- MCDirname
  LongPaths = {}
  Ops <- MCHomesOps
  Perms = {p1, p2}
  DefaultPerm = p1
  MkdirTypes = {"dir"}
  Offsets = {0, 1}
  Lengths = {1}
  MAX_DOC_LEN = 1
  MAX_FILE_LEN = 2
  MaxCopies = 2
  Faults = {}
  CanCrash = FALSE
  RmdirEmptyOnly = TRUE
  Territory <- MCTerritory
  Homes = {a}
SPECIFICATION HomesSpec
PROPERTY ImplementsFileTree
