\* One mount, no call fails; the process ends by itself only.  Directories are
\* empty when they are removed.
CONSTANTS
  root = root
  a = a
  b = b
  ax = ax
  ay = ay
  p1 = p1
  p2 = p2
  Absent = Absent
  m1 = m1
  Mounts = {m1}
  Paths = {root, a, b, ax, ay}
  Root = root
  dirname <- MCDirname
  LongPaths = {ay}
  Ops <- MCAllOps
  Perms = {p1, p2}
  DefaultPerm = p1
  MkdirTypes = {"dir"}
  Offsets = {0, 1, 2}
  Lengths = {1, 2}
  MAX_DOC_LEN = 2
  MAX_FILE_LEN = 3
  MaxCopies = 2
  Faults = {}
  CanCrash = FALSE
  RmdirEmptyOnly = TRUE
SPECIFICATION Spec
INVARIANT TreeComplete
INVARIANT SizeMatchesBlock
PROPERTY WriteVisible
