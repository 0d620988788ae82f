\* Two mounts; expected to violate ChmodKeepsType (README, section 3).
CONSTANTS
  root = root
  a = a
  b = b
  ax = ax
  ay = ay
  p1 = p1
  p2 = p2
  Absent = Absent
  m1 = m1
  m2 = m2
  Mounts = {m1, m2}
  Paths = {root, a}
  Root = root
  dirname <- MCDirname
  LongPaths = {}
  Ops = {"create", "mkdir", "unlink", "chmod"}
  Perms = {p1}
  DefaultPerm = p1
  MkdirTypes = {"dir"}
  Offsets = {0}
  Lengths = {1}
  MAX_DOC_LEN = 2
  MAX_FILE_LEN = 3
  MaxCopies = 2
  Faults = {}
  CanCrash = FALSE
  RmdirEmptyOnly = FALSE
SPECIFICATION Spec
PROPERTY ChmodKeepsType
