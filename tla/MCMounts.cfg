\* Two mounts of one bucket, every fault and crashes.
CONSTANTS
  root = root
  a = a
  b = b
  ax = ax
  ay = ay
  p1 = p1
  p2 = p2
  Absent = Absent
  m1 = m1
  m2 = m2
  Mounts = {m1, m2}
  Paths = {root, a}
  Root = root
  dirname <- MCDirname
  LongPaths = {}
  Ops = {"create", "mkdir", "unlink", "rmdir", "write", "truncate", "chmod"}
  Perms = {p1, p2}
  DefaultPerm = p1
  MkdirTypes = {"dir"}
  Offsets = {0}
  Lengths = {1}
  MAX_DOC_LEN = 2
  MAX_FILE_LEN = 3
  MaxCopies = 2
  Faults <- MCAllFaults
  CanCrash = TRUE
  RmdirEmptyOnly = FALSE
SPECIFICATION Spec
PROPERTY NoLostStatUpdate
PROPERTY BootstrapNeverClobbers
SYMMETRY Symmetry
