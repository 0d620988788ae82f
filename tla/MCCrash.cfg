\* One mount that may die between any two calls and be started again.
\* Mode bits without a file type reach mkdir as well.
CONSTANTS
  root = root
  a = a
  b = b
  ax = ax
  ay = ay
  p1 = p1
  p2 = p2
  Absent = Absent
  m1 = m1
  Mounts = {m1}
  Paths = {root, a, ax}
  Root = root
  dirname <- MCDirname
  LongPaths = {}
  Ops <- MCAllOps
  Perms = {p1}
  DefaultPerm = p1
  MkdirTypes = {"dir", "none"}
  Offsets = {0, 1, 2}
  Lengths = {1}
  MAX_DOC_LEN = 2
  MAX_FILE_LEN = 3
  MaxCopies = 2
  Faults = {}
  CanCrash = TRUE
  RmdirEmptyOnly = FALSE
SPECIFICATION Spec
INVARIANT TypeOK
INVARIANT StatAnchors
INVARIANT NoDuplicateChildren
INVARIANT RestartSucceeds
