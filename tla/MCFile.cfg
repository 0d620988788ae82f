\* All the bytes of a short file, and a clock that ticks once.
CONSTANTS
  Absent = Absent
  Garbage = Garbage
  NULL = NULL
  UTIME_NOW = UTIME_NOW
  UTIME_OMIT = UTIME_OMIT
  Modes = {420, 384}
  Bytes = {0, 1}
  Offsets = {0, 1, 2, 3}
  Lengths = {1, 2}
  UserTimes = {9}
  MaxTime = 1
  MAX_DOC_LEN = 3
  MAX_FILE_LEN = 4
SPECIFICATION Spec
INVARIANT TypeOK
INVARIANT StampsAreTimes
PROPERTY ImplementsFileBytes
