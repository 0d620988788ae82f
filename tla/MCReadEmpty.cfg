\* Expected to violate ReadFailsOnlyOnError (README, section 3).
CONSTANTS
  Absent = Absent
  Garbage = Garbage
  NULL = NULL
  UTIME_NOW = UTIME_NOW
  UTIME_OMIT = UTIME_OMIT
  Modes = {420}
  Bytes = {0, 1}
  Offsets = {0, 1, 2, 3}
  Lengths = {1, 2}
  UserTimes = {}
  MaxTime = 0
  MAX_DOC_LEN = 3
  MAX_FILE_LEN = 4
SPECIFICATION Spec
PROPERTY ReadFailsOnlyOnError
