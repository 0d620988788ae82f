\* A file of at most one byte, a running clock; expected to violate MtimeIsLastChange (README, section 3).
CONSTANTS
  Absent = Absent
  Garbage = Garbage
  NULL = NULL
  UTIME_NOW = UTIME_NOW
  UTIME_OMIT = UTIME_OMIT
  Modes = {420, 384}
  Bytes = {0, 1}
  Offsets = {0, 1}
  Lengths = {1}
  UserTimes = {9}
  MaxTime = 2
  MAX_DOC_LEN = 1
  MAX_FILE_LEN = 2
SPECIFICATION Spec
PROPERTY MtimeIsLastChange
