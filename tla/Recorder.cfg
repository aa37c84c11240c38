CONSTANTS
  MaxRecordings = 3
  MaxCrashes = 1
  Versions = {1, 2}
  NFiles = 2
SPECIFICATION LiveSpec
INVARIANTS TypeOK VouchedWhole UnpackedOwn
PROPERTY UnpackingEnds
CHECK_DEADLOCK FALSE
