\* One export after the other.
SPECIFICATION Spec
CONSTANTS
  MaxExports = 2
  MaxCrashes = 0
  Main = Main
  NoFile = NoFile
  Empty = Empty
  None = None
INVARIANTS OneHost
CHECK_DEADLOCK FALSE
