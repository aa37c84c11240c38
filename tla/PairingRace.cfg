\* Two exports at the same time.
SPECIFICATION Spec
CONSTANTS
  MaxExports = 2
  MaxCrashes = 0
  Main = Main
  NoFile = NoFile
  Empty = Empty
  None = None
INVARIANTS OwnPairing
CHECK_DEADLOCK FALSE
