\* Three exports at any time, two crashes.
SPECIFICATION Spec
CONSTANTS
  MaxExports = 3
  MaxCrashes = 2
  Main = Main
  NoFile = NoFile
  Empty = Empty
  None = None
INVARIANTS TypeOK PairingKept NoLeftover
CHECK_DEADLOCK FALSE
