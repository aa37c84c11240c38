CONSTANTS
  Pids = {p1, p2, p3}
  Checks = {c1, c2}
  None = none
  MaxEvents = 4
SPECIFICATION LiveSpec
INVARIANTS TypeOK PidIsOurs NoServerLost
PROPERTIES DeadServerReplaced MenuSettles
CHECK_DEADLOCK FALSE
