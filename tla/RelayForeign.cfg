\* A wallet that leaves during its request and comes back with another.
SPECIFICATION Spec
CONSTANTS
  MaxRequests = 2
  MaxSessions = 2
  MaxStatus = 1
  BigMessages = FALSE
  SigPipe = TRUE
  None = None
  More = More
INVARIANTS NoForeignFrame
