\* Two connections, every class of request, the POSIX build.
SPECIFICATION Spec
CONSTANTS
  Conns = {c1, c2}
  None = None
  Requests <- EveryRequest
  SigPipe = TRUE
  ThreadsShort = TRUE
  MaxRecorded = 1
  MaxCount = 2
SYMMETRY Symmetry
INVARIANTS TypeOK LockHeldExactlyInside OneFinalFrame NoSilentClose
PROPERTIES  ImplementsProveJob
