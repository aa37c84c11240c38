\* Two prover jobs on the POSIX build, one of whose clients leaves.
SPECIFICATION Spec
CONSTANTS
  Conns = {c1, c2}
  None = None
  Requests = {"claim", "standalone"}
  SigPipe = TRUE
  ThreadsShort = FALSE
  MaxRecorded = 1
  MaxCount = 1
SYMMETRY Symmetry
INVARIANTS NoLostJob
