\* Two connections; the POSIX build; a lock-free request, a staged prover job,
\* an HTTP job and a TLS recording.
SPECIFICATION Spec
CONSTANTS
  Conns = {c1, c2}
  None = None
  Requests = {"health", "claim", "decrypt", "zktls"}
  SigPipe = TRUE
  ThreadsShort = TRUE
  MaxRecorded = 1
  MaxCount = 1
PROPERTIES JobsAnswered HealthAnswered
