\* Two requests in two wallet sessions; requests and results of every size;
\* the POSIX build.
SPECIFICATION Spec
CONSTANTS
  MaxRequests = 2
  MaxSessions = 2
  MaxStatus = 1
  BigMessages = TRUE
  SigPipe = TRUE
  None = None
  More = More
INVARIANTS TypeOK NoLeakedConnection
PROPERTIES OnlyLargeDropped Reconnects InboxServed
