\* One wallet; results of more than 10 MB.
SPECIFICATION Spec
CONSTANTS
  MaxRequests = 1
  MaxSessions = 1
  MaxStatus = 1
  BigMessages = TRUE
  SigPipe = TRUE
  None = None
  More = More
PROPERTIES NoDroppedRequest
