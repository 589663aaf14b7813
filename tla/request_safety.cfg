\* Three requests for one slot; one may borrow it.
SPECIFICATION Spec
CONSTANTS
  Request = {r1, r2, r3}
  MaxConcurrent = 1
  MaxQueue = 2
  Borrower = {r1}
  Hooks = FALSE
  Peers = TRUE
  MaxChunks = 1
INVARIANTS TypeOK DisconnectHonoured SettledOnce OneHead ClientsKnow QuietAfterDrain
 
\* Requests come to an end, and so does the server.
CHECK_DEADLOCK FALSE
