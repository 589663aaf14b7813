\* Two requests for one slot and an asynchronous hook, with fair timers.
SPECIFICATION FairSpec
CONSTANTS
  Request = {r1, r2}
  MaxConcurrent = 1
  MaxQueue = 1
  Borrower = {r1}
  Hooks = TRUE
  Peers = FALSE
  MaxChunks = 2
PROPERTIES SlotsCirculate
\* Requests come to an end, and so does the server.
CHECK_DEADLOCK FALSE
