\* Two pools, leases of different lengths and one stable epoch, a control
\* plane whose clock may be ahead, fair timers.
SPECIFICATION FairSpec
CONSTANTS
  p1 = p1  p2 = p2  c1 = c1  c2 = c2
  Unset = Unset  Absent = Absent  NoTable = NoTable  NoGrant = NoGrant  Off = Off
  Pool = {p1, p2}
  Class = {}
  Poller = {w1}
  InitialContent <- PlainInitial
  Content <- OnePlainContent
  Revisions = {1, 3}
  Expiries = {1, 3}
  Epochs = {1}
  Skews = {0, 1}
  MaxTime = 4
  Embedded = FALSE
INVARIANTS TypeOK HeldGrantInForce NoOrphanCapacity LeaseBound ReadyMeansLeased PollerAlive
PROPERTIES LapsedLeaseEnds ImplementsLeasedCapacity
\* After stop() the agent does nothing more.
CHECK_DEADLOCK FALSE
