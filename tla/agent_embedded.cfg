\* Two polls that overlap: pollNow(), and start() after stop().
SPECIFICATION Spec
CONSTANTS
  p1 = p1  p2 = p2  c1 = c1  c2 = c2
  Unset = Unset  Absent = Absent  NoTable = NoTable  NoGrant = NoGrant  Off = Off
  Pool = {p1, p2}
  Class = {}
  Poller = {w1, w2}
  InitialContent <- PlainInitial
  Content <- OnePlainContent
  Revisions = {1, 3}
  Expiries = {1}
  Epochs = {1}
  Skews = {0}
  MaxTime = 2
  Embedded = TRUE
PROPERTIES RevisionNamesSnapshot
