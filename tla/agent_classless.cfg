\* As agent_classes, but a smaller grant omits the classes.
SPECIFICATION Spec
CONSTANTS
  p1 = p1  p2 = p2  c1 = c1  c2 = c2
  Unset = Unset  Absent = Absent  NoTable = NoTable  NoGrant = NoGrant  Off = Off
  Pool = {p1}
  Class = {c1, c2}
  Poller = {w1}
  InitialContent <- ClassedInitial
  Content <- ClasslessContent
  Revisions = {1, 3}
  Expiries = {1, 3}
  Epochs = {1, 2}
  Skews = {0, 1}
  MaxTime = 4
  Embedded = FALSE
PROPERTIES ClassesNeverThrow
\* After stop() the agent does nothing more.
CHECK_DEADLOCK FALSE
