SPECIFICATION Spec
CONSTANTS
  Null = Null
  a = a
  b = b
  Class = {a, b}
  Call = {c1, c2, c3}
  Starts <- TheStarts
  Offers <- TheOffers
  Sizes <- TheSizes
  Outputs = {0, 1, 4}
  Limited = {b}
  Margin = 1
  Step = 2
  MaxRevision = 2
  MaxRetained = 1
  MaxEvents = 1
SYMMETRY CallSymmetry
INVARIANTS HoldFitsFuture EvidenceTruthful DrainedIsQuiet SnapshotsUnderstood ScoreIsExact
PROPERTIES UnusedFloorsKept
CHECK_DEADLOCK FALSE
