SPECIFICATION FairSpec
CONSTANTS
  Null = Null
  k1 = k1
  k2 = k2
  a = a
  b = b
  Key = {k1, k2}
  Class = {a, b}
  Request = {r1, r2}
  Tokens <- TheTokens
  Arrivals <- TheArrivals
  Documents <- TheDocuments
  Policies <- ThePolicies
  Algorithms = {"RS256"}
  Secret = "secret"
  CacheTtl = 2
  RequestTimeout = 1
  Skew = 0
  BodyTime = 1
INVARIANTS RevokedKeyLapses PublishedKeyFound HopKeepsDecision
PROPERTIES AuthenticationEnds
CHECK_DEADLOCK FALSE
