\* Three threads call through the breaker forever.
SPECIFICATION FairSpec
CONSTANTS
  c1 = c1
  c2 = c2
  c3 = c3
  Callers <- MCThree
  FailureThreshold = 2
  ResetTimeout = 2
INVARIANTS
  MirrorAgrees
  Trips
PROPERTY
  Recovers
