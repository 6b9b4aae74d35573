\* Two starts of one Linear issue and their handoffs. The commands end, so the
\* system stops.
CHECK_DEADLOCK FALSE
SPECIFICATION Spec
CONSTANTS
  r1 = r1
  r2 = r2
  r3 = r3
  Tracker = "linear"
  States <- MCStates
  Runs <- MCTwo
  Starters <- MCStarters
  TTL = 5
  FirstId = 10
  IdLess <- MCIdLess
  MaxStall = 2
  MaxTime = 8
  MaxHandoffs = 2
  MaxFailures = 1
INVARIANTS
  StartedOnce
  OneHandoffComment
