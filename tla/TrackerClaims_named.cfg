\* A run is told that it lost to a lease whose run lost before, after a claim
\* that nobody started. The commands end, so the system stops.
CHECK_DEADLOCK FALSE
SPECIFICATION Spec
CONSTANTS
  r1 = r1
  r2 = r2
  r3 = r3
  Tracker = "github"
  States <- MCStates
  Runs <- MCThree
  Starters <- MCStarters
  TTL = 3
  FirstId = 10
  IdLess <- MCIdLess
  MaxStall = 1
  MaxTime = 4
  MaxHandoffs = 0
  MaxFailures = 0
PROPERTY
  NamedWinnerWon
