\* Two starts and a claim of one GitHub issue. The commands end, so the system
\* stops.
CHECK_DEADLOCK FALSE
SPECIFICATION FairSpec
CONSTANTS
  r1 = r1
  r2 = r2
  r3 = r3
  Tracker = "github"
  States <- MCStates
  Runs <- MCThree
  Starters <- MCStarters
  TTL = 3
  FirstId = 10
  IdLess <- MCIdLess
  MaxStall = 1
  MaxTime = 4
  MaxHandoffs = 1
  MaxFailures = 1
INVARIANTS
  TypeOK
  OneHolder
  StartedOnce
  ClosedIsDone
PROPERTY
  SomeRunWins
