\* Two servers and every call on the files. Hosts may stop calling, so the system
\* may stop.
CHECK_DEADLOCK FALSE
SPECIFICATION Spec
CONSTANTS
  s1 = s1
  s2 = s2
  g1 = g1
  c1 = c1
  c2 = c2
  a = a
  b = b
  l1 = l1
  l2 = l2
  h1 = h1
  Servers <- MCServers
  Goals <- MCGoals
  Checkpoints <- MCCheckpoints
  Sessions <- MCSessions
  Legacy = Legacy
  Memory = Memory
  Notepad = Notepad
  Values <- MCValues
  Lines <- MCLines
  Headings <- MCHeadings
  Notes <- MCNotes
  Lists <- MCLists
  Unsaid = Unsaid
  NoList = NoList
  Stamp = Stamp
  Placeholder = Placeholder
  Leftover = Leftover
  NoFile = NoFile
  Empty = Empty
  Torn = Torn
  None = None
  Budgets <- MCBudgets
INVARIANTS
  TypeOK
  WholeRecords
  AsIfOneAtATime
  
PROPERTY
  GoalSteps
