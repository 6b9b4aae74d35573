\* A team of two leads, two workers and three agents. Operations run out, so the
\* system may stop.
CHECK_DEADLOCK FALSE
SPECIFICATION FairTeamSpec
CONSTANTS
  l1 = l1
  l2 = l2
  w1 = w1
  w2 = w2
  t1 = t1
  t2 = t2
  t3 = t3
  a1 = a1
  a2 = a2
  a3 = a3
  m1 = m1
  m2 = m2
  x1 = x1
  x2 = x2
  h1 = h1
  h2 = h2
  c1 = c1
  c2 = c2
  Kinds <- MCKinds
  Budgets <- MCBudgets
  Leads = {l1, l2}
  Workers = {w1, w2}
  MaxLines = 1
  NoFile = NoFile
  None = None
  Tasks = {t1, t2}
  PoolWorkers = {w1, w2}
  MaxConcurrent = 1
  AckTimeout = 1
  HeartbeatTimeout = 1
  UnhealthyThreshold = 2
  MaxRestarts = 1
  Off = Off
  Agents = {a1, a2, a3}
  Jobs = {t1, t2, t3}
  MaxFailures = 1
  MaxAttempts = 1
  Nobody = Nobody
  GraphTasks = {t1, t2, t3}
  TaskIds = {t1, t2}
  PromoteAfter = 1
  WeightSets <- MCWeightSets
  Untimed = Untimed
  Hosts = {h1, h2}
  SharedTasks = {t1}
  SharedMessages = {m1, m2}
  OmxWorkers = {x1, x2}
  Absent = Absent
  Blank = Blank
  Mixed = Mixed
  NoJob = NoJob
  Commands = {h1, h2}
  Catalogs = {c1, c2}
  Bundled = Bundled
  Compatible <- MCCompatible
  NoCatalog = NoCatalog
  Torn = Torn
INVARIANTS
  TypeOK
  ParsesUnlessSpoiled
  ReadOrWaiting
  ReceivedInOrder
  KeepsNewest
  SignalTakenOnce
  TaskInOnePlace
  TimersMatch
  ErrorsKeepWorkAway
  TasksSurvive
  GraphRun
  NoneOvertakesAged
  MailboxKeepsAll
  SharedRecordsHold
  CatalogHolds
PROPERTY
  QueueMoves
