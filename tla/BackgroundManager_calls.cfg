\* Every call of the manager, the process dying and a runtime that cannot be
\* built. A launch may wait forever, so the system may stop.
CHECK_DEADLOCK FALSE
SPECIFICATION Spec
CONSTANTS
  t1 = t1
  t2 = t2
  t3 = t3
  t4 = t4
  k1 = k1
  k2 = k2
  s1 = s1
  p1 = p1
  Tasks <- MCTwo
  Sessions <- MCSession
  ParentOf <- MCParentOf
  Keys <- MCOneKey
  KeyOf <- MCKeyOf
  ProviderOf <- MCProvider
  ModelLimit <- MCNoLimits
  ProviderLimit <- MCNoLimits
  DefaultLimit = 1
  MaxTotal = 2
  MaxQueue <- MCNoQueueLimit
  Outcomes <- MCFinish
  Calls <- AllCalls
  MaxCalls = 2
  MaxClears = 1
INVARIANT
  CapacityNeverShrinks
PROPERTY
  RemovedStaysOut
