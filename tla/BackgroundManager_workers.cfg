\* Launchers, workers that report once, and readers that clear notifications.
SPECIFICATION FairSpec
CONSTANTS
  t1 = t1
  t2 = t2
  t3 = t3
  t4 = t4
  k1 = k1
  k2 = k2
  s1 = s1
  p1 = p1
  Tasks <- MCFour
  Sessions <- MCSession
  ParentOf <- MCParentOf
  Keys <- MCTwoKeys
  KeyOf <- MCKeyOf
  ProviderOf <- MCProvider
  ModelLimit <- MCOnlyK2Model
  ProviderLimit <- MCProviderTwo
  DefaultLimit = 5
  MaxTotal = 3
  MaxQueue <- MCQueueOfTwo
  Outcomes <- MCFinish
  Calls <- MCReaders
  MaxCalls = 0
  MaxClears = 0
INVARIANTS
  TypeOK
  RunningWithinLimit
  AtCapacityMeansNoPermits
  QueuedHasLauncher
  AnnouncedOnce
PROPERTIES
  AdmittedLaunchReturns
  ImplementsPool
