---------------------- MODULE BackgroundManager_proofs ----------------------
(***************************************************************************)
(* Proofs about the background manager, for every number of tasks, keys,   *)
(* limits and calls.                                                       *)
(***************************************************************************)
EXTENDS BackgroundManagerProperties, FiniteSetTheorems, TLAPS

\* The limit a key resolves to is a number, whichever table it comes from.
LEMMA LimitIsNat == \A k : ConcurrencyLimit(k) \in Nat
  BY ConfigAssumption DEF ConfigAssumption, ConcurrencyLimit

\* Generation 0 exists, and the next one does after a clear the bound allows.
LEMMA GensFacts ==
  /\ Gens \subseteq Nat
  /\ 0 \in Gens
  /\ \A g \in Gens : g < MaxClears => g + 1 \in Gens
  BY ConfigAssumption DEF ConfigAssumption, Gens

\* release() keeps the counters and the permits numbers.
LEMMA ReleaseType ==
  ASSUME NEW k \in Keys, TypeOK, Release(k)
  PROVE  /\ counts' \in [Keys -> Nat]
         /\ permits' \in [Gens -> [Keys -> Nat]]
  <1>1. CASE Limited(k)
    <2> DEFINE n == IF counts[k] > 0 THEN counts[k] - 1 ELSE 0
    <2>1. /\ counts \in [Keys -> Nat]
          /\ permits \in [Gens -> [Keys -> Nat]]
          /\ gen \in Gens
      BY DEF TypeOK
    <2>2. n \in Nat
      BY <2>1
    <2>3. counts' = [counts EXCEPT ![k] = n]
      BY <1>1 DEF Release
    <2>4. counts' \in [Keys -> Nat]
      <3> HIDE DEF n
      <3>1. QED BY <2>1, <2>2, <2>3
    <2>5. permits[gen][k] + 1 \in Nat
      BY <2>1
    <2>6. permits' \in [Gens -> [Keys -> Nat]]
      BY <1>1, <2>1, <2>5 DEF Release
    <2>7. QED BY <2>4, <2>6
  <1>2. CASE ~ Limited(k)
    BY <1>2 DEF Release, TypeOK
  <1>3. QED BY <1>1, <1>2

-----------------------------------------------------------------------------
(* Type correctness.                                                       *)

\* The manager of a new process is well typed.
LEMMA TypeInit == Init => TypeOK
  <1> SUFFICES ASSUME Init
               PROVE  TypeOK
    OBVIOUS
  <1>1. permits \in [Gens -> [Keys -> Nat]] /\ gen \in Gens
    BY GensFacts DEF Init
  <1>2. arc \in [Tasks -> Gens]
    BY GensFacts DEF Init
  <1>3. calls \in 0 .. MaxCalls
    BY ConfigAssumption DEF ConfigAssumption, Init
  <1>4. QED
    BY <1>1, <1>2, <1>3
    DEF Init, TypeOK, Status, Terminal, LaunchStates, Stages

\* No step of a launching thread leaves the types.
LEMMA TypeLaunch ==
  ASSUME TypeOK, NEW t \in Tasks, LaunchStep(t)
  PROVE  TypeOK'
  <1> KeyOf[t] \in Keys
    BY ConfigAssumption DEF ConfigAssumption
  <1> USE DEF TypeOK, Goto, LaunchStates, Status, Terminal, slots, notes, client
  <1>1. CASE LaunchRefuse(t)      BY <1>1 DEF LaunchRefuse
  <1>2. CASE LaunchAdmit(t)       BY <1>2 DEF LaunchAdmit
  <1>3. CASE LaunchInsert(t)      BY <1>3 DEF LaunchInsert
  <1>4. CASE LaunchPersist(t)     BY <1>4 DEF LaunchPersist
  <1>5. CASE LaunchNoRuntime(t)   BY <1>5 DEF LaunchNoRuntime
  <1>6. CASE LaunchGetSemaphore(t)
    <2>1. PICK n \in Nat : n = ConcurrencyLimit(KeyOf[t])
      BY LimitIsNat
    <2>2. permits' \in [Gens -> [Keys -> Nat]]
      <3>1. \/ permits' = permits
            \/ permits' = [permits EXCEPT ![gen][KeyOf[t]] = n]
        BY <1>6, <2>1 DEF LaunchGetSemaphore
      <3>2. permits \in [Gens -> [Keys -> Nat]] /\ gen \in Gens
        OBVIOUS
      <3>3. QED BY ONLY <3>1, <3>2, n \in Nat, KeyOf[t] \in Keys
    <2>3. arc' \in [Tasks -> Gens] /\ semaphores' \subseteq Keys
      BY <1>6 DEF LaunchGetSemaphore
    <2>4. QED
      BY <1>6, <2>2, <2>3 DEF LaunchGetSemaphore
  <1>7. CASE LaunchTakePermit(t)  BY <1>7 DEF LaunchTakePermit
  <1>8. CASE LaunchCount(t)       BY <1>8 DEF LaunchCount
  <1>9. CASE LaunchRun(t)         BY <1>9 DEF LaunchRun
  <1>10. CASE LaunchReturn(t)     BY <1>10 DEF LaunchReturn
  <1>11. QED
    BY <1>1, <1>2, <1>3, <1>4, <1>5, <1>6, <1>7, <1>8, <1>9, <1>10
    DEF LaunchStep

\* Every call but restart counts against the bound.
LEMMA CalledType ==
  ASSUME TypeOK, NEW c, Called(c)
  PROVE  calls' \in 0 .. MaxCalls
  BY ConfigAssumption DEF ConfigAssumption, TypeOK, Called

\* A new status keeps the types of what it changes, the release included.
LEMMA UpdateType ==
  ASSUME TypeOK, NEW t \in Tasks, NEW s \in Status, UpdateTaskStatus(t, s)
  PROVE  /\ tasks' \in [Tasks -> Status \cup {"absent"}]
         /\ files' \in [Tasks -> Status \cup {"absent"}]
         /\ counts' \in [Keys -> Nat]
         /\ permits' \in [Gens -> [Keys -> Nat]]
         /\ marking' \in [Tasks -> Nat]
  <1> KeyOf[t] \in Keys
    BY ConfigAssumption DEF ConfigAssumption
  <1>1. CASE s \in Terminal
    <2>1. Release(KeyOf[t])
      BY <1>1 DEF UpdateTaskStatus
    <2>2. counts' \in [Keys -> Nat] /\ permits' \in [Gens -> [Keys -> Nat]]
      BY <2>1, ReleaseType
    <2>3. QED
      BY <1>1, <2>2 DEF UpdateTaskStatus, TypeOK
  <1>2. CASE s \notin Terminal
    BY <1>2 DEF UpdateTaskStatus, TypeOK
  <1>3. QED BY <1>1, <1>2

\* No report, progress, resume or notification leaves the types.
LEMMA TypeCalls ==
  ASSUME TypeOK, NEW t \in Tasks
  PROVE  /\ \A s \in Outcomes : Finish(t, s) => TypeOK'
         /\ \A s \in Status : Update(t, s) => TypeOK'
         /\ MarkForNotification(t) => TypeOK'
         /\ UpdateProgress(t) => TypeOK'
         /\ Resume(t) => TypeOK'
         /\ RemoveTask(t) => TypeOK'
         /\ PruneRead(t) => TypeOK'
         /\ \A r \in Reclaimers : ReclaimTask(r, t) => TypeOK'
  <1> KeyOf[t] \in Keys
    BY ConfigAssumption DEF ConfigAssumption
  <1> Outcomes \subseteq Status
    BY ConfigAssumption DEF ConfigAssumption, Status
  <1> USE DEF slots, notes, client, Reclaimers
  <1>1. ASSUME NEW s \in Outcomes, Finish(t, s)
        PROVE  TypeOK'
    BY <1>1, UpdateType DEF Finish, TypeOK
  <1>2. ASSUME NEW s \in Status, Update(t, s)
        PROVE  TypeOK'
    BY <1>2, UpdateType, CalledType DEF Update, TypeOK
  <1>3. ASSUME MarkForNotification(t)
        PROVE  TypeOK'
    BY <1>3 DEF MarkForNotification, TypeOK
  <1>4. ASSUME UpdateProgress(t)
        PROVE  TypeOK'
    BY <1>4 DEF UpdateProgress, TypeOK
  <1>5. ASSUME Resume(t)
        PROVE  TypeOK'
    BY <1>5, CalledType DEF Resume, TypeOK, Status
  <1>6. ASSUME RemoveTask(t)
        PROVE  TypeOK'
    BY <1>6, CalledType DEF RemoveTask, TypeOK, Stages
  <1>7. ASSUME PruneRead(t)
        PROVE  TypeOK'
    BY <1>7 DEF PruneRead, TypeOK, Stages
  <1>8. ASSUME NEW r \in Reclaimers, ReclaimTask(r, t)
        PROVE  TypeOK'
    <2>1. CASE ReclaimRelease(r, t)
      BY <2>1, ReleaseType DEF ReclaimRelease, ReclaimStep, TypeOK, Stages
    <2>2. CASE ReclaimClear(r, t)
      BY <2>2 DEF ReclaimClear, ReclaimStep, TypeOK, Stages
    <2>3. CASE ReclaimUnpersist(r, t)
      BY <2>3 DEF ReclaimUnpersist, ReclaimStep, TypeOK, Stages
    <2>4. CASE ReclaimDrop(r, t)
      BY <2>4 DEF ReclaimDrop, ReclaimStep, TypeOK, Stages
    <2>5. QED BY <1>8, <2>1, <2>2, <2>3, <2>4 DEF ReclaimTask
  <1>9. QED
    BY <1>1, <1>2, <1>3, <1>4, <1>5, <1>6, <1>7, <1>8

\* No step of the manager leaves the types.
LEMMA TypeNext == TypeOK /\ [Next]_vars => TypeOK'
  <1> SUFFICES ASSUME TypeOK, [Next]_vars
               PROVE  TypeOK'
    OBVIOUS
  <1> USE DEF slots, notes, client
  <1>1. ASSUME NEW t \in Tasks, LaunchStep(t)
        PROVE  TypeOK'
    BY <1>1, TypeLaunch
  <1>2. Outcomes \cup {"Queued", "Running"} \subseteq Status
    BY ConfigAssumption DEF ConfigAssumption, Status
  <1>3. ASSUME NEW s \in Sessions, ClearNotifications(s)
        PROVE  TypeOK'
    BY <1>3 DEF ClearNotifications, TypeOK
  <1>4. ASSUME NEW S \in SUBSET Tasks, PruneSelect(S)
        PROVE  TypeOK'
    BY <1>4, CalledType DEF PruneSelect, TypeOK, Stages
  <1>5. ASSUME NEW S \in SUBSET Tasks, PruneExpire(S)
        PROVE  TypeOK'
    BY <1>5 DEF PruneExpire, TypeOK
  <1>6. ASSUME CleanupStep
        PROVE  TypeOK'
    <2>1. CASE CleanupTasks
      BY <2>1, CalledType DEF CleanupTasks, TypeOK
    <2>2. CASE CleanupNotifications
      BY <2>2 DEF CleanupNotifications, TypeOK
    <2>3. CASE CleanupCounts
      BY <2>3 DEF CleanupCounts, TypeOK
    <2>4. CASE CleanupSemaphores
      BY <2>4, GensFacts DEF CleanupSemaphores, TypeOK
    <2>5. QED BY <1>6, <2>1, <2>2, <2>3, <2>4 DEF CleanupStep
  <1>7. ASSUME NEW torn \in SUBSET Tasks, Restart(torn)
        PROVE  TypeOK'
    <2>1. permits' \in [Gens -> [Keys -> Nat]] /\ gen' \in Gens
      BY <1>7, GensFacts DEF Restart
    <2>2. arc' \in [Tasks -> Gens]
      BY <1>7, GensFacts DEF Restart
    <2>3. restarts' \in Nat
      BY <1>7 DEF Restart, TypeOK
    <2>4. files' \in [Tasks -> Status \cup {"absent"}]
      BY <1>7 DEF Restart, TypeOK
    <2>5. launch' \in [Tasks -> LaunchStates]
      BY <1>7 DEF Restart, TypeOK, LaunchStates
    <2>6. calls' \in 0 .. MaxCalls
      BY <1>7, CalledType DEF Restart
    <2>7. QED
      BY <1>7, <2>1, <2>2, <2>3, <2>4, <2>5, <2>6 DEF Restart, TypeOK, Stages
  <1>8. CASE Quiescent
    BY <1>8 DEF Quiescent, TypeOK, vars
  <1>9. CASE UNCHANGED vars
    BY <1>9 DEF TypeOK, vars
  <1>10. QED
    BY <1>1, <1>2, <1>3, <1>4, <1>5, <1>6, <1>7, <1>8, <1>9, TypeCalls DEF Next

\* Every variable keeps its type, whatever is called in whatever order.
THEOREM TypeCorrect == Spec => []TypeOK
  <1>1. QED BY TypeInit, TypeNext, PTL DEF Spec
-----------------------------------------------------------------------------
(* Capacity: what a semaphore has, what is on its way to active_counts and *)
(* what active_counts has add up to the limit at least.                    *)

Capacity(k) == permits[gen][k] + counts[k] + Cardinality(Uncounted(k))

Kept(k) ==
  (k \in semaphores /\ Limited(k) /\ cleaner # "semaphores")
    => Capacity(k) >= ConcurrencyLimit(k)

\* The threads with a permit that are not counted yet can be counted.
LEMMA UncountedFinite ==
  ASSUME NEW k
  PROVE  IsFiniteSet(Uncounted(k)) /\ Cardinality(Uncounted(k)) \in Nat
  <1>1. IsFiniteSet(Uncounted(k))
    BY FS_Subset, ConfigAssumption DEF ConfigAssumption, Uncounted
  <1>2. QED BY <1>1, FS_CardinalityType

\* A thread that neither takes a permit nor counts one moves nothing.
LEMMA UncountedSame ==
  ASSUME TypeOK, NEW k, NEW t \in Tasks, NEW l, Goto(t, l),
         launch[t] # "permitted", l # "permitted"
  PROVE  Uncounted(k)' = Uncounted(k)
  BY DEF TypeOK, Uncounted, Goto

\* The thread that takes a permit becomes uncounted.
LEMMA UncountedMore ==
  ASSUME TypeOK, NEW t \in Tasks, launch[t] = "waiting", Goto(t, "permitted"),
         NEW k
  PROVE  Cardinality(Uncounted(k))' =
           IF k = KeyOf[t] THEN Cardinality(Uncounted(k)) + 1
                           ELSE Cardinality(Uncounted(k))
  <1>1. CASE k = KeyOf[t]
    <2>1. Uncounted(k)' = Uncounted(k) \cup {t} /\ t \notin Uncounted(k)
      BY <1>1 DEF TypeOK, Uncounted, Goto
    <2>2. Cardinality(Uncounted(k) \cup {t}) = Cardinality(Uncounted(k)) + 1
      BY <2>1, UncountedFinite, FS_AddElement
    <2>3. QED BY <1>1, <2>1, <2>2
  <1>2. CASE k # KeyOf[t]
    <2>1. Uncounted(k)' = Uncounted(k)
      BY <1>2 DEF TypeOK, Uncounted, Goto
    <2>2. QED BY <1>2, <2>1
  <1>3. QED BY <1>1, <1>2

\* The thread that adds itself to active_counts is uncounted no longer.
LEMMA UncountedFewer ==
  ASSUME TypeOK, NEW t \in Tasks, launch[t] = "permitted", Goto(t, "acquired"),
         NEW k
  PROVE  Cardinality(Uncounted(k))' =
           IF k = KeyOf[t] THEN Cardinality(Uncounted(k)) - 1
                           ELSE Cardinality(Uncounted(k))
  <1>1. CASE k = KeyOf[t]
    <2>1. Uncounted(k)' = Uncounted(k) \ {t} /\ t \in Uncounted(k)
      BY <1>1 DEF TypeOK, Uncounted, Goto
    <2>2. Cardinality(Uncounted(k) \ {t}) = Cardinality(Uncounted(k)) - 1
      BY <2>1, UncountedFinite, FS_RemoveElement
    <2>3. QED BY <1>1, <2>1, <2>2
  <1>2. CASE k # KeyOf[t]
    <2>1. Uncounted(k)' = Uncounted(k)
      BY <1>2 DEF TypeOK, Uncounted, Goto
    <2>2. QED BY <1>2, <2>1
  <1>3. QED BY <1>1, <1>2

\* What touches none of the three places of a unit of capacity keeps it.
LEMMA KeptSame ==
  ASSUME NEW k, Kept(k), Uncounted(k)' = Uncounted(k),
         UNCHANGED <<semaphores, permits, gen, counts, cleaner>>
  PROVE  Kept(k)'
  BY DEF Kept, Capacity, Limited, ConcurrencyLimit

\* release() moves one from active_counts to the semaphore, or adds one.
LEMMA KeptRelease ==
  ASSUME TypeOK, NEW k \in Keys, Kept(k), NEW j \in Keys, Release(j),
         UNCHANGED <<launch, semaphores, gen, cleaner>>
  PROVE  Kept(k)'
  <1>1. Uncounted(k)' = Uncounted(k)
    BY DEF Uncounted
  <1>2. CASE Limited(j) /\ j = k /\ k \in semaphores
    <2> DEFINE c == counts[k]
               p == permits[gen][k]
    <2>1. c \in Nat /\ p \in Nat
      BY DEF TypeOK
    <2>2. counts'[k] = (IF c > 0 THEN c - 1 ELSE 0)
      BY <1>2 DEF Release, TypeOK
    <2>3. permits'[gen][k] = p + 1
      BY <1>2 DEF Release, TypeOK
    <2>4. permits'[gen][k] + counts'[k] >= p + c
      BY <2>1, <2>2, <2>3
    <2>5. permits'[gen'][k] \in Nat /\ counts'[k] \in Nat
      BY <2>1, <2>2, <2>3
    <2>6. Capacity(k)' >= Capacity(k)
      BY <1>1, <2>1, <2>4, <2>5, UncountedFinite DEF Capacity
    <2>7. Capacity(k) \in Nat /\ Capacity(k)' \in Nat
      BY <1>1, <2>1, <2>5, UncountedFinite DEF Capacity
    <2>8. QED
      BY <2>6, <2>7, LimitIsNat DEF Kept, Limited, ConcurrencyLimit
  <1>3. CASE ~ (Limited(j) /\ j = k) /\ k \in semaphores
    <2>1. counts'[k] = counts[k] /\ permits'[gen][k] = permits[gen][k]
      BY <1>3 DEF Release, TypeOK
    <2>2. QED
      BY <1>1, <2>1 DEF Kept, Capacity, Limited, ConcurrencyLimit
  <1>4. CASE k \notin semaphores
    BY <1>4 DEF Kept
  <1>5. QED BY <1>2, <1>3, <1>4

\* A launching thread moves a unit of its agent on, and loses none.
LEMMA KeptLaunch ==
  ASSUME TypeOK, NEW k \in Keys, Kept(k), NEW t \in Tasks, LaunchStep(t)
  PROVE  Kept(k)'
  <1> KeyOf[t] \in Keys
    BY ConfigAssumption DEF ConfigAssumption
  <1> USE DEF slots, notes, client
  <1>1. CASE LaunchRefuse(t)
    BY <1>1, UncountedSame, KeptSame DEF LaunchRefuse
  <1>2. CASE LaunchAdmit(t)
    BY <1>2, UncountedSame, KeptSame DEF LaunchAdmit
  <1>3. CASE LaunchInsert(t)
    BY <1>3, UncountedSame, KeptSame DEF LaunchInsert
  <1>4. CASE LaunchPersist(t)
    BY <1>4, UncountedSame, KeptSame DEF LaunchPersist
  <1>5. CASE LaunchNoRuntime(t)
    BY <1>5, UncountedSame, KeptSame DEF LaunchNoRuntime
  <1>6. CASE LaunchGetSemaphore(t)
    <2>1. Uncounted(k)' = Uncounted(k)
      BY <1>6, UncountedSame DEF LaunchGetSemaphore
    <2>2. CASE Limited(KeyOf[t]) /\ KeyOf[t] = k /\ k \notin semaphores
      <3>1. PICK n \in Nat : n = ConcurrencyLimit(k)
        BY LimitIsNat
      <3>2. permits' = [permits EXCEPT ![gen][k] = n] /\ gen' = gen
        BY <1>6, <2>2, <3>1 DEF LaunchGetSemaphore
      <3>3. permits'[gen'][k] = n
        BY <3>2 DEF TypeOK
      <3>4. counts'[k] \in Nat
        BY <1>6 DEF LaunchGetSemaphore, TypeOK
      <3>5. Capacity(k)' >= n
        BY <2>1, <3>3, <3>4, UncountedFinite DEF Capacity
      <3>6. QED BY <3>1, <3>5 DEF Kept, Limited, ConcurrencyLimit
    <2>3. CASE ~ (Limited(KeyOf[t]) /\ KeyOf[t] = k /\ k \notin semaphores)
      <3>1. /\ permits'[gen'][k] = permits[gen][k]
            /\ k \in semaphores' <=> k \in semaphores
            /\ counts' = counts /\ cleaner' = cleaner
        BY <1>6, <2>3 DEF LaunchGetSemaphore, TypeOK
      <3>2. QED
        BY <2>1, <3>1 DEF Kept, Capacity, Limited, ConcurrencyLimit
    <2>4. QED BY <2>2, <2>3
  <1>7. CASE LaunchTakePermit(t)
    <2> DEFINE p == permits[gen][k]
               c == counts[k]
               u == Cardinality(Uncounted(k))
    <2>1. p \in Nat /\ c \in Nat /\ u \in Nat
      BY UncountedFinite DEF TypeOK
    <2>2. counts'[k] = c /\ gen' = gen /\ cleaner' = cleaner
          /\ semaphores' = semaphores
      BY <1>7 DEF LaunchTakePermit
    <2>3. Cardinality(Uncounted(k))' = IF k = KeyOf[t] THEN u + 1 ELSE u
      BY <1>7, UncountedMore DEF LaunchTakePermit
    <2>4. permits'[gen][k] =
            IF k = KeyOf[t] /\ arc[t] = gen THEN p - 1 ELSE p
      BY <1>7 DEF LaunchTakePermit, TypeOK
    <2>5. Capacity(k)' >= Capacity(k)
      BY <2>1, <2>2, <2>3, <2>4 DEF Capacity
    <2>6. Capacity(k) \in Int /\ Capacity(k)' \in Int
      BY <2>1, <2>2, <2>3, <2>4 DEF Capacity
    <2>7. QED
      BY <2>2, <2>5, <2>6, LimitIsNat DEF Kept, Limited, ConcurrencyLimit
  <1>8. CASE LaunchCount(t)
    <2> DEFINE p == permits[gen][k]
               c == counts[k]
               u == Cardinality(Uncounted(k))
    <2>1. p \in Nat /\ c \in Nat /\ u \in Nat
      BY UncountedFinite DEF TypeOK
    <2>2. /\ permits' = permits /\ gen' = gen /\ cleaner' = cleaner
          /\ semaphores' = semaphores
      BY <1>8 DEF LaunchCount
    <2>3. Cardinality(Uncounted(k))' = IF k = KeyOf[t] THEN u - 1 ELSE u
      BY <1>8, UncountedFewer DEF LaunchCount
    <2>4. counts'[k] = IF k = KeyOf[t] THEN c + 1 ELSE c
      BY <1>8 DEF LaunchCount, TypeOK
    <2>5. Capacity(k)' = Capacity(k)
      BY <2>1, <2>2, <2>3, <2>4 DEF Capacity
    <2>6. QED
      BY <2>2, <2>5 DEF Kept, Limited, ConcurrencyLimit
  <1>9. CASE LaunchRun(t)
    BY <1>9, UncountedSame, KeptSame DEF LaunchRun
  <1>10. CASE LaunchReturn(t)
    BY <1>10, UncountedSame, KeptSame DEF LaunchReturn
  <1>11. QED
    BY <1>1, <1>2, <1>3, <1>4, <1>5, <1>6, <1>7, <1>8, <1>9, <1>10
    DEF LaunchStep

\* The status updates and the removals change capacity by release() alone.
LEMMA KeptCalls ==
  ASSUME TypeOK, NEW k \in Keys, Kept(k), NEW t \in Tasks
  PROVE  /\ \A s : Finish(t, s) => Kept(k)'
         /\ \A s : Update(t, s) => Kept(k)'
         /\ \A r : ReclaimTask(r, t) => Kept(k)'
         /\ (\/ MarkForNotification(t) \/ UpdateProgress(t) \/ Resume(t)
             \/ RemoveTask(t) \/ PruneRead(t)) => Kept(k)'
  <1> KeyOf[t] \in Keys
    BY ConfigAssumption DEF ConfigAssumption
  <1> USE DEF slots, notes, client
  <1>1. ASSUME launch' = launch
        PROVE  Uncounted(k)' = Uncounted(k)
    BY <1>1 DEF Uncounted
  <1>2. ASSUME NEW s, UpdateTaskStatus(t, s),
               UNCHANGED <<launch, semaphores, gen, cleaner>>
        PROVE  Kept(k)'
    <2>1. CASE Release(KeyOf[t])
      BY <1>2, <2>1, KeptRelease
    <2>2. CASE UNCHANGED <<counts, permits>>
      BY <1>1, <1>2, <2>2, KeptSame
    <2>3. QED BY <1>2, <2>1, <2>2 DEF UpdateTaskStatus
  <1>3. ASSUME NEW s, Finish(t, s)
        PROVE  Kept(k)'
    BY <1>2, <1>3 DEF Finish
  <1>4. ASSUME NEW s, Update(t, s)
        PROVE  Kept(k)'
    BY <1>2, <1>4 DEF Update
  <1>5. ASSUME NEW r, ReclaimTask(r, t)
        PROVE  Kept(k)'
    <2>1. CASE ReclaimRelease(r, t)
      BY <2>1, KeptRelease DEF ReclaimRelease, ReclaimStep
    <2>2. CASE ReclaimClear(r, t) \/ ReclaimUnpersist(r, t) \/ ReclaimDrop(r, t)
      BY <1>1, <2>2, KeptSame
      DEF ReclaimClear, ReclaimUnpersist, ReclaimDrop, ReclaimStep
    <2>3. QED BY <1>5, <2>1, <2>2 DEF ReclaimTask
  <1>6. ASSUME \/ MarkForNotification(t) \/ UpdateProgress(t) \/ Resume(t)
               \/ RemoveTask(t) \/ PruneRead(t)
        PROVE  Kept(k)'
    BY <1>1, <1>6, KeptSame
    DEF MarkForNotification, UpdateProgress, Resume, RemoveTask, PruneRead
  <1>7. QED BY <1>3, <1>4, <1>5, <1>6

\* Between the two clears of cleanup nothing is claimed, and after the second
\* or a restart there is no semaphore to claim it about.
LEMMA KeptNext ==
  ASSUME TypeOK, NEW k \in Keys, Kept(k), [Next]_vars
  PROVE  Kept(k)'
  <1> USE DEF slots, notes, client
  <1>1. ASSUME launch' = launch
        PROVE  Uncounted(k)' = Uncounted(k)
    BY <1>1 DEF Uncounted
  <1>2. ASSUME NEW s, ClearNotifications(s)
        PROVE  Kept(k)'
    BY <1>1, <1>2, KeptSame DEF ClearNotifications
  <1>3. ASSUME NEW S, PruneSelect(S) \/ PruneExpire(S)
        PROVE  Kept(k)'
    BY <1>1, <1>3, KeptSame DEF PruneSelect, PruneExpire
  <1>4. CASE CleanupStep
    <2>1. CASE CleanupTasks \/ CleanupNotifications
      BY <1>1, <2>1 DEF CleanupTasks, CleanupNotifications,
                        Kept, Capacity, Limited, ConcurrencyLimit
    <2>2. CASE CleanupCounts \/ CleanupSemaphores
      BY <2>2 DEF CleanupCounts, CleanupSemaphores, Kept
    <2>3. QED BY <1>4, <2>1, <2>2 DEF CleanupStep
  <1>5. ASSUME NEW torn, Restart(torn)
        PROVE  Kept(k)'
    BY <1>5 DEF Restart, Kept
  <1>6. CASE UNCHANGED vars
    BY <1>1, <1>6, KeptSame DEF vars
  <1>7. CASE Next
    <2>1. CASE \E t \in Tasks : LaunchStep(t)
      BY <2>1, KeptLaunch
    <2>2. CASE \/ \E t \in Tasks, s \in Outcomes : Finish(t, s)
               \/ \E t \in Tasks, s \in Outcomes \cup {"Queued", "Running"} :
                    Update(t, s)
               \/ \E r \in Reclaimers, t \in Tasks : ReclaimTask(r, t)
      BY <2>2, KeptCalls
    <2>3. CASE \E t \in Tasks :
                 \/ MarkForNotification(t) \/ UpdateProgress(t) \/ Resume(t)
                 \/ RemoveTask(t) \/ PruneRead(t)
      BY <2>3, KeptCalls
    <2>4. QED
      BY <1>2, <1>3, <1>4, <1>5, <1>6, <1>7, <2>1, <2>2, <2>3
      DEF Next, Quiescent
  <1>8. QED BY <1>6, <1>7

\* No call, however it interleaves with the others, makes capacity disappear
\* between the semaphore and active_counts.
THEOREM CapacityKept == Spec => []CapacityNeverShrinks
  <1> DEFINE Inv == \A k \in Keys : Kept(k)
  <1>1. Init => Inv
    BY DEF Init, Kept
  <1>2. TypeOK /\ Inv /\ [Next]_vars => Inv'
    BY KeptNext
  <1>3. TypeOK /\ Inv => CapacityNeverShrinks
    BY DEF Kept, Capacity, CapacityNeverShrinks, TypeOK
  <1> HIDE DEF Inv
  <1>4. QED BY <1>1, <1>2, <1>3, TypeCorrect, PTL DEF Spec

\* Only a launcher that was admitted puts a task into the map, and only a new
\* process puts back one that left it.
THEOREM NeverPutBack == Spec => RemovedStaysOut
  <1>1. ASSUME TypeOK, [Next]_vars, NEW t \in Tasks
        PROVE  StaysOut(t)
    <2> USE <1>1 DEF slots, notes, client, StaysOut
    <2>1. ASSUME NEW u \in Tasks, LaunchStep(u)
          PROVE  StaysOut(t)
      BY <2>1 DEF LaunchStep, TypeOK, LaunchRefuse, LaunchAdmit, LaunchInsert,
                  LaunchPersist, LaunchNoRuntime, LaunchGetSemaphore,
                  LaunchTakePermit, LaunchCount, LaunchRun, LaunchReturn
    <2>2. ASSUME NEW u \in Tasks, NEW s, Finish(u, s) \/ Update(u, s)
          PROVE  StaysOut(t)
      BY <2>2 DEF Finish, Update, UpdateTaskStatus, TypeOK
    <2>3. ASSUME NEW u \in Tasks, NEW r, ReclaimTask(r, u)
          PROVE  StaysOut(t)
      BY <2>3 DEF ReclaimTask, ReclaimRelease, ReclaimClear, ReclaimUnpersist,
                  ReclaimDrop, TypeOK
    <2>4. ASSUME NEW u \in Tasks,
                 \/ MarkForNotification(u) \/ UpdateProgress(u) \/ Resume(u)
                 \/ RemoveTask(u) \/ PruneRead(u)
          PROVE  StaysOut(t)
      BY <2>4 DEF MarkForNotification, UpdateProgress, Resume, RemoveTask,
                  PruneRead, TypeOK
    <2>5. ASSUME NEW s,
                 ClearNotifications(s) \/ PruneSelect(s) \/ PruneExpire(s)
          PROVE  StaysOut(t)
      BY <2>5 DEF ClearNotifications, PruneSelect, PruneExpire
    <2>6. CASE CleanupStep
      BY <2>6 DEF CleanupStep, CleanupTasks, CleanupNotifications,
                  CleanupCounts, CleanupSemaphores
    <2>7. ASSUME NEW torn, Restart(torn)
          PROVE  StaysOut(t)
      BY <2>7 DEF Restart, TypeOK
    <2>8. CASE UNCHANGED vars
      BY <2>8 DEF vars
    <2>9. QED
      BY <2>1, <2>2, <2>3, <2>4, <2>5, <2>6, <2>7, <2>8 DEF Next, Quiescent
  <1>2. TypeOK /\ [Next]_vars => [\A t \in Tasks : StaysOut(t)]_vars
    BY <1>1 DEF StaysOut
  <1>3. QED BY <1>2, TypeCorrect, PTL DEF Spec, RemovedStaysOut

-----------------------------------------------------------------------------
(* Launchers, workers and readers only.                                    *)

WorkersNext ==
  \/ \E t \in Tasks : LaunchStep(t) /\ ~ LaunchNoRuntime(t)
  \/ \E t \in Tasks, s \in Outcomes : Finish(t, s)
  \/ \E t \in Tasks : MarkForNotification(t)
  \/ \E t \in Tasks : UpdateProgress(t)
  \/ \E s \in Sessions : ClearNotifications(s)
  \/ UNCHANGED vars

\* The other actions are calls nobody makes, or continue one nobody made.
LEMMA NoOtherCalls ==
  ASSUME WorkersOnly, Undisturbed, [Next]_vars
  PROVE  WorkersNext
  <1>1. \A c \in AllCalls \ {"progress", "clear"} : ~ Called(c) /\ c \notin Calls
    BY DEF WorkersOnly, Called
  <1>2. \A t \in Tasks : \A s : ~ Update(t, s) /\ ~ Resume(t) /\ ~ RemoveTask(t)
    BY <1>1 DEF AllCalls, Update, Resume, RemoveTask
  <1>3. \A t \in Tasks : ~ PruneRead(t) /\ ~ LaunchNoRuntime(t)
    BY <1>1 DEF AllCalls, PruneRead, LaunchNoRuntime, Undisturbed, Reclaimers
  <1>4. \A S : ~ PruneSelect(S) /\ ~ PruneExpire(S) /\ ~ Restart(S)
    BY <1>1 DEF AllCalls, PruneSelect, PruneExpire, Restart, Undisturbed
  <1>5. \A r \in Reclaimers, t \in Tasks : ~ ReclaimTask(r, t)
    BY DEF ReclaimTask, ReclaimRelease, ReclaimClear, ReclaimUnpersist,
           ReclaimDrop, ReclaimStep, Undisturbed
  <1>6. ~ CleanupStep
    BY <1>1 DEF AllCalls, CleanupStep, CleanupTasks, CleanupNotifications,
                CleanupCounts, CleanupSemaphores, Undisturbed
  <1>7. QED
    BY <1>2, <1>3, <1>4, <1>5, <1>6 DEF Next, WorkersNext, Quiescent

\* Workers and readers start no removal, prune or cleanup.
LEMMA UndisturbedNext ==
  ASSUME TypeOK, Undisturbed, WorkersNext
  PROVE  Undisturbed'
  <1> USE DEF slots, notes, client
  <1>1. ASSUME NEW t \in Tasks, LaunchStep(t), ~ LaunchNoRuntime(t)
        PROVE  Undisturbed'
    BY <1>1 DEF LaunchStep, TypeOK, Undisturbed, LaunchRefuse, LaunchAdmit,
                LaunchInsert, LaunchPersist, LaunchGetSemaphore,
                LaunchTakePermit, LaunchCount, LaunchRun, LaunchReturn
  <1>2. CASE WorkersNext /\ ~ (\E t \in Tasks :
                                 LaunchStep(t) /\ ~ LaunchNoRuntime(t))
    BY <1>2 DEF WorkersNext, Undisturbed, Finish, MarkForNotification,
                UpdateProgress, ClearNotifications, vars
  <1>3. QED BY <1>1, <1>2

\* Where the launcher is decides the status; a report decides the rest.
LEMMA PlacedNext ==
  ASSUME TypeOK, Undisturbed, WorkersNext, NEW u \in Tasks,
         Placed(u), Announced(u)
  PROVE  Placed(u)' /\ Announced(u)'
  <1> USE DEF slots, notes, client, Goto, HasNoId, Enqueued, Terminal
  <1>1. ASSUME NEW t \in Tasks, LaunchStep(t), ~ LaunchNoRuntime(t)
        PROVE  Placed(u)' /\ Announced(u)'
    <2>1. CASE LaunchRefuse(t) \/ LaunchAdmit(t)
      BY <2>1 DEF LaunchRefuse, LaunchAdmit, TypeOK, Placed, Announced
    <2>2. CASE LaunchInsert(t)
      BY <2>2 DEF LaunchInsert, TypeOK, Placed, Announced
    <2>3. CASE LaunchPersist(t)
      BY <2>3 DEF LaunchPersist, TypeOK, Placed, Announced
    <2>4. CASE LaunchGetSemaphore(t)
      BY <2>4 DEF LaunchGetSemaphore, TypeOK, Placed, Announced
    <2>5. CASE LaunchTakePermit(t) \/ LaunchCount(t)
      BY <2>5 DEF LaunchTakePermit, LaunchCount, TypeOK, Placed, Announced
    <2>6. CASE LaunchRun(t) \/ LaunchReturn(t)
      BY <2>6 DEF LaunchRun, LaunchReturn, TypeOK, Placed, Announced
    <2>7. QED
      BY <1>1, <2>1, <2>2, <2>3, <2>4, <2>5, <2>6 DEF LaunchStep
  <1>2. ASSUME NEW t \in Tasks, NEW s \in Outcomes, Finish(t, s)
        PROVE  Placed(u)' /\ Announced(u)'
    <2>1. s \in Terminal
      BY ConfigAssumption DEF ConfigAssumption
    <2>2. /\ launch[t] = "returned" /\ tasks[t] = "Running"
          /\ tasks' = [tasks EXCEPT ![t] = s]
          /\ marking' = [marking EXCEPT ![t] = @ + 1]
          /\ UNCHANGED <<launch, semaphores, notifications, cleared>>
      BY <1>2, <2>1 DEF Finish, UpdateTaskStatus
    <2>3. Placed(u)'
      BY <2>1, <2>2 DEF TypeOK, Placed
    <2>4. Announced(u)'
      <3>1. /\ marking[u] \in Nat /\ notifications[u] \in Nat
            /\ cleared[u] \in Nat
        BY DEF TypeOK
      <3>2. CASE u = t
        <4>1. tasks'[u] = s /\ marking'[u] = marking[u] + 1 /\ tasks[u] = "Running"
          BY <2>2, <3>2 DEF TypeOK
        <4>2. QED BY <2>1, <2>2, <3>1, <4>1 DEF Announced
      <3>3. CASE u # t
        <4>1. tasks'[u] = tasks[u] /\ marking'[u] = marking[u]
          BY <2>2, <3>3 DEF TypeOK
        <4>2. QED BY <2>2, <4>1 DEF Announced
      <3>4. QED BY <3>2, <3>3
    <2>5. QED BY <2>3, <2>4
  <1>3. ASSUME NEW t \in Tasks, MarkForNotification(t)
        PROVE  Placed(u)' /\ Announced(u)'
    BY <1>3 DEF MarkForNotification, TypeOK, Placed, Announced
  <1>4. ASSUME NEW t \in Tasks, UpdateProgress(t)
        PROVE  Placed(u)' /\ Announced(u)'
    BY <1>4 DEF UpdateProgress, Placed, Announced
  <1>5. ASSUME NEW s \in Sessions, ClearNotifications(s)
        PROVE  Placed(u)' /\ Announced(u)'
    BY <1>5 DEF ClearNotifications, TypeOK, Placed, Announced
  <1>6. CASE UNCHANGED vars
    BY <1>6 DEF vars, Placed, Announced
  <1>7. QED BY <1>1, <1>2, <1>3, <1>4, <1>5, <1>6 DEF WorkersNext

\* The tasks that hold a permit can be counted.
LEMMA HoldersFinite ==
  ASSUME NEW k
  PROVE  IsFiniteSet(Holders(k)) /\ Cardinality(Holders(k)) \in Nat
  <1>1. IsFiniteSet(Holders(k))
    BY FS_Subset, ConfigAssumption DEF ConfigAssumption, Holders
  <1>2. QED BY <1>1, FS_CardinalityType

\* A step that changes nobody's hold and moves no permit keeps the balance.
LEMMA BalancedSame ==
  ASSUME NEW k, Balanced(k), Holders(k)' = Holders(k),
         Uncounted(k)' = Uncounted(k), counts'[k] = counts[k],
         permits'[0][k] = permits[0][k], semaphores' = semaphores
  PROVE  Balanced(k)'
  BY DEF Balanced, ConcurrencyLimit

\* A launching thread keeps permits, holders and the count in balance.
LEMMA BalancedLaunch ==
  ASSUME TypeOK, Undisturbed, \A u \in Tasks : Placed(u),
         NEW k \in Keys, Limited(k), Balanced(k),
         NEW t \in Tasks, LaunchStep(t), ~ LaunchNoRuntime(t)
  PROVE  Balanced(k)'
  <1> KeyOf[t] \in Keys
    BY ConfigAssumption DEF ConfigAssumption
  <1> arc[t] = 0 /\ gen = 0 /\ 0 \in Gens
    BY GensFacts DEF Undisturbed
  <1> Placed(t)
    OBVIOUS
  <1> USE DEF slots, notes, client, HasNoId, Enqueued, Terminal
  <1>1. CASE LaunchRefuse(t) \/ LaunchAdmit(t) \/ LaunchPersist(t)
    <2>1. Uncounted(k)' = Uncounted(k)
      BY <1>1, UncountedSame DEF LaunchRefuse, LaunchAdmit, LaunchPersist
    <2>2. Holders(k)' = Holders(k)
      BY <1>1 DEF LaunchRefuse, LaunchAdmit, LaunchPersist, Goto,
                  TypeOK, Holders, Holds
    <2>3. QED
      BY <1>1, <2>1, <2>2, BalancedSame
      DEF LaunchRefuse, LaunchAdmit, LaunchPersist
  <1>2. CASE LaunchInsert(t) \/ LaunchRun(t) \/ LaunchReturn(t)
    <2>1. Uncounted(k)' = Uncounted(k)
      BY <1>2, UncountedSame DEF LaunchInsert, LaunchRun, LaunchReturn
    <2>2. Holders(k)' = Holders(k)
      BY <1>2 DEF LaunchInsert, LaunchRun, LaunchReturn, Goto, TypeOK,
                  Holders, Holds, Placed
    <2>3. QED
      BY <1>2, <2>1, <2>2, BalancedSame
      DEF LaunchInsert, LaunchRun, LaunchReturn
  <1>3. CASE LaunchGetSemaphore(t)
    <2>1. Uncounted(k)' = Uncounted(k)
      BY <1>3, UncountedSame DEF LaunchGetSemaphore
    <2>2. Holders(k)' = Holders(k)
      BY <1>3 DEF LaunchGetSemaphore, Goto, TypeOK, Holders, Holds
    <2>3. CASE KeyOf[t] = k /\ k \notin semaphores
      <3>1. PICK n \in Nat : n = ConcurrencyLimit(k)
        BY LimitIsNat
      <3>2. permits' = [permits EXCEPT ![0][k] = n] /\ counts' = counts
        BY <1>3, <2>3, <3>1 DEF LaunchGetSemaphore
      <3>3. permits'[0][k] = n
        BY <3>2 DEF TypeOK
      <3>4. Holders(k) = {} /\ Uncounted(k) = {} /\ counts[k] = 0
        BY <2>3 DEF Balanced, Holders, Uncounted, Holds
      <3>5. Cardinality(Holders(k)') = 0 /\ Cardinality(Uncounted(k)') = 0
        BY <2>1, <2>2, <3>4, FS_EmptySet
      <3>6. n' = n /\ ConcurrencyLimit(k)' = n
        BY <3>1 DEF ConcurrencyLimit
      <3>7. k \in semaphores'
        BY <1>3, <2>3 DEF LaunchGetSemaphore
      <3>8. QED
        BY <3>2, <3>3, <3>4, <3>5, <3>6, <3>7 DEF Balanced
    <2>4. CASE ~ (KeyOf[t] = k /\ k \notin semaphores)
      <3>1. /\ permits'[0][k] = permits[0][k]
            /\ k \in semaphores' <=> k \in semaphores
            /\ counts' = counts
        BY <1>3, <2>4 DEF LaunchGetSemaphore, TypeOK
      <3>2. QED
        BY <2>1, <2>2, <3>1 DEF Balanced, ConcurrencyLimit
    <2>5. QED BY <2>3, <2>4
  <1>4. CASE LaunchTakePermit(t)
    <2>1. Cardinality(Uncounted(k))' =
            IF k = KeyOf[t] THEN Cardinality(Uncounted(k)) + 1
                            ELSE Cardinality(Uncounted(k))
      BY <1>4, UncountedMore DEF LaunchTakePermit
    <2>2. counts' = counts /\ semaphores' = semaphores
      BY <1>4 DEF LaunchTakePermit
    <2>3. CASE KeyOf[t] = k
      <3>1. Holders(k)' = Holders(k) \cup {t} /\ t \notin Holders(k)
        BY <1>4, <2>3 DEF LaunchTakePermit, Goto, TypeOK, Holders, Holds
      <3>2. Cardinality(Holders(k)') = Cardinality(Holders(k)) + 1
        BY <3>1, HoldersFinite, FS_AddElement
      <3>3. permits'[0][k] = permits[0][k] - 1 /\ permits[0][k] \in Nat
        BY <1>4, <2>3 DEF LaunchTakePermit, TypeOK
      <3>4. k \in semaphores
        BY <1>4, <2>3 DEF LaunchTakePermit, Placed
      <3>5. counts[k] \in Nat
        BY DEF TypeOK
      <3>6. /\ permits[0][k] + Cardinality(Holders(k)) = ConcurrencyLimit(k)
            /\ counts[k] + Cardinality(Uncounted(k)) = Cardinality(Holders(k))
        BY <3>4 DEF Balanced
      <3>7. permits'[0][k] + Cardinality(Holders(k)') = ConcurrencyLimit(k)
        BY <3>2, <3>3, <3>6, HoldersFinite
      <3>8. counts'[k] + Cardinality(Uncounted(k))' = Cardinality(Holders(k)')
        BY <2>1, <2>2, <2>3, <3>2, <3>5, <3>6, HoldersFinite, UncountedFinite
      <3>9. k \in semaphores' /\ ConcurrencyLimit(k)' = ConcurrencyLimit(k)
        BY <2>2, <3>4 DEF ConcurrencyLimit
      <3>10. QED BY <3>7, <3>8, <3>9 DEF Balanced
    <2>4. CASE KeyOf[t] # k
      <3>1. Holders(k)' = Holders(k)
        BY <1>4, <2>4 DEF LaunchTakePermit, Goto, TypeOK, Holders, Holds
      <3>2. permits'[0][k] = permits[0][k]
        BY <1>4, <2>4 DEF LaunchTakePermit, TypeOK
      <3>3. QED
        BY <2>1, <2>2, <2>4, <3>1, <3>2 DEF Balanced, ConcurrencyLimit
    <2>5. QED BY <2>3, <2>4
  <1>5. CASE LaunchCount(t)
    <2>1. Cardinality(Uncounted(k))' =
            IF k = KeyOf[t] THEN Cardinality(Uncounted(k)) - 1
                            ELSE Cardinality(Uncounted(k))
      BY <1>5, UncountedFewer DEF LaunchCount
    <2>2. permits' = permits /\ semaphores' = semaphores
      BY <1>5 DEF LaunchCount
    <2>3. counts'[k] = (IF k = KeyOf[t] THEN counts[k] + 1 ELSE counts[k])
      BY <1>5 DEF LaunchCount, TypeOK
    <2>4. Holders(k)' = Holders(k)
      BY <1>5 DEF LaunchCount, Goto, TypeOK, Holders, Holds
    <2>5. counts[k] \in Nat
      BY DEF TypeOK
    <2>6. KeyOf[t] = k => k \in semaphores
      BY <1>5 DEF LaunchCount, Balanced, Holders, Holds
    <2>7. QED
      BY <2>1, <2>2, <2>3, <2>4, <2>5, <2>6, UncountedFinite
      DEF Balanced, ConcurrencyLimit
  <1>6. QED
    BY <1>1, <1>2, <1>3, <1>4, <1>5 DEF LaunchStep

\* The one report of a task gives back the permit it holds, and its count.
LEMMA BalancedFinish ==
  ASSUME TypeOK, Undisturbed, \A u \in Tasks : Placed(u),
         NEW k \in Keys, Limited(k), Balanced(k),
         NEW t \in Tasks, NEW s \in Outcomes, Finish(t, s)
  PROVE  Balanced(k)'
  <1> KeyOf[t] \in Keys
    BY ConfigAssumption DEF ConfigAssumption
  <1> gen = 0 /\ 0 \in Gens
    BY GensFacts DEF Undisturbed
  <1>1. s \in Terminal /\ s # "Running"
    BY ConfigAssumption DEF ConfigAssumption, Terminal
  <1>2. Release(KeyOf[t])
    BY <1>1 DEF Finish, UpdateTaskStatus
  <1>3. Uncounted(k)' = Uncounted(k) /\ semaphores' = semaphores
    BY DEF Finish, Uncounted
  <1>4. CASE KeyOf[t] = k
    <2>1. t \in Holders(k) /\ Holders(k)' = Holders(k) \ {t}
      BY <1>1, <1>4 DEF Finish, UpdateTaskStatus, TypeOK, Holders, Holds
    <2>2. Cardinality(Holders(k)') = Cardinality(Holders(k)) - 1
      BY <2>1, HoldersFinite, FS_RemoveElement
    <2>3. k \in semaphores
      BY <2>1 DEF Balanced
    <2>4. Uncounted(k) \subseteq Holders(k) \ {t}
      BY DEF Uncounted, Holders, Holds, Finish
    <2>5. IsFiniteSet(Holders(k) \ {t})
      BY HoldersFinite, FS_Subset
    <2>6. Cardinality(Uncounted(k)) <= Cardinality(Holders(k) \ {t})
      BY <2>4, <2>5, FS_Subset
    <2>7. counts[k] \in Nat /\ permits[0][k] \in Nat
      BY DEF TypeOK
    <2>8. counts[k] > 0
      BY <2>1, <2>2, <2>3, <2>6, <2>7, HoldersFinite, UncountedFinite
      DEF Balanced
    <2>9. counts'[k] = counts[k] - 1 /\ permits'[0][k] = permits[0][k] + 1
      BY <1>2, <1>4, <2>3, <2>8 DEF Release, TypeOK
    <2>10. QED
      BY <1>3, <2>2, <2>3, <2>7, <2>9, HoldersFinite, UncountedFinite, LimitIsNat
      DEF Balanced, ConcurrencyLimit
  <1>5. CASE KeyOf[t] # k
    <2>1. Holders(k)' = Holders(k)
      BY <1>5 DEF Finish, UpdateTaskStatus, TypeOK, Holders, Holds
    <2>2. counts'[k] = counts[k] /\ permits'[0][k] = permits[0][k]
      BY <1>2, <1>5 DEF Release, TypeOK
    <2>3. QED BY <1>3, <2>1, <2>2, BalancedSame
  <1>6. QED BY <1>4, <1>5

\* Steps of launchers, workers and readers keep their invariant.
LEMMA WorkersInvNext ==
  ASSUME WorkersOnly, TypeOK, WorkersInv, [Next]_vars
  PROVE  WorkersInv'
  <1> USE DEF WorkersInv
  <1>1. WorkersNext
    BY NoOtherCalls
  <1>2. Undisturbed'
    BY <1>1, UndisturbedNext
  <1>3. \A t \in Tasks : Placed(t)' /\ Announced(t)'
    BY <1>1, PlacedNext
  <1>4. ASSUME NEW k \in Keys, Limited(k)
        PROVE  Balanced(k)'
    <2>1. ASSUME NEW t \in Tasks, LaunchStep(t), ~ LaunchNoRuntime(t)
          PROVE  Balanced(k)'
      BY <1>4, <2>1, BalancedLaunch
    <2>2. ASSUME NEW t \in Tasks, NEW s \in Outcomes, Finish(t, s)
          PROVE  Balanced(k)'
      BY <1>4, <2>2, BalancedFinish
    <2>3. ASSUME \/ \E t \in Tasks : MarkForNotification(t) \/ UpdateProgress(t)
                 \/ \E s \in Sessions : ClearNotifications(s)
                 \/ UNCHANGED vars
          PROVE  Balanced(k)'
      <3>1. UNCHANGED <<tasks, launch, semaphores, permits, counts>>
        BY <2>3 DEF MarkForNotification, UpdateProgress, ClearNotifications,
                    vars, slots, client, notes
      <3>2. Holders(k)' = Holders(k) /\ Uncounted(k)' = Uncounted(k)
        BY <3>1 DEF Holders, Holds, Uncounted
      <3>3. QED BY <1>4, <3>1, <3>2, BalancedSame
    <2>4. QED BY <1>1, <2>1, <2>2, <2>3 DEF WorkersNext
  <1>5. \A k : Limited(k)' = Limited(k)
    BY DEF Limited, ConcurrencyLimit
  <1>6. QED BY <1>2, <1>3, <1>4, <1>5

\* The invariant of launchers, workers and readers holds at first.
LEMMA WorkersInvInit == Init => WorkersInv
  <1> SUFFICES ASSUME Init
               PROVE  WorkersInv
    OBVIOUS
  <1>1. \A t \in Tasks : Placed(t) /\ Announced(t)
    BY DEF Init, Placed, Announced, HasNoId, Enqueued, Terminal
  <1>2. \A k \in Keys : Balanced(k)
    BY DEF Init, Balanced, Holders, Holds
  <1>3. QED BY <1>1, <1>2 DEF WorkersInv, Undisturbed, Init

\* So it holds always, together with the types.
LEMMA WorkersInvariant ==
  ASSUME WorkersOnly
  PROVE  Spec => []WorkersInv
  <1>1. TypeOK /\ WorkersInv /\ [Next]_vars => WorkersInv'
    BY WorkersInvNext
  <1>2. QED BY <1>1, WorkersInvInit, TypeCorrect, PTL DEF Spec

\* A Running task of a limited key holds one of its permits, so there are never
\* more of them than the limit.
THEOREM LimitRespected ==
  ASSUME WorkersOnly
  PROVE  Spec => []RunningWithinLimit
  <1>1. ASSUME TypeOK, WorkersInv, NEW k \in Keys, Limited(k)
        PROVE  Cardinality(Running(k)) <= ConcurrencyLimit(k)
    <2>1. Running(k) \subseteq Holders(k)
      BY <1>1 DEF WorkersInv, Placed, Running, Holders, Holds, HasNoId,
                  Enqueued, TypeOK, LaunchStates
    <2>2. Cardinality(Running(k)) <= Cardinality(Holders(k))
      BY <2>1, HoldersFinite, FS_Subset
    <2>3. Cardinality(Running(k)) \in Nat
      BY <2>1, HoldersFinite, FS_Subset, FS_CardinalityType
    <2>4. Balanced(k)
      BY <1>1 DEF WorkersInv
    <2>5. CASE k \in semaphores
      <3>1. permits[0][k] \in Nat
        BY <1>1, GensFacts DEF TypeOK
      <3>2. QED
        BY <2>2, <2>3, <2>4, <2>5, <3>1, HoldersFinite, LimitIsNat DEF Balanced
    <2>6. CASE k \notin semaphores
      <3>1. Cardinality(Holders(k)) = 0
        BY <2>4, <2>6, FS_EmptySet DEF Balanced
      <3>2. QED BY <2>2, <2>3, <3>1, LimitIsNat
    <2>7. QED BY <2>5, <2>6
  <1>2. TypeOK /\ WorkersInv => RunningWithinLimit
    BY <1>1 DEF RunningWithinLimit
  <1>3. QED BY <1>2, TypeCorrect, WorkersInvariant, PTL

\* When active_counts reaches the limit the semaphore has no permit left, which
\* is what is_at_capacity and get_queue_length conclude from the count alone.
THEOREM CapacityAgrees ==
  ASSUME WorkersOnly
  PROVE  Spec => []AtCapacityMeansNoPermits
  <1>1. ASSUME TypeOK, WorkersInv, NEW k \in semaphores, Limited(k),
               counts[k] >= ConcurrencyLimit(k)
        PROVE  permits[gen][k] = 0
    <2>1. k \in Keys /\ gen = 0
      BY <1>1 DEF TypeOK, WorkersInv, Undisturbed
    <2>2. /\ permits[0][k] + Cardinality(Holders(k)) = ConcurrencyLimit(k)
          /\ counts[k] + Cardinality(Uncounted(k)) = Cardinality(Holders(k))
      BY <1>1, <2>1 DEF WorkersInv, Balanced
    <2>3. counts[k] \in Nat /\ permits[0][k] \in Nat
      BY <1>1, <2>1, GensFacts DEF TypeOK
    <2>4. QED
      BY <1>1, <2>1, <2>2, <2>3, HoldersFinite, UncountedFinite, LimitIsNat
  <1>2. TypeOK /\ WorkersInv => AtCapacityMeansNoPermits
    BY <1>1 DEF AtCapacityMeansNoPermits
  <1>3. QED BY <1>2, TypeCorrect, WorkersInvariant, PTL

\* No Queued task is left without the launcher that will start it.
THEOREM QueuedKeepsItsLauncher ==
  ASSUME WorkersOnly
  PROVE  Spec => []QueuedHasLauncher
  <1>1. WorkersInv => QueuedHasLauncher
    BY DEF WorkersInv, Placed, Terminal, QueuedHasLauncher
  <1>2. QED BY <1>1, WorkersInvariant, PTL

\* A task is announced exactly once if it has finished and never before,
\* whatever runs between the update that finishes it and the push that
\* announces it: no announcement is lost and none is doubled.
THEOREM AnnouncedExactlyOnce ==
  ASSUME WorkersOnly
  PROVE  Spec => []AnnouncedOnce
  <1>1. WorkersInv => AnnouncedOnce
    BY DEF WorkersInv, Announced, AnnouncedOnce
  <1>2. QED BY <1>1, WorkersInvariant, PTL

-----------------------------------------------------------------------------
(* The manager implements the pool of slots.                               *)

\* The tasks that hold a slot of the pool are those that hold a permit.
LEMMA HoldingIsHolders ==
  ASSUME NEW k
  PROVE  Pool!Holding(k) = Holders(k)
  BY DEF Pool!Holding, Slot, Holders, Holds

\* A launcher's step is a request, a grant of a free slot, or nothing.
LEMMA LaunchImplementsPool ==
  ASSUME TypeOK, WorkersInv, NEW t \in Tasks, LaunchStep(t), ~ LaunchNoRuntime(t)
  PROVE  \/ Pool!Request(t) \/ Pool!Grant(t)
         \/ \A u \in Tasks : Slot(u)' = Slot(u)
  <1> KeyOf[t] \in Keys
    BY ConfigAssumption DEF ConfigAssumption
  <1> Placed(t) /\ arc[t] = 0 /\ 0 \in Gens
    BY GensFacts DEF WorkersInv, Undisturbed
  <1> USE DEF slots, notes, client, Goto, HasNoId, Enqueued, Terminal
  <1>1. CASE \/ LaunchRefuse(t) \/ LaunchAdmit(t) \/ LaunchInsert(t)
             \/ LaunchCount(t)
    BY <1>1 DEF LaunchRefuse, LaunchAdmit, LaunchInsert, LaunchCount,
                TypeOK, Slot, Holds
  <1>2. CASE LaunchPersist(t)
    BY <1>2 DEF LaunchPersist, TypeOK, Slot, Holds, Pool!Request
  <1>3. CASE LaunchGetSemaphore(t) /\ Limited(KeyOf[t])
    BY <1>3 DEF LaunchGetSemaphore, TypeOK, Slot, Holds
  <1>4. CASE LaunchGetSemaphore(t) /\ ~ Limited(KeyOf[t])
    BY <1>4 DEF LaunchGetSemaphore, TypeOK, Slot, Holds, Limited, Pool!Grant
  <1>5. CASE LaunchTakePermit(t)
    <2> DEFINE k == KeyOf[t]
    <2>1. CASE ConcurrencyLimit(k) # 0
      <3>1. k \in semaphores /\ Balanced(k)
        BY <1>5, <2>1 DEF LaunchTakePermit, Placed, WorkersInv, Limited
      <3>2. permits[0][k] \in Nat /\ permits[0][k] > 0
        BY <1>5 DEF LaunchTakePermit, TypeOK
      <3>3. Cardinality(Holders(k)) < ConcurrencyLimit(k)
        BY <3>1, <3>2, HoldersFinite, LimitIsNat DEF Balanced
      <3>4. Pool!Cardinality(Pool!Holding(k)) < ConcurrencyLimit(k)
        BY <3>3, HoldingIsHolders DEF Cardinality, Pool!Cardinality
      <3>5. QED
        BY <1>5, <2>1, <3>4 DEF LaunchTakePermit, TypeOK, Slot, Holds, Pool!Grant
    <2>2. CASE ConcurrencyLimit(k) = 0
      BY <1>5, <2>2 DEF LaunchTakePermit, TypeOK, Slot, Holds, Pool!Grant
    <2>3. QED BY <2>1, <2>2
  <1>6. CASE LaunchRun(t) \/ LaunchReturn(t)
    BY <1>6 DEF LaunchRun, LaunchReturn, TypeOK, Slot, Holds, Placed
  <1>7. QED
    BY <1>1, <1>2, <1>3, <1>4, <1>5, <1>6 DEF LaunchStep

\* The detailed manager refines the abstract pool: initial states to initial
\* states, every step to a step of the pool or to none.
THEOREM ImplementsSlotPool ==
  ASSUME WorkersOnly
  PROVE  Spec => Pool!SafeSpec
  <1>1. Init => Pool!Init
    BY DEF Init, Pool!Init, Slot, Holds
  <1>2. TypeOK /\ WorkersInv /\ [Next]_vars
          => [Pool!Next]_([t \in Tasks |-> Slot(t)])
    <2> SUFFICES ASSUME TypeOK, WorkersInv, [Next]_vars
                 PROVE  [Pool!Next]_([t \in Tasks |-> Slot(t)])
      OBVIOUS
    <2>1. WorkersNext
      BY NoOtherCalls DEF WorkersInv
    <2>2. ASSUME NEW t \in Tasks, LaunchStep(t), ~ LaunchNoRuntime(t)
          PROVE  [Pool!Next]_([u \in Tasks |-> Slot(u)])
      BY <2>2, LaunchImplementsPool DEF Pool!Next
    <2>3. ASSUME NEW t \in Tasks, NEW s \in Outcomes, Finish(t, s)
          PROVE  Pool!Return(t)
      <3>1. s \in Terminal
        BY ConfigAssumption DEF ConfigAssumption
      <3>2. QED
        BY <2>3, <3>1 DEF Finish, UpdateTaskStatus, TypeOK, Slot, Holds,
                          Terminal, Pool!Return
    <2>4. ASSUME \/ \E t \in Tasks : MarkForNotification(t) \/ UpdateProgress(t)
                 \/ \E s \in Sessions : ClearNotifications(s)
                 \/ UNCHANGED vars
          PROVE  UNCHANGED [t \in Tasks |-> Slot(t)]
      BY <2>4 DEF MarkForNotification, UpdateProgress, ClearNotifications,
                  vars, slots, client, notes, Slot, Holds
    <2>5. QED BY <2>1, <2>2, <2>3, <2>4 DEF WorkersNext, Pool!Next
  <1>3. QED
    BY <1>1, <1>2, TypeCorrect, WorkersInvariant, PTL DEF Spec, Pool!SafeSpec
=============================================================================
