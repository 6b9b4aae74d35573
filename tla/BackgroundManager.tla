------------------------- MODULE BackgroundManager --------------------------
(***************************************************************************)
(* The background task manager of omc-team (background/manager.rs) and the *)
(* concurrency manager it owns (background/concurrency.rs).                *)
(*                                                                         *)
(* One instance is shared by many threads through &self.  Each method      *)
(* takes and drops several locks, so a method is one action per region it  *)
(* holds a lock in (or per file it writes outside every lock).  A launch   *)
(* is a blocked thread: launch[t] is where the thread launching t is.      *)
(* Disk is a map of its own, files, because it survives the process.       *)
(***************************************************************************)
EXTENDS Integers, FiniteSets

CONSTANTS
  Tasks,          \* the launch calls; each makes at most one task
  Sessions,       \* the parent sessions
  ParentOf,       \* LaunchInput.parent_session_id of each task
  Keys,           \* the concurrency keys: the agents
  KeyOf,          \* LaunchInput.agent of each task
  ProviderOf,     \* the part of a key before its first '/'
  ModelLimit,     \* config.model_concurrency, a function on some keys
  ProviderLimit,  \* config.provider_concurrency, a function on some providers
  DefaultLimit,   \* config.default_concurrency, 5 when absent
  MaxTotal,       \* config.max_total_tasks, 10 when absent
  MaxQueue,       \* config.max_queue_size: {} when absent, else one number
  Outcomes,       \* the terminal statuses the workers report
  Calls,          \* the calls beyond launch and one report per task
  MaxCalls,       \* bound: how many of those calls a behaviour makes
  MaxClears       \* bound: how many times cleanup() drops the semaphores

Terminal == {"Completed", "Error", "Cancelled"}
Status   == {"Queued", "Running"} \cup Terminal
Gens     == 0 .. MaxClears

AllCalls == {"update", "progress", "resume", "remove", "prune", "clear",
             "cleanup", "restart", "noruntime"}

ASSUME ConfigAssumption ==
  /\ IsFiniteSet(Tasks)
  /\ ParentOf \in [Tasks -> Sessions]
  /\ KeyOf \in [Tasks -> Keys]
  /\ \A k \in DOMAIN ModelLimit : ModelLimit[k] \in Nat
  /\ \A p \in DOMAIN ProviderLimit : ProviderLimit[p] \in Nat
  /\ DefaultLimit \in Nat
  /\ MaxTotal \in Nat
  /\ MaxQueue \subseteq Nat
  /\ Outcomes \subseteq Terminal
  /\ Calls \subseteq AllCalls
  /\ MaxCalls \in Nat
  /\ MaxClears \in Nat

VARIABLES
  tasks,          \* the map of tasks: the status of each, or "absent"
  files,          \* the status in each task's JSON file, or "absent"
  launch,         \* where the thread that launches each task is
  arc,            \* the generation of the semaphore that thread waits on
  semaphores,     \* the keys that have an entry in the semaphore map
  permits,        \* the permits of each generation's semaphore of each key
  gen,            \* how many times the semaphore map has been cleared
  counts,         \* active_counts
  marking,        \* finished tasks cloned but not pushed to notifications yet
  notifications,  \* how many notifications of each task are pending
  cleared,        \* history: how many of each task a parent has cleared
  reclaim,        \* where each remove_task or prune of a task is
  pruner,         \* whether a prune_stale_tasks is under way
  cleaner,        \* where cleanup is
  calls,          \* how many of the bounded calls were made
  restarts        \* how many times the process was restarted

slots  == <<arc, semaphores, permits, gen, counts>>
notes  == <<marking, notifications, cleared>>
client == <<reclaim, pruner, cleaner, calls, restarts>>
vars   == <<tasks, files, launch, slots, notes, client>>

LaunchStates ==
  {"new", "refused", "admitted", "inserted", "persisted", "waiting",
   "permitted", "acquired", "ran", "returned", "panicked", "failed", "killed"}
Over     == {"new", "refused", "returned", "panicked", "failed", "killed"}
HasNoId  == {"new", "refused", "admitted"}
Stages   == {"idle", "listed", "release", "clear", "unpersist", "drop"}
Reclaimers == {"remove", "prune"}

TypeOK ==
  /\ tasks \in [Tasks -> Status \cup {"absent"}]
  /\ files \in [Tasks -> Status \cup {"absent"}]
  /\ launch \in [Tasks -> LaunchStates]
  /\ arc \in [Tasks -> Gens]
  /\ semaphores \subseteq Keys
  /\ permits \in [Gens -> [Keys -> Nat]]
  /\ gen \in Gens
  /\ counts \in [Keys -> Nat]
  /\ marking \in [Tasks -> Nat]
  /\ notifications \in [Tasks -> Nat]
  /\ cleared \in [Tasks -> Nat]
  /\ reclaim \in [Reclaimers \X Tasks -> Stages]
  /\ pruner \in BOOLEAN
  /\ cleaner \in {"idle", "notifications", "counts", "semaphores"}
  /\ cleaner # "idle" => gen < MaxClears
  /\ calls \in 0 .. MaxCalls
  /\ restarts \in Nat

-----------------------------------------------------------------------------
(* ConcurrencyManager.                                                     *)

\* A limit of 0 stands for the code's usize::MAX: unlimited.
ConcurrencyLimit(k) ==
  CASE k \in DOMAIN ModelLimit                -> ModelLimit[k]
    [] /\ k \notin DOMAIN ModelLimit
       /\ ProviderOf[k] \in DOMAIN ProviderLimit -> ProviderLimit[ProviderOf[k]]
    [] OTHER                                  -> DefaultLimit

Limited(k) == ConcurrencyLimit(k) # 0

\* Faulty: the permit is never given back.
ReleaseKeepingPermit(k) ==
  /\ counts' = [counts EXCEPT ![k] = IF @ > 0 THEN @ - 1 ELSE 0]
  /\ UNCHANGED permits

Release(k) ==
  IF Limited(k)
  THEN /\ counts' = [counts EXCEPT ![k] = IF @ > 0 THEN @ - 1 ELSE 0]
       /\ permits' = IF k \in semaphores
                     THEN [permits EXCEPT ![gen][k] = @ + 1]
                     ELSE permits
  ELSE UNCHANGED <<counts, permits>>

-----------------------------------------------------------------------------
(* launch.                                                                 *)

HasStatus(S)  == {t \in Tasks : tasks[t] \in S}
QueuedNumber  == Cardinality(HasStatus({"Queued"}))
InFlight      == Cardinality(HasStatus({"Queued", "Running"}))

QueueIsFull ==
  \/ InFlight >= MaxTotal
  \/ \E q \in MaxQueue : QueuedNumber >= q

Goto(t, l) == launch' = [launch EXCEPT ![t] = l]

LaunchRefuse(t) ==
  /\ launch[t] = "new"
  /\ QueueIsFull
  /\ Goto(t, "refused")
  /\ UNCHANGED <<tasks, files, slots, notes, client>>

\* The numbers are read under the read lock, which is dropped here.
LaunchAdmit(t) ==
  /\ launch[t] = "new"
  /\ ~ QueueIsFull
  /\ Goto(t, "admitted")
  /\ UNCHANGED <<tasks, files, slots, notes, client>>

LaunchInsert(t) ==
  /\ launch[t] = "admitted"
  /\ tasks' = [tasks EXCEPT ![t] = "Queued"]
  /\ Goto(t, "inserted")
  /\ UNCHANGED <<files, slots, notes, client>>

\* The file is written from the local copy, whatever the map says by now.
LaunchPersist(t) ==
  /\ launch[t] = "inserted"
  /\ files' = [files EXCEPT ![t] = "Queued"]
  /\ Goto(t, "persisted")
  /\ UNCHANGED <<tasks, slots, notes, client>>

\* The temporary runtime cannot be built: launch returns the error, and the
\* task it inserted stays.
LaunchNoRuntime(t) ==
  /\ "noruntime" \in Calls
  /\ launch[t] = "persisted"
  /\ Goto(t, "failed")
  /\ UNCHANGED <<tasks, files, slots, notes, client>>

\* Faulty: a fresh semaphore replaces the one in the map.
LaunchFreshSemaphore(t) ==
  /\ launch[t] = "persisted"
  /\ semaphores' = semaphores \cup {KeyOf[t]}
  /\ permits' = [permits EXCEPT ![gen][KeyOf[t]] = ConcurrencyLimit(KeyOf[t])]
  /\ arc' = [arc EXCEPT ![t] = gen]
  /\ Goto(t, "waiting")
  /\ UNCHANGED <<tasks, files, gen, counts, notes, client>>

\* acquire(): an unlimited key returns at once; otherwise the key's semaphore
\* is looked up, or made with the limit as its permits, and its Arc cloned.
LaunchGetSemaphore(t) ==
  LET k == KeyOf[t] IN
  /\ launch[t] = "persisted"
  /\ IF Limited(k)
     THEN /\ semaphores' = semaphores \cup {k}
          /\ permits' = IF k \in semaphores THEN permits
                        ELSE [permits EXCEPT ![gen][k] = ConcurrencyLimit(k)]
          /\ arc' = [arc EXCEPT ![t] = gen]
          /\ Goto(t, "waiting")
     ELSE /\ Goto(t, "acquired")
          /\ UNCHANGED <<semaphores, permits, arc>>
  /\ UNCHANGED <<tasks, files, gen, counts, notes, client>>

\* Faulty: the permit is not waited for.
LaunchGrabPermit(t) ==
  /\ launch[t] = "waiting"
  /\ permits' = [permits EXCEPT ![arc[t]][KeyOf[t]] = @ - 1]
  /\ Goto(t, "permitted")
  /\ UNCHANGED <<tasks, files, arc, semaphores, gen, counts, notes, client>>

\* Faulty: the semaphore is only tested.
LaunchPeekPermit(t) ==
  /\ launch[t] = "waiting"
  /\ permits[arc[t]][KeyOf[t]] > 0
  /\ Goto(t, "permitted")
  /\ UNCHANGED <<tasks, files, slots, notes, client>>

LaunchTakePermit(t) ==
  /\ launch[t] = "waiting"
  /\ permits[arc[t]][KeyOf[t]] > 0
  /\ permits' = [permits EXCEPT ![arc[t]][KeyOf[t]] = @ - 1]
  /\ Goto(t, "permitted")
  /\ UNCHANGED <<tasks, files, arc, semaphores, gen, counts, notes, client>>

\* Faulty: the permit is dropped instead of forgotten, so it goes back.
LaunchCountAndDrop(t) ==
  /\ launch[t] = "permitted"
  /\ counts' = [counts EXCEPT ![KeyOf[t]] = @ + 1]
  /\ permits' = [permits EXCEPT ![arc[t]][KeyOf[t]] = @ + 1]
  /\ Goto(t, "acquired")
  /\ UNCHANGED <<tasks, files, arc, semaphores, gen, notes, client>>

LaunchCount(t) ==
  /\ launch[t] = "permitted"
  /\ counts' = [counts EXCEPT ![KeyOf[t]] = @ + 1]
  /\ Goto(t, "acquired")
  /\ UNCHANGED <<tasks, files, arc, semaphores, permits, gen, notes, client>>

\* Faulty: the task is put back when it was removed meanwhile.
LaunchRunAlways(t) ==
  /\ launch[t] = "acquired"
  /\ tasks' = [tasks EXCEPT ![t] = "Running"]
  /\ files' = [files EXCEPT ![t] = "Running"]
  /\ Goto(t, "ran")
  /\ UNCHANGED <<slots, notes, client>>

\* Faulty: the status is persisted but not set in the map.
LaunchRunOnDisk(t) ==
  /\ launch[t] = "acquired"
  /\ files' = [files EXCEPT ![t] = "Running"]
  /\ Goto(t, "ran")
  /\ UNCHANGED <<tasks, slots, notes, client>>

\* Any status is overwritten, also the one a cancellation left.
LaunchRun(t) ==
  /\ launch[t] = "acquired"
  /\ IF tasks[t] # "absent"
     THEN /\ tasks' = [tasks EXCEPT ![t] = "Running"]
          /\ files' = [files EXCEPT ![t] = "Running"]
     ELSE UNCHANGED <<tasks, files>>
  /\ Goto(t, "ran")
  /\ UNCHANGED <<slots, notes, client>>

\* The last lookup is unwrapped: it panics when the task is gone.
LaunchReturn(t) ==
  /\ launch[t] = "ran"
  /\ Goto(t, IF tasks[t] # "absent" THEN "returned" ELSE "panicked")
  /\ UNCHANGED <<tasks, files, slots, notes, client>>

-----------------------------------------------------------------------------
(* Status, progress, resume and notifications.                             *)

\* Faulty: the slot is released and nothing is announced.
UpdateTaskStatusSilently(t, s) ==
  /\ tasks[t] # "absent"
  /\ tasks' = [tasks EXCEPT ![t] = s]
  /\ IF s \in Terminal
     THEN Release(KeyOf[t]) /\ UNCHANGED <<files, marking>>
     ELSE /\ files' = [files EXCEPT ![t] = s]
          /\ UNCHANGED <<counts, permits, marking>>

\* A terminal status releases the slot under the write lock, leaves the file
\* alone, and is announced after the lock is dropped (MarkForNotification).
UpdateTaskStatus(t, s) ==
  /\ tasks[t] # "absent"
  /\ tasks' = [tasks EXCEPT ![t] = s]
  /\ IF s \in Terminal
     THEN /\ Release(KeyOf[t])
          /\ marking' = [marking EXCEPT ![t] = @ + 1]
          /\ UNCHANGED files
     ELSE /\ files' = [files EXCEPT ![t] = s]
          /\ UNCHANGED <<counts, permits, marking>>

\* The worker of a running task reports how it ended, once.
Finish(t, s) ==
  /\ launch[t] = "returned"
  /\ tasks[t] = "Running"
  /\ UpdateTaskStatus(t, s)
  /\ UNCHANGED <<launch, arc, semaphores, gen, notifications, cleared, client>>

\* Another caller's call: it needs a known id and counts against MaxCalls.
Called(c) ==
  /\ c \in Calls
  /\ calls < MaxCalls
  /\ calls' = calls + 1

Update(t, s) ==
  /\ Called("update")
  /\ UpdateTaskStatus(t, s)
  /\ UNCHANGED <<launch, arc, semaphores, gen, notifications, cleared,
                 reclaim, pruner, cleaner, restarts>>

\* The whole task is persisted, whatever its status.
UpdateProgress(t) ==
  /\ "progress" \in Calls
  /\ tasks[t] # "absent"
  /\ files' = [files EXCEPT ![t] = tasks[t]]
  /\ UNCHANGED <<tasks, launch, slots, notes, client>>

\* A resumed task also changes its parent session (manager.rs:192), which
\* only tells whose queue its later notifications join: ParentOf abstracts it.
Resume(t) ==
  /\ Called("resume")
  /\ tasks[t] # "absent"
  /\ tasks' = [tasks EXCEPT ![t] = "Running"]
  /\ files' = [files EXCEPT ![t] = "Running"]
  /\ UNCHANGED <<launch, slots, notes, reclaim, pruner, cleaner, restarts>>

MarkForNotification(t) ==
  /\ marking[t] > 0
  /\ marking' = [marking EXCEPT ![t] = @ - 1]
  /\ notifications' = [notifications EXCEPT ![t] = @ + 1]
  /\ UNCHANGED <<tasks, files, launch, slots, cleared, client>>

ClearNotifications(s) ==
  /\ "clear" \in Calls
  /\ notifications' =
       [t \in Tasks |-> IF ParentOf[t] = s THEN 0 ELSE notifications[t]]
  /\ cleared' = [t \in Tasks |->
       IF ParentOf[t] = s THEN cleared[t] + notifications[t] ELSE cleared[t]]
  /\ UNCHANGED <<tasks, files, launch, slots, marking, client>>

-----------------------------------------------------------------------------
(* remove_task and prune_stale_tasks.  Both read the task, release its     *)
(* slot, clear its notifications, delete its file and only then drop it    *)
(* from the map, each under a lock of its own.                             *)

RemoveTask(t) ==
  /\ Called("remove")
  /\ launch[t] \notin HasNoId
  /\ reclaim[<<"remove", t>>] = "idle"
  /\ reclaim' = [reclaim EXCEPT
       ![<<"remove", t>>] = IF tasks[t] # "absent" THEN "release" ELSE "clear"]
  /\ UNCHANGED <<tasks, files, launch, slots, notes, pruner, cleaner, restarts>>

\* The ids of tasks that are too old or idle; time is not modelled, so any set
\* of tasks in flight may be.
PruneSelect(S) ==
  /\ Called("prune")
  /\ ~ pruner
  /\ S \subseteq HasStatus({"Queued", "Running"})
  /\ pruner' = TRUE
  /\ reclaim' = [x \in Reclaimers \X Tasks |->
       IF x[1] = "prune" /\ x[2] \in S THEN "listed" ELSE reclaim[x]]
  /\ UNCHANGED <<tasks, files, launch, slots, notes, cleaner, restarts>>

\* The list is walked one task at a time.
PruneRead(t) ==
  /\ reclaim[<<"prune", t>>] = "listed"
  /\ \A u \in Tasks : reclaim[<<"prune", u>>] \in {"idle", "listed"}
  /\ reclaim' = [reclaim EXCEPT
       ![<<"prune", t>>] = IF tasks[t] # "absent" THEN "release" ELSE "drop"]
  /\ UNCHANGED <<tasks, files, launch, slots, notes,
                 pruner, cleaner, calls, restarts>>

ReclaimStep(r, t, from, to) ==
  /\ reclaim[<<r, t>>] = from
  /\ reclaim' = [reclaim EXCEPT ![<<r, t>>] = to]
  /\ UNCHANGED <<launch, arc, semaphores, gen, marking, cleared,
                 pruner, cleaner, calls, restarts>>

ReclaimRelease(r, t) ==
  /\ ReclaimStep(r, t, "release", "clear")
  /\ Release(KeyOf[t])
  /\ UNCHANGED <<tasks, files, notifications>>

ReclaimClear(r, t) ==
  /\ ReclaimStep(r, t, "clear", "unpersist")
  /\ notifications' = [notifications EXCEPT ![t] = 0]
  /\ UNCHANGED <<tasks, files, counts, permits>>

ReclaimUnpersist(r, t) ==
  /\ ReclaimStep(r, t, "unpersist", "drop")
  /\ files' = [files EXCEPT ![t] = "absent"]
  /\ UNCHANGED <<tasks, counts, permits, notifications>>

ReclaimDrop(r, t) ==
  /\ ReclaimStep(r, t, "drop", "idle")
  /\ tasks' = [tasks EXCEPT ![t] = "absent"]
  /\ UNCHANGED <<files, counts, permits, notifications>>

\* The notifications of tasks started too long ago go, after the list is done.
PruneExpire(S) ==
  /\ pruner
  /\ \A t \in Tasks : reclaim[<<"prune", t>>] = "idle"
  /\ pruner' = FALSE
  /\ notifications' =
       [t \in Tasks |-> IF t \in S THEN 0 ELSE notifications[t]]
  /\ UNCHANGED <<tasks, files, launch, slots, marking, cleared,
                 reclaim, cleaner, calls, restarts>>

-----------------------------------------------------------------------------
(* cleanup, and the process dying and starting again.                      *)

CleanupTasks ==
  /\ Called("cleanup")
  /\ cleaner = "idle"
  /\ gen < MaxClears
  /\ tasks' = [t \in Tasks |-> "absent"]
  /\ cleaner' = "notifications"
  /\ UNCHANGED <<files, launch, slots, notes, reclaim, pruner, restarts>>

CleanupNotifications ==
  /\ cleaner = "notifications"
  /\ notifications' = [t \in Tasks |-> 0]
  /\ cleaner' = "counts"
  /\ UNCHANGED <<tasks, files, launch, slots, marking, cleared,
                 reclaim, pruner, calls, restarts>>

CleanupCounts ==
  /\ cleaner = "counts"
  /\ counts' = [k \in Keys |-> 0]
  /\ cleaner' = "semaphores"
  /\ UNCHANGED <<tasks, files, launch, arc, semaphores, permits, gen, notes,
                 reclaim, pruner, calls, restarts>>

\* The map lets go of the semaphores; a thread that waits on one keeps it.
CleanupSemaphores ==
  /\ cleaner = "semaphores"
  /\ semaphores' = {}
  /\ gen' = gen + 1
  /\ cleaner' = "idle"
  /\ UNCHANGED <<tasks, files, launch, arc, permits, counts, notes,
                 reclaim, pruner, calls, restarts>>

\* The next process loads every file it can parse, with the status it finds
\* there.  fs::write truncates first: the file being written is lost.
Restart(torn) ==
  /\ Called("restart")
  /\ torn \subseteq {t \in Tasks : tasks[t] # "absent"}
  /\ Cardinality(torn) <= 1
  /\ restarts' = restarts + 1
  /\ files' = [t \in Tasks |-> IF t \in torn THEN "absent" ELSE files[t]]
  /\ tasks' = files'
  /\ launch' = [t \in Tasks |-> IF launch[t] \in Over THEN launch[t] ELSE "killed"]
  /\ arc' = [t \in Tasks |-> 0]
  /\ semaphores' = {}
  /\ permits' = [g \in Gens |-> [k \in Keys |-> 0]]
  /\ gen' = 0
  /\ counts' = [k \in Keys |-> 0]
  /\ marking' = [t \in Tasks |-> 0]
  /\ notifications' = [t \in Tasks |-> 0]
  /\ cleared' = [t \in Tasks |-> 0]
  /\ reclaim' = [x \in Reclaimers \X Tasks |-> "idle"]
  /\ pruner' = FALSE
  /\ cleaner' = "idle"

-----------------------------------------------------------------------------
Init ==
  /\ tasks = [t \in Tasks |-> "absent"]
  /\ files = [t \in Tasks |-> "absent"]
  /\ launch = [t \in Tasks |-> "new"]
  /\ arc = [t \in Tasks |-> 0]
  /\ semaphores = {}
  /\ permits = [g \in Gens |-> [k \in Keys |-> 0]]
  /\ gen = 0
  /\ counts = [k \in Keys |-> 0]
  /\ marking = [t \in Tasks |-> 0]
  /\ notifications = [t \in Tasks |-> 0]
  /\ cleared = [t \in Tasks |-> 0]
  /\ reclaim = [x \in Reclaimers \X Tasks |-> "idle"]
  /\ pruner = FALSE
  /\ cleaner = "idle"
  /\ calls = 0
  /\ restarts = 0

\* The steps of the thread that launches t.
LaunchStep(t) ==
  \/ LaunchRefuse(t)
  \/ LaunchAdmit(t)
  \/ LaunchInsert(t)
  \/ LaunchPersist(t)
  \/ LaunchNoRuntime(t)
  \/ LaunchGetSemaphore(t)
  \/ LaunchTakePermit(t)
  \/ LaunchCount(t)
  \/ LaunchRun(t)
  \/ LaunchReturn(t)

ReclaimTask(r, t) ==
  \/ ReclaimRelease(r, t)
  \/ ReclaimClear(r, t)
  \/ ReclaimUnpersist(r, t)
  \/ ReclaimDrop(r, t)

CleanupStep ==
  \/ CleanupTasks
  \/ CleanupNotifications
  \/ CleanupCounts
  \/ CleanupSemaphores

\* Every launch is over and every task has ended: nothing is left to do.
Quiescent ==
  /\ \A t \in Tasks : launch[t] \in Over \ {"new"}
  /\ HasStatus({"Queued", "Running"}) = {}
  /\ UNCHANGED vars

Next ==
  \/ \E t \in Tasks : LaunchStep(t)
  \/ \E t \in Tasks, s \in Outcomes : Finish(t, s)
  \/ \E t \in Tasks : MarkForNotification(t)
  \/ \E t \in Tasks, s \in Outcomes \cup {"Queued", "Running"} : Update(t, s)
  \/ \E t \in Tasks : UpdateProgress(t)
  \/ \E t \in Tasks : Resume(t)
  \/ \E s \in Sessions : ClearNotifications(s)
  \/ \E t \in Tasks : RemoveTask(t)
  \/ \E S \in SUBSET Tasks : PruneSelect(S)
  \/ \E t \in Tasks : PruneRead(t)
  \/ \E r \in Reclaimers, t \in Tasks : ReclaimTask(r, t)
  \/ \E S \in SUBSET Tasks : PruneExpire(S)
  \/ CleanupStep
  \/ \E torn \in SUBSET Tasks : Restart(torn)
  \/ Quiescent

Spec == Init /\ [][Next]_vars

\* Threads are scheduled, workers report, and tokio's semaphore serves its
\* waiters first come, first served, so one that could be served again and
\* again is.
Fairness ==
  \A t \in Tasks :
    /\ WF_vars(LaunchStep(t))
    /\ SF_vars(LaunchTakePermit(t))
    /\ WF_vars(\E s \in Outcomes : Finish(t, s))
    /\ WF_vars(MarkForNotification(t))

FairSpec == Spec /\ Fairness
=============================================================================
