-------------------- MODULE BackgroundManagerProperties ---------------------
(***************************************************************************)
(* What the background manager should guarantee.  The first group holds    *)
(* when the only callers are the launchers, the workers that report once,  *)
(* and readers (Calls \subseteq {"progress", "clear"}); the second holds   *)
(* for every mix of calls; the third is what the repository says and the   *)
(* code does not do.                                                       *)
(***************************************************************************)
EXTENDS BackgroundManager

\* Tasks of key k that have taken a permit and not given it back.
Holds(t) ==
  \/ launch[t] \in {"permitted", "acquired", "ran"}
  \/ launch[t] = "returned" /\ tasks[t] = "Running"

Holders(k) == {t \in Tasks : KeyOf[t] = k /\ Holds(t)}

\* Waiters that have taken a permit and are not in active_counts yet.
Uncounted(k) ==
  {t \in Tasks : KeyOf[t] = k /\ launch[t] = "permitted"}

Running(k) == {t \in Tasks : KeyOf[t] = k /\ tasks[t] = "Running"}

Enqueued == {"inserted", "persisted", "waiting", "permitted", "acquired"}

-----------------------------------------------------------------------------
(* With launchers, workers and readers only.                               *)

\* No more tasks of one agent run at a time than the agent's limit allows,
\* although launch marks a task Running long after acquire() returned.
RunningWithinLimit ==
  \A k \in Keys : Limited(k) => Cardinality(Running(k)) <= ConcurrencyLimit(k)

\* "Available permits is 0" when get_count has reached the limit, which is
\* what get_queue_length and is_at_capacity take for granted: active_counts
\* and the semaphore, two structures under two locks, agree.
AtCapacityMeansNoPermits ==
  \A k \in semaphores :
    Limited(k) /\ counts[k] >= ConcurrencyLimit(k) => permits[gen][k] = 0

\* A Queued task counts against max_total_tasks and only its launcher can
\* start it, so there is a launcher for every Queued task.
QueuedHasLauncher ==
  \A t \in Tasks : tasks[t] = "Queued" => launch[t] \in Enqueued

\* A task that ends is announced exactly once, and one that has not ended is
\* not: between the update that drops the lock and the push under the other
\* lock the announcement is neither lost nor doubled, whoever clears in
\* between.  It is on its way, pending, or cleared by its parent.
Announced(t) ==
  marking[t] + notifications[t] + cleared[t]
    = IF tasks[t] \in Terminal THEN 1 ELSE 0

AnnouncedOnce == \A t \in Tasks : Announced(t)

\* Every launch that was admitted returns with its task started: nobody waits
\* for a slot forever as long as workers report.
AdmittedLaunchReturns ==
  \A t \in Tasks : launch[t] = "admitted" ~> launch[t] = "returned"

\* The manager implements the pool of slots: a task waits from the time it is
\* persisted, and holds a slot from its permit to its report.
Slot(t) ==
  CASE launch[t] \in {"persisted", "waiting"} -> "waiting"
    [] Holds(t)                               -> "held"
    [] launch[t] = "returned" /\ tasks[t] # "Running" -> "returned"
    [] OTHER                                  -> "none"

Pool == INSTANCE SlotPool WITH
  slot  <- [t \in Tasks |-> Slot(t)],
  Limit <- [k \in Keys |-> ConcurrencyLimit(k)]

ImplementsPool == Pool!Spec

\* Why: the inductive invariant of these callers.  The status of a task goes
\* with the place of its launcher; the permits of a semaphore and the tasks
\* that hold one make up the limit; active_counts lags behind by the threads
\* that have not counted themselves.
WorkersOnly == Calls \subseteq {"progress", "clear"}

Undisturbed ==
  /\ gen = 0 /\ cleaner = "idle" /\ ~ pruner
  /\ \A t \in Tasks : arc[t] = 0
  /\ \A x \in Reclaimers \X Tasks : reclaim[x] = "idle"

Placed(t) ==
  /\ launch[t] \in HasNoId \cup Enqueued \cup {"ran", "returned"}
  /\ launch[t] \in HasNoId => tasks[t] = "absent"
  /\ launch[t] \in Enqueued => tasks[t] = "Queued"
  /\ launch[t] = "ran" => tasks[t] = "Running"
  /\ launch[t] = "returned" => tasks[t] \in {"Running"} \cup Terminal
  /\ launch[t] = "waiting" => KeyOf[t] \in semaphores

Balanced(k) ==
  /\ k \in semaphores =>
       /\ permits[0][k] + Cardinality(Holders(k)) = ConcurrencyLimit(k)
       /\ counts[k] + Cardinality(Uncounted(k)) = Cardinality(Holders(k))
  /\ k \notin semaphores => Holders(k) = {} /\ counts[k] = 0

WorkersInv ==
  /\ Undisturbed
  /\ \A t \in Tasks : Placed(t) /\ Announced(t)
  /\ \A k \in Keys : Limited(k) => Balanced(k)

-----------------------------------------------------------------------------
(* With every call the manager offers, in any order.                       *)

\* Whatever is released, removed, pruned or cancelled when, capacity is never
\* lost between the two structures: permits that are free, permits on their
\* way to being counted, and permits counted make up the limit at least.  So
\* an acquire that would block finds is_at_capacity saying so.
CapacityNeverShrinks ==
  \A k \in semaphores :
    Limited(k) /\ cleaner # "semaphores"
      => permits[gen][k] + counts[k] + Cardinality(Uncounted(k))
           >= ConcurrencyLimit(k)

StaysOut(t) ==
  /\ restarts' = restarts
  /\ launch[t] # "admitted"
  /\ tasks[t] = "absent"
  => tasks'[t] = "absent"

\* A task that was removed, pruned or cleaned up is not put back by a launch,
\* report or resume that read it before; only a restart brings it back.
RemovedStaysOut == [][\A t \in Tasks : StaysOut(t)]_vars

-----------------------------------------------------------------------------
(* Stated by the repository, refuted by the code.                          *)

\* At most max_total_tasks tasks are in flight (manager.rs:118, and the test
\* max_total_tasks_enforced at manager.rs:674).
InFlightWithinMaximum == InFlight <= MaxTotal
=============================================================================
