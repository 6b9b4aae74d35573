----------------------------- MODULE WorkerPool -----------------------------
(***************************************************************************)
(* The lead's side of a pool of workers: the dispatch queue and the choice *)
(* of a worker (omc-team/src/dispatch.rs), and the health and restarts of  *)
(* the workers (omc-team/src/worker_health.rs).                            *)
(*                                                                         *)
(* Both are structures the lead owns and changes by one method at a time.  *)
(* What makes them hard is the order of the calls: workers answer late,    *)
(* die, or miss heartbeats while tasks time out, are cancelled, and are    *)
(* submitted again under the same id.  The lead's loop and the workers are *)
(* not part of these files; any order of their calls is allowed.  A clock  *)
(* would be unbounded, so each instant is the time since it, up to one     *)
(* more than the limit it is compared with.                                *)
(***************************************************************************)
EXTENDS TeamBounds, Integers, Sequences, FiniteSets

CONSTANTS
  Tasks,               \* task ids
  PoolWorkers,         \* worker ids
  MaxConcurrent,       \* max_concurrent
  AckTimeout,          \* ack_timeout_ms, in ticks
  HeartbeatTimeout,    \* heartbeat_timeout_ms, in ticks
  UnhealthyThreshold,  \* unhealthy_threshold
  MaxRestarts,         \* max_restarts
  Off                  \* no instant, no worker, not registered

ASSUME PoolAssumption ==
  /\ IsFiniteSet(Tasks)
  /\ MaxConcurrent \in Nat /\ AckTimeout \in Nat /\ HeartbeatTimeout \in Nat
  /\ UnhealthyThreshold \in Nat \ {0} /\ MaxRestarts \in Nat
  /\ Off \notin Nat \cup PoolWorkers
  /\ {"worker", "submit", "cancel", "error", "beat", "death"} \subseteq Kinds

VARIABLES
  queue,      \* queue: the ids of the tasks that wait
  inFlight,   \* in_flight: the ids of the tasks that have been taken
  taskStatus, \* the status in each task's record, "none" before it is submitted
  since,      \* dispatched_at_instant: the age of each entry, or Off
  assignee,   \* assigned_worker of each task's record, or Off
  working,    \* the tasks each worker is working on, whatever the lead thinks
  alive,      \* the workers that run
  health,     \* workers: status and consecutive_errors of each, or Off
  silence,    \* last_heartbeat_instant: the age of each entry, or Off
  restarts,   \* restart_counts
  fellSilent  \* history: the workers found unresponsive since they registered

dispatch == <<queue, inFlight, taskStatus, since, assignee>>
monitor == <<health, silence, restarts, fellSilent>>
poolVars == <<queue, inFlight, taskStatus, since, assignee, working, alive,
              health, silence, restarts, fellSilent>>

NewWorker == [status |-> "Starting", errors |-> 0]
Older(age, limit) == IF age = Off THEN Off ELSE IF age > limit THEN age ELSE age + 1

PoolInit ==
  /\ queue = <<>>
  /\ inFlight = {}
  /\ taskStatus = [t \in Tasks |-> "none"]
  /\ since = [t \in Tasks |-> Off]
  /\ assignee = [t \in Tasks |-> Off]
  /\ working = [w \in PoolWorkers |-> {}]
  /\ alive = {}
  /\ health = [w \in PoolWorkers |-> Off]
  /\ silence = [w \in PoolWorkers |-> Off]
  /\ restarts = [w \in PoolWorkers |-> 0]
  /\ fellSilent = {}

-----------------------------------------------------------------------------
(* The dispatch queue.                                                     *)

SetStatus(t, s) == taskStatus' = [taskStatus EXCEPT ![t] = s]
StopTimer(t) == since' = [since EXCEPT ![t] = Off]

\* A task is submitted, or again once it has failed.  That is what callers are
\* taken to do: the code pushes whatever it is given, an id that already waits
\* or is in flight included.
Enqueue(t) ==
  /\ taskStatus[t] \in {"none", "Failed"}
  /\ Spend("submit")
  /\ queue' = Append(queue, t)
  /\ SetStatus(t, "Queued")
  /\ assignee' = [assignee EXCEPT ![t] = Off]
  /\ UNCHANGED <<inFlight, since, working, alive, monitor>>

\* Faulty: one task too many, or one too few, may be in flight.
IsOverfull == Cardinality(inFlight) > MaxConcurrent
IsAlmostFull == Cardinality(inFlight) + 1 >= MaxConcurrent

IsFull == Cardinality(inFlight) >= MaxConcurrent

Dequeue ==
  /\ ~ IsFull
  /\ queue # <<>>
  /\ LET t == Head(queue)
     IN  /\ queue' = Tail(queue)
         /\ inFlight' = inFlight \cup {t}
         /\ SetStatus(t, "Dispatched")
         /\ since' = [since EXCEPT ![t] = 0]
  /\ UNCHANGED <<assignee, working, alive, monitor, budget>>

\* select_worker: some healthy or degraded worker; which of them depends on
\* counts of their past tasks and on the policy.  The worker of an earlier
\* dispatch that timed out may still be working on the task.
Selectable(w) == health[w] # Off /\ health[w].status \in {"Healthy", "Degraded"}

Assign(t, w) ==
  /\ taskStatus[t] = "Dispatched"
  /\ assignee[t] = Off
  /\ Selectable(w)
  /\ assignee' = [assignee EXCEPT ![t] = w]
  /\ working' = [working EXCEPT ![w] = IF w \in alive THEN @ \cup {t} ELSE @]
  /\ UNCHANGED <<queue, inFlight, taskStatus, since, alive, monitor, budget>>

Acknowledge(w, t) ==
  /\ t \in working[w]
  /\ t \in inFlight
  /\ SetStatus(t, "Acknowledged")
  /\ StopTimer(t)
  /\ UNCHANGED <<queue, inFlight, assignee, working, alive, monitor, budget>>

\* complete and fail: only what is in flight is settled.
Settle(t, s) ==
  /\ IF t \in inFlight
     THEN inFlight' = inFlight \ {t} /\ SetStatus(t, s) /\ StopTimer(t)
     ELSE UNCHANGED <<inFlight, taskStatus, since>>
  /\ UNCHANGED <<queue, assignee>>

\* Faulty: the timer of a task in flight goes on.
CancelKeepingTimer(t) ==
  /\ Spend("cancel")
  /\ t \in inFlight
  /\ inFlight' = inFlight \ {t}
  /\ SetStatus(t, "Cancelled")
  /\ UNCHANGED <<queue, since, assignee, working, alive, monitor>>

Cancel(t) ==
  /\ Spend("cancel")
  /\ \/ /\ t \in inFlight
        /\ inFlight' = inFlight \ {t}
        /\ StopTimer(t)
        /\ UNCHANGED queue
     \/ \E i \in 1 .. Len(queue) :
          /\ t \notin inFlight
          /\ queue[i] = t
          /\ queue' = SubSeq(queue, 1, i - 1) \o SubSeq(queue, i + 1, Len(queue))
          /\ UNCHANGED <<inFlight, since>>
  /\ SetStatus(t, "Cancelled")
  /\ UNCHANGED <<assignee, working, alive, monitor>>

Expired == {t \in Tasks : since[t] # Off /\ since[t] > AckTimeout}

CheckTimeouts ==
  /\ Expired # {}
  /\ since' = [t \in Tasks |-> IF t \in Expired THEN Off ELSE since[t]]
  /\ inFlight' = inFlight \ Expired
  /\ taskStatus' = [t \in Tasks |->
       IF t \in Expired \cap inFlight THEN "Failed" ELSE taskStatus[t]]
  /\ UNCHANGED <<queue, assignee, working, alive, monitor, budget>>

-----------------------------------------------------------------------------
(* The health monitor.                                                     *)

\* record_success
Success(h) ==
  [status |-> IF h.status = "Degraded" THEN "Healthy" ELSE h.status, errors |-> 0]

\* Faulty: the threshold is one error late.
ErrorLate(h) ==
  [status |-> IF h.errors + 1 > UnhealthyThreshold THEN "Unhealthy" ELSE "Degraded",
   errors |-> h.errors + 1]

\* record_error
Error(h) ==
  [status |-> IF h.errors + 1 >= UnhealthyThreshold THEN "Unhealthy" ELSE "Degraded",
   errors |-> h.errors + 1]

Record(w, change(_)) ==
  health' = [health EXCEPT ![w] = IF @ = Off THEN Off ELSE change(@)]

\* A worker answers, in time or not, and the lead records both the outcome of
\* the task and that of the worker.
Succeed(w, t) ==
  /\ t \in working[w]
  /\ working' = [working EXCEPT ![w] = @ \ {t}]
  /\ Settle(t, "Completed")
  /\ Record(w, Success)
  /\ UNCHANGED <<alive, silence, restarts, fellSilent, budget>>

GiveUp(w, t) ==
  /\ t \in working[w]
  /\ Spend("error")
  /\ working' = [working EXCEPT ![w] = @ \ {t}]
  /\ Settle(t, "Failed")
  /\ Record(w, Error)
  /\ UNCHANGED <<alive, silence, restarts, fellSilent>>

\* record_heartbeat: the instant is kept for unknown workers too.
Heartbeat(w) ==
  /\ w \in alive
  /\ Spend("beat")
  /\ health' = [health EXCEPT ![w] =
       IF @ # Off /\ @.status \in {"Starting", "Unresponsive"}
       THEN [@ EXCEPT !.status = "Healthy"] ELSE @]
  /\ silence' = [silence EXCEPT ![w] = 0]
  /\ UNCHANGED <<dispatch, working, alive, restarts, fellSilent>>

Unresponsive ==
  {w \in PoolWorkers : /\ health[w] # Off
                       /\ silence[w] # Off /\ silence[w] > HeartbeatTimeout
                       /\ health[w].status \notin {"Stopped", "Crashed"}}

CheckHealth ==
  /\ health' = [w \in PoolWorkers |->
       IF w \in Unresponsive THEN [health[w] EXCEPT !.status = "Unresponsive"]
       ELSE health[w]]
  /\ fellSilent' = fellSilent \cup Unresponsive
  /\ health' # health
  /\ UNCHANGED <<dispatch, working, alive, silence, restarts, budget>>

Register(w) ==
  /\ health' = [health EXCEPT ![w] = NewWorker]
  /\ silence' = [silence EXCEPT ![w] = 0]
  /\ fellSilent' = fellSilent \ {w}

\* A worker is started and registered; so may one be that was removed.
Start(w) ==
  /\ health[w] = Off
  /\ Spend("worker")
  /\ Register(w)
  /\ alive' = alive \cup {w}
  /\ UNCHANGED <<dispatch, working, restarts>>

\* Faulty: a worker is started again without end.
RestartAlways(w) ==
  /\ health[w] # Off /\ health[w].status = "Unresponsive"
  /\ restarts' = [restarts EXCEPT ![w] = @ + 1]
  /\ Register(w)
  /\ alive' = alive \cup {w}
  /\ working' = [working EXCEPT ![w] = {}]
  /\ UNCHANGED <<dispatch, budget>>

\* An unresponsive worker is started again while its restarts last ...
Restart(w) ==
  /\ health[w] # Off /\ health[w].status = "Unresponsive"
  /\ restarts[w] < MaxRestarts
  /\ restarts' = [restarts EXCEPT ![w] = @ + 1]
  /\ Register(w)
  /\ alive' = alive \cup {w}
  /\ working' = [working EXCEPT ![w] = {}]
  /\ UNCHANGED <<dispatch, budget>>

\* ... and removed from the monitor afterwards.
Remove(w) ==
  /\ health[w] # Off /\ health[w].status = "Unresponsive"
  /\ restarts[w] >= MaxRestarts
  /\ health' = [health EXCEPT ![w] = Off]
  /\ silence' = [silence EXCEPT ![w] = Off]
  /\ fellSilent' = fellSilent \ {w}
  /\ UNCHANGED <<dispatch, working, alive, restarts, budget>>

\* RestartManager::reset: the restarts of a worker are forgotten.
Reset(w) ==
  /\ Spend("beat")
  /\ restarts[w] # 0
  /\ restarts' = [restarts EXCEPT ![w] = 0]
  /\ UNCHANGED <<dispatch, working, alive, health, silence, fellSilent>>

-----------------------------------------------------------------------------
(* The environment.                                                        *)

Die(w) ==
  /\ w \in alive
  /\ Spend("death")
  /\ alive' = alive \ {w}
  /\ working' = [working EXCEPT ![w] = {}]
  /\ UNCHANGED <<dispatch, monitor>>

Tick ==
  /\ since' = [t \in Tasks |-> Older(since[t], AckTimeout)]
  /\ silence' = [w \in PoolWorkers |-> Older(silence[w], HeartbeatTimeout)]
  /\ <<since, silence>>' # <<since, silence>>
  /\ UNCHANGED <<queue, inFlight, taskStatus, assignee, working, alive, health,
                 restarts, fellSilent, budget>>

PoolNext ==
  \/ Dequeue \/ CheckTimeouts \/ CheckHealth \/ Tick
  \/ \E t \in Tasks : Enqueue(t) \/ Cancel(t)
  \/ \E w \in PoolWorkers :
       \/ Start(w) \/ Heartbeat(w) \/ Restart(w) \/ Remove(w) \/ Reset(w)
       \/ Die(w)
  \/ \E w \in PoolWorkers, t \in Tasks :
       Assign(t, w) \/ Acknowledge(w, t) \/ Succeed(w, t) \/ GiveUp(w, t)

PoolSpec ==
  PoolInit /\ budget \in Budgets /\ [][PoolNext]_<<poolVars, budget>>

\* The lead keeps dispatching and looking for timeouts, and a worker that runs
\* finishes what it works on.
PoolFairness ==
  /\ WF_<<poolVars, budget>>(Dequeue)
  /\ WF_<<poolVars, budget>>(CheckTimeouts)
  /\ WF_<<poolVars, budget>>(Tick)
  /\ \A w \in PoolWorkers, t \in Tasks : WF_<<poolVars, budget>>(Succeed(w, t))
=============================================================================
