------------------------ MODULE WorkerPoolProperties ------------------------
(***************************************************************************)
(* What the lead may rely on, whatever order its calls come in.            *)
(***************************************************************************)
EXTENDS WorkerPool

TaskStatuses == {"none", "Queued", "Dispatched", "Acknowledged", "Completed",
                 "Failed", "Cancelled"}
WorkerStatuses == {"Starting", "Healthy", "Degraded", "Unhealthy", "Unresponsive"}

\* Every variable has its type.
PoolTypeOK ==
  /\ queue \in Seq(Tasks)
  /\ inFlight \subseteq Tasks
  /\ taskStatus \in [Tasks -> TaskStatuses]
  /\ since \in [Tasks -> 0 .. AckTimeout + 1 \cup {Off}]
  /\ assignee \in [Tasks -> PoolWorkers \cup {Off}]
  /\ working \in [PoolWorkers -> SUBSET Tasks]
  /\ alive \subseteq PoolWorkers
  /\ health \in [PoolWorkers -> [status : WorkerStatuses, errors : Nat] \cup {Off}]
  /\ silence \in [PoolWorkers -> 0 .. HeartbeatTimeout + 1 \cup {Off}]
  /\ restarts \in [PoolWorkers -> 0 .. MaxRestarts]
  /\ fellSilent \subseteq PoolWorkers

\* A task is in one place, and its status says in which: it waits once in the
\* queue, or is in flight, or in neither; whatever late answers, timeouts,
\* cancellations and resubmissions of failed tasks came before. No more than
\* max_concurrent tasks are in flight.  It rests on callers that submit an id
\* only while it has no status or has failed (Enqueue), which enqueue itself
\* (dispatch.rs:105-107) does not check.
TaskInOnePlace ==
  /\ \A i, j \in 1 .. Len(queue) : queue[i] = queue[j] => i = j
  /\ \A t \in Tasks :
       /\ (\E i \in 1 .. Len(queue) : queue[i] = t) <=> taskStatus[t] = "Queued"
       /\ t \in inFlight <=> taskStatus[t] \in {"Dispatched", "Acknowledged"}
  /\ Cardinality(inFlight) <= MaxConcurrent

\* A timer runs for exactly the tasks that were dispatched and not yet
\* acknowledged: none can be waited for without a timeout, and no timer left
\* over from an earlier dispatch fails a task.
TimersMatch ==
  \A t \in Tasks : since[t] # Off <=> taskStatus[t] = "Dispatched"

\* A worker with too many errors in a row is not given tasks, unless it has
\* been silent in between: a heartbeat makes an unresponsive worker healthy
\* and leaves its errors.
ErrorsKeepWorkAway ==
  \A w \in PoolWorkers :
    health[w] # Off /\ health[w].errors >= UnhealthyThreshold /\ Selectable(w)
      => w \in fellSilent

\* Acknowledged tasks whose worker has gone.
Stuck == {t \in inFlight : /\ taskStatus[t] = "Acknowledged"
                           /\ \A w \in PoolWorkers : t \notin working[w]}

\* As long as tasks acknowledged by workers that died do not hold every place
\* for ever, each task that waits is taken or cancelled: timeouts and answers
\* free the places.
QueueMoves ==
  []<>(Cardinality(Stuck) < MaxConcurrent) =>
    \A t \in Tasks : (taskStatus[t] = "Queued") ~> (taskStatus[t] # "Queued")
=============================================================================
