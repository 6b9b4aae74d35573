----------------------------- MODULE Team_proofs ------------------------------
(***************************************************************************)
(* Proofs about a team, for any workers, agents, tasks, hosts, commands    *)
(* and bounds: about each of the parts that need no module of their own,   *)
(* and last that all seven keep what they promise when their steps are     *)
(* interleaved.                                                            *)
(***************************************************************************)
EXTENDS Team, TeamMailboxes_proofs, Interop_proofs, Catalog_proofs

-----------------------------------------------------------------------------
(* The pool of workers.                                                    *)

\* The limits are numbers, the threshold is not zero, and Off is none of them.
LEMMA Limits ==
  /\ MaxConcurrent \in Nat /\ AckTimeout \in Nat /\ HeartbeatTimeout \in Nat
  /\ UnhealthyThreshold \in Nat /\ UnhealthyThreshold >= 1 /\ MaxRestarts \in Nat
  /\ Off \notin Nat
  BY PoolAssumption DEF PoolAssumption

\* An age that is counted up to a limit stays in its range.
LEMMA OlderType ==
  ASSUME NEW limit \in Nat, NEW age \in 0 .. limit + 1 \cup {Off}
  PROVE  Older(age, limit) \in 0 .. limit + 1 \cup {Off}
  BY DEF Older

\* A queue without its i-th task, as Cancel makes it.
Removed(q, i) == SubSeq(q, 1, i - 1) \o SubSeq(q, i + 1, Len(q))

\* Taking one task out of a queue keeps the others, each where it was or one
\* place earlier.
LEMMA RemovedFacts ==
  ASSUME NEW q \in Seq(Tasks), NEW i \in 1 .. Len(q)
  PROVE  /\ Removed(q, i) \in Seq(Tasks)
         /\ Len(Removed(q, i)) = Len(q) - 1
         /\ \A k \in 1 .. Len(q) - 1 :
              Removed(q, i)[k] = IF k < i THEN q[k] ELSE q[k + 1]
<1> DEFINE a == SubSeq(q, 1, i - 1)
           b == SubSeq(q, i + 1, Len(q))
           r == a \o b
<1>1. a \in Seq(Tasks) /\ Len(a) = i - 1 /\ \A k \in 1 .. i - 1 : a[k] = q[k]
  OBVIOUS
<1>2. /\ b \in Seq(Tasks) /\ Len(b) = Len(q) - i
      /\ \A k \in 1 .. Len(q) - i : b[k] = q[k + i]
  OBVIOUS
<1> HIDE DEF a, b
<1>3. /\ r \in Seq(Tasks) /\ Len(r) = Len(a) + Len(b)
      /\ \A k \in 1 .. Len(a) + Len(b) :
           r[k] = IF k <= Len(a) THEN a[k] ELSE b[k - Len(a)]
  BY <1>1, <1>2, ConcatProperties
<1>4. Removed(q, i) = r
  BY DEF Removed, a, b
<1> HIDE DEF r
<1>5. ASSUME NEW k \in 1 .. Len(q) - 1
      PROVE  r[k] = IF k < i THEN q[k] ELSE q[k + 1]
  <2>1. CASE k < i
    <3>1. k \in 1 .. i - 1 /\ k \in 1 .. Len(a) + Len(b)
      BY <2>1, <1>1, <1>2
    <3>2. a[k] = q[k]
      BY <3>1, <1>1
    <3>3. k <= Len(a)
      BY <3>1, <1>1
    <3>4. r[k] = a[k]
      BY <3>1, <3>3, <1>3
    <3>5. QED BY <2>1, <3>2, <3>4
  <2>2. CASE k >= i
    <3>1. (k - (i - 1)) + i = k + 1 /\ k - (i - 1) \in 1 .. Len(q) - i
      BY <2>2
    <3>2. b[k - (i - 1)] = q[k + 1]
      BY <3>1, <1>2
    <3>3. QED BY <2>2, <3>2, <1>1, <1>2, <1>3
  <2>3. QED BY <2>1, <2>2
<1>6. Len(r) = Len(q) - 1
  BY <1>1, <1>2, <1>3
<1>7. QED BY <1>3, <1>4, <1>5, <1>6

-----------------------------------------------------------------------------
(* Types.                                                                  *)

\* The steps of the queue, of the workers' answers, and of everything else.
QueueStep ==
  \/ Dequeue \/ CheckTimeouts
  \/ \E t \in Tasks : Enqueue(t) \/ Cancel(t)
  \/ \E w \in PoolWorkers, t \in Tasks : Assign(t, w) \/ Acknowledge(w, t)
AnswerStep ==
  \E w \in PoolWorkers, t \in Tasks : Succeed(w, t) \/ GiveUp(w, t)
MonitorStep ==
  \/ CheckHealth \/ Tick
  \/ \E w \in PoolWorkers :
       Start(w) \/ Heartbeat(w) \/ Restart(w) \/ Remove(w) \/ Reset(w) \/ Die(w)

\* The pool starts well typed.
LEMMA TypeInit == PoolInit => PoolTypeOK
<1> SUFFICES ASSUME PoolInit
             PROVE  PoolTypeOK
  OBVIOUS
<1>1. since \in [Tasks -> 0 .. AckTimeout + 1 \cup {Off}]
  BY DEF PoolInit
<1>2. silence \in [PoolWorkers -> 0 .. HeartbeatTimeout + 1 \cup {Off}]
  BY DEF PoolInit
<1>3. restarts \in [PoolWorkers -> 0 .. MaxRestarts]
  BY Limits DEF PoolInit
<1>4. QED BY <1>1, <1>2, <1>3 DEF PoolInit, PoolTypeOK, TaskStatuses, WorkerStatuses

\* Every step of the queue keeps the types.
LEMMA QueueTypes ==
  ASSUME PoolTypeOK, QueueStep
  PROVE  PoolTypeOK'
<1> USE DEF PoolTypeOK, monitor, dispatch, SetStatus, StopTimer
<1>1. ASSUME NEW t \in Tasks, Enqueue(t)
      PROVE  PoolTypeOK'
  BY <1>1 DEF Enqueue, TaskStatuses
<1>2. CASE Dequeue
  <2>1. Head(queue) \in Tasks /\ Tail(queue) \in Seq(Tasks)
    BY <1>2 DEF Dequeue
  <2>2. since' \in [Tasks -> 0 .. AckTimeout + 1 \cup {Off}]
    BY <1>2, Limits DEF Dequeue
  <2>3. queue' \in Seq(Tasks) /\ inFlight' \subseteq Tasks
    BY <1>2, <2>1 DEF Dequeue
  <2>4. taskStatus' \in [Tasks -> TaskStatuses]
    BY <1>2 DEF Dequeue, TaskStatuses
  <2>5. QED BY <1>2, <2>2, <2>3, <2>4 DEF Dequeue
<1>3. ASSUME NEW t \in Tasks, NEW w \in PoolWorkers, Assign(t, w)
      PROVE  PoolTypeOK'
  BY <1>3 DEF Assign
<1>4. ASSUME NEW t \in Tasks, NEW w \in PoolWorkers, Acknowledge(w, t)
      PROVE  PoolTypeOK'
  BY <1>4 DEF Acknowledge, TaskStatuses
<1>5. ASSUME NEW t \in Tasks, Cancel(t)
      PROVE  PoolTypeOK'
  <2>1. queue' \in Seq(Tasks)
    <3>1. ASSUME NEW i \in 1 .. Len(queue), queue' = Removed(queue, i)
          PROVE  queue' \in Seq(Tasks)
      BY <3>1, RemovedFacts
    <3>2. QED BY <1>5, <3>1 DEF Cancel, Removed
  <2>2. since' \in [Tasks -> 0 .. AckTimeout + 1 \cup {Off}] /\ inFlight' \subseteq Tasks
    BY <1>5 DEF Cancel
  <2>3. taskStatus' \in [Tasks -> TaskStatuses]
    BY <1>5 DEF Cancel, TaskStatuses
  <2>4. QED BY <1>5, <2>1, <2>2, <2>3 DEF Cancel
<1>6. CASE CheckTimeouts
  <2>1. taskStatus' \in [Tasks -> TaskStatuses]
    BY <1>6 DEF CheckTimeouts, TaskStatuses
  <2>2. since' \in [Tasks -> 0 .. AckTimeout + 1 \cup {Off}] /\ inFlight' \subseteq Tasks
    BY <1>6 DEF CheckTimeouts
  <2>3. QED BY <1>6, <2>1, <2>2 DEF CheckTimeouts
<1>7. QED BY <1>1, <1>2, <1>3, <1>4, <1>5, <1>6 DEF QueueStep

\* What an answer records of its worker is a record of a worker.
LEMMA RecordTypes ==
  ASSUME NEW h \in [status : WorkerStatuses, errors : Nat]
  PROVE  /\ Success(h) \in [status : WorkerStatuses, errors : Nat]
         /\ Error(h) \in [status : WorkerStatuses, errors : Nat]
  BY DEF Success, Error, WorkerStatuses

\* Every answer of a worker keeps the types.
LEMMA AnswerTypes ==
  ASSUME PoolTypeOK, NEW t \in Tasks, NEW w \in PoolWorkers,
         Succeed(w, t) \/ GiveUp(w, t)
  PROVE  PoolTypeOK'
<1> DEFINE H == [status : WorkerStatuses, errors : Nat]
<1>1. health' \in [PoolWorkers -> H \cup {Off}]
  <2>1. health \in [PoolWorkers -> H \cup {Off}]
    BY DEF PoolTypeOK
  <2>2. CASE Succeed(w, t)
    <3>1. health' = [health EXCEPT ![w] = IF @ = Off THEN Off ELSE Success(@)]
      BY <2>2 DEF Succeed, Record
    <3>2. health[w] # Off => Success(health[w]) \in H
      BY <2>1, RecordTypes
    <3>3. QED BY <2>1, <3>1, <3>2
  <2>3. CASE GiveUp(w, t)
    <3>1. health' = [health EXCEPT ![w] = IF @ = Off THEN Off ELSE Error(@)]
      BY <2>3 DEF GiveUp, Record
    <3>2. health[w] # Off => Error(health[w]) \in H
      BY <2>1, RecordTypes
    <3>3. QED BY <2>1, <3>1, <3>2
  <2>4. QED BY <2>2, <2>3
<1> HIDE DEF H
<1> USE DEF PoolTypeOK, Settle, SetStatus, StopTimer
<1>2. taskStatus' \in [Tasks -> TaskStatuses]
  BY DEF Succeed, GiveUp, TaskStatuses
<1>3. since' \in [Tasks -> 0 .. AckTimeout + 1 \cup {Off}] /\ inFlight' \subseteq Tasks
  BY DEF Succeed, GiveUp
<1>4. QED BY <1>1, <1>2, <1>3 DEF Succeed, GiveUp, H

\* Every step of the monitor, of a worker or of the clock keeps the types.
LEMMA MonitorTypes ==
  ASSUME PoolTypeOK, MonitorStep
  PROVE  PoolTypeOK'
<1> USE DEF PoolTypeOK, monitor, dispatch
<1>1. 0 \in 0 .. HeartbeatTimeout + 1 /\ 0 \in 0 .. MaxRestarts
  BY Limits
<1>2. ASSUME NEW w \in PoolWorkers, Heartbeat(w)
      PROVE  PoolTypeOK'
  <2>1. health' \in [PoolWorkers -> [status : WorkerStatuses, errors : Nat] \cup {Off}]
    BY <1>2 DEF Heartbeat, WorkerStatuses
  <2>2. QED BY <1>1, <1>2, <2>1 DEF Heartbeat
<1>3. CASE CheckHealth
  <2>1. health' \in [PoolWorkers -> [status : WorkerStatuses, errors : Nat] \cup {Off}]
    BY <1>3 DEF CheckHealth, WorkerStatuses, Unresponsive
  <2>2. QED BY <1>3, <2>1 DEF CheckHealth, Unresponsive
<1>4. NewWorker \in [status : WorkerStatuses, errors : Nat]
  BY DEF NewWorker, WorkerStatuses
<1>5. ASSUME NEW w \in PoolWorkers, Start(w)
      PROVE  PoolTypeOK'
  BY <1>1, <1>4, <1>5 DEF Start, Register
<1>6. ASSUME NEW w \in PoolWorkers, Restart(w)
      PROVE  PoolTypeOK'
  <2>1. restarts' \in [PoolWorkers -> 0 .. MaxRestarts]
    BY <1>6, Limits DEF Restart
  <2>2. QED BY <1>1, <1>4, <1>6, <2>1 DEF Restart, Register
<1>7. ASSUME NEW w \in PoolWorkers, Remove(w)
      PROVE  PoolTypeOK'
  BY <1>7 DEF Remove
<1>8. ASSUME NEW w \in PoolWorkers, Reset(w)
      PROVE  PoolTypeOK'
  BY <1>1, <1>8 DEF Reset
<1>9. ASSUME NEW w \in PoolWorkers, Die(w)
      PROVE  PoolTypeOK'
  BY <1>9 DEF Die
<1>10. CASE Tick
  <2>1. since' \in [Tasks -> 0 .. AckTimeout + 1 \cup {Off}]
    BY <1>10, OlderType, Limits DEF Tick
  <2>2. silence' \in [PoolWorkers -> 0 .. HeartbeatTimeout + 1 \cup {Off}]
    BY <1>10, OlderType, Limits DEF Tick
  <2>3. QED BY <1>10, <2>1, <2>2 DEF Tick
<1>11. QED BY <1>2, <1>3, <1>5, <1>6, <1>7, <1>8, <1>9, <1>10 DEF MonitorStep

\* Every step keeps the types.
LEMMA TypeNext == PoolTypeOK /\ [PoolNext]_poolVars => PoolTypeOK'
<1> SUFFICES ASSUME PoolTypeOK, [PoolNext]_poolVars
             PROVE  PoolTypeOK'
  OBVIOUS
<1>1. CASE QueueStep
  BY <1>1, QueueTypes
<1>2. CASE AnswerStep
  BY <1>2, AnswerTypes DEF AnswerStep
<1>3. CASE MonitorStep
  BY <1>3, MonitorTypes
<1>4. CASE UNCHANGED poolVars
  BY <1>4 DEF poolVars, PoolTypeOK
<1>5. PoolNext => QueueStep \/ AnswerStep \/ MonitorStep
  BY DEF PoolNext, QueueStep, AnswerStep, MonitorStep
<1>6. QED BY <1>1, <1>2, <1>3, <1>4, <1>5

\* Every variable has its type in every reachable state.
THEOREM PoolTypeCorrect == PoolSpec => []PoolTypeOK
<1>1. PoolSpec => PoolInit /\ [][PoolNext]_<<poolVars, budget>>
  BY DEF PoolSpec
<1>2. PoolTypeOK /\ [PoolNext]_<<poolVars, budget>> => PoolTypeOK'
  BY TypeNext
<1>3. QED BY <1>1, <1>2, TypeInit, PTL

-----------------------------------------------------------------------------
(* Where a task is.                                                        *)

\* No task is twice in a queue; a task waits in a queue.
Distinct(q) == \A i, j \in 1 .. Len(q) : q[i] = q[j] => i = j
Waits(q, t) == \E i \in 1 .. Len(q) : q[i] = t

\* The part of TaskInOnePlace and of TimersMatch that concerns one task.
Placed(t) ==
  /\ Waits(queue, t) <=> taskStatus[t] = "Queued"
  /\ t \in inFlight <=> taskStatus[t] \in {"Dispatched", "Acknowledged"}
  /\ since[t] # Off <=> taskStatus[t] = "Dispatched"

\* Both properties, task by task: together with the types this is inductive.
PlaceInv ==
  /\ Distinct(queue)
  /\ \A t \in Tasks : Placed(t)
  /\ Cardinality(inFlight) <= MaxConcurrent

\* A queue that a new task joins.
LEMMA AppendPlaces ==
  ASSUME NEW q \in Seq(Tasks), NEW t \in Tasks, Distinct(q), ~ Waits(q, t)
  PROVE  /\ Distinct(Append(q, t))
         /\ \A u \in Tasks : Waits(Append(q, t), u) <=> Waits(q, u) \/ u = t
<1> DEFINE r == Append(q, t)
<1>1. /\ r \in Seq(Tasks) /\ Len(r) = Len(q) + 1 /\ r[Len(q) + 1] = t
      /\ \A i \in 1 .. Len(q) : r[i] = q[i]
  OBVIOUS
<1> HIDE DEF r
<1>2. Distinct(r)
  <2> SUFFICES ASSUME NEW i \in 1 .. Len(q) + 1, NEW j \in 1 .. Len(q) + 1, r[i] = r[j]
               PROVE  i = j
    BY <1>1 DEF Distinct
  <2>1. CASE i \in 1 .. Len(q) /\ j \in 1 .. Len(q)
    BY <2>1, <1>1 DEF Distinct
  <2>2. CASE i = Len(q) + 1 /\ j \in 1 .. Len(q)
    BY <2>2, <1>1 DEF Waits
  <2>3. CASE j = Len(q) + 1 /\ i \in 1 .. Len(q)
    BY <2>3, <1>1 DEF Waits
  <2>4. QED BY <2>1, <2>2, <2>3
<1>3. ASSUME NEW u \in Tasks
      PROVE  Waits(r, u) <=> Waits(q, u) \/ u = t
  BY <1>1 DEF Waits
<1>4. QED BY <1>2, <1>3 DEF r

\* A queue without one of its tasks.
LEMMA RemovedPlaces ==
  ASSUME NEW q \in Seq(Tasks), NEW i \in 1 .. Len(q), Distinct(q)
  PROVE  /\ Distinct(Removed(q, i))
         /\ \A u \in Tasks : Waits(Removed(q, i), u) <=> Waits(q, u) /\ u # q[i]
<1> DEFINE r == Removed(q, i)
           n == Len(q) - 1
<1>1. /\ Len(r) = n
      /\ \A k \in 1 .. n : r[k] = IF k < i THEN q[k] ELSE q[k + 1]
  BY RemovedFacts
<1> HIDE DEF r
<1>2. Distinct(r)
  <2> SUFFICES ASSUME NEW k \in 1 .. n, NEW l \in 1 .. n, r[k] = r[l]
               PROVE  k = l
    BY <1>1 DEF Distinct
  <2> DEFINE old(m) == IF m < i THEN m ELSE m + 1
  <2>1. old(k) \in 1 .. Len(q) /\ old(l) \in 1 .. Len(q)
    OBVIOUS
  <2>2. q[old(k)] = q[old(l)]
    BY <1>1
  <2>3. old(k) = old(l)
    BY <2>1, <2>2 DEF Distinct
  <2>4. QED BY <2>3
<1>3. ASSUME NEW u \in Tasks
      PROVE  Waits(r, u) <=> Waits(q, u) /\ u # q[i]
  <2>1. ASSUME NEW k \in 1 .. n, r[k] = u
        PROVE  Waits(q, u) /\ u # q[i]
    <3> DEFINE o == IF k < i THEN k ELSE k + 1
    <3>1. o \in 1 .. Len(q) /\ o # i /\ q[o] = u
      BY <2>1, <1>1
    <3> HIDE DEF o
    <3>2. QED BY <3>1 DEF Waits, Distinct
  <2>2. ASSUME NEW k \in 1 .. Len(q), q[k] = u, u # q[i]
        PROVE  Waits(r, u)
    <3> DEFINE o == IF k < i THEN k ELSE k - 1
    <3>1. o \in 1 .. n /\ r[o] = u
      BY <2>2, <1>1
    <3> HIDE DEF o
    <3>2. QED BY <3>1, <1>1 DEF Waits
  <2>3. QED BY <2>1, <2>2, <1>1 DEF Waits
<1>4. QED BY <1>2, <1>3 DEF r

\* Taking the first task is taking one.
LEMMA TailPlaces ==
  ASSUME NEW q \in Seq(Tasks), q # <<>>, Distinct(q)
  PROVE  /\ Head(q) \in Tasks /\ Waits(q, Head(q)) /\ Distinct(Tail(q))
         /\ \A u \in Tasks : Waits(Tail(q), u) <=> Waits(q, u) /\ u # Head(q)
<1> DEFINE r == Tail(q)
           n == Len(q) - 1
<1>1. /\ Len(q) >= 1 /\ Head(q) = q[1] /\ q[1] \in Tasks
      /\ Len(r) = n /\ \A k \in 1 .. n : r[k] = q[k + 1]
  OBVIOUS
<1> HIDE DEF r
<1>2. Distinct(r)
  <2> SUFFICES ASSUME NEW k \in 1 .. n, NEW l \in 1 .. n, r[k] = r[l]
               PROVE  k = l
    BY <1>1 DEF Distinct
  <2>1. k + 1 \in 1 .. Len(q) /\ l + 1 \in 1 .. Len(q) /\ q[k + 1] = q[l + 1]
    BY <1>1
  <2>2. QED BY <2>1 DEF Distinct
<1>3. ASSUME NEW u \in Tasks
      PROVE  Waits(r, u) <=> Waits(q, u) /\ u # q[1]
  <2>1. ASSUME NEW k \in 1 .. n, r[k] = u
        PROVE  Waits(q, u) /\ u # q[1]
    <3>1. k + 1 \in 1 .. Len(q) /\ q[k + 1] = u /\ k + 1 # 1
      BY <2>1, <1>1
    <3>2. QED BY <3>1, <1>1 DEF Waits, Distinct
  <2>2. ASSUME NEW k \in 1 .. Len(q), q[k] = u, u # q[1]
        PROVE  Waits(r, u)
    <3>1. k - 1 \in 1 .. n /\ r[k - 1] = u
      BY <2>2, <1>1
    <3>2. QED BY <3>1, <1>1 DEF Waits
  <2>3. QED BY <2>1, <2>2, <1>1 DEF Waits
<1>4. Waits(q, q[1])
  BY <1>1 DEF Waits
<1>5. QED BY <1>1, <1>2, <1>3, <1>4 DEF r

\* The tasks in flight are finitely many; one more counts one more, and fewer
\* count no more.
LEMMA FlightCounts ==
  ASSUME NEW f \in SUBSET Tasks
  PROVE  /\ Cardinality(f) \in Nat
         /\ \A t \in Tasks : t \notin f => Cardinality(f \cup {t}) = Cardinality(f) + 1
         /\ \A g \in SUBSET f : Cardinality(g) \in Nat /\ Cardinality(g) <= Cardinality(f)
<1>1. IsFiniteSet(f)
  BY PoolAssumption, FS_Subset DEF PoolAssumption
<1>2. QED BY <1>1, FS_CardinalityType, FS_AddElement, FS_Subset

\* Nothing is anywhere at first.
LEMMA PlaceInit == PoolInit => PlaceInv
<1> SUFFICES ASSUME PoolInit
             PROVE  PlaceInv
  OBVIOUS
<1>1. Distinct(queue) /\ \A t \in Tasks : ~ Waits(queue, t)
  BY DEF PoolInit, Distinct, Waits
<1>2. Cardinality(inFlight) <= MaxConcurrent
  BY FS_EmptySet, Limits DEF PoolInit
<1>3. QED BY <1>1, <1>2 DEF PoolInit, PlaceInv, Placed

\* A step keeps the invariant if it does so for the task it is about, leaves
\* the other tasks where they are, and sends no task too many into flight.
LEMMA OneTask ==
  ASSUME PoolTypeOK, PlaceInv, NEW t \in Tasks, Distinct(queue)', Placed(t)',
         \A u \in Tasks \ {t} :
           /\ Waits(queue', u) <=> Waits(queue, u)
           /\ u \in inFlight' <=> u \in inFlight
           /\ taskStatus'[u] = taskStatus[u] /\ since'[u] = since[u],
         (Cardinality(inFlight) <= MaxConcurrent)'
  PROVE  PlaceInv'
<1>1. ASSUME NEW u \in Tasks \ {t}
      PROVE  Placed(u)'
  BY DEF PlaceInv, Placed
<1>2. QED BY <1>1 DEF PlaceInv

\* Every step of the queue leaves each task in one place.
LEMMA QueuePlaces ==
  ASSUME PoolTypeOK, PlaceInv, QueueStep
  PROVE  PlaceInv'
<1>1. /\ queue \in Seq(Tasks) /\ inFlight \in SUBSET Tasks /\ Off \notin Nat
      /\ taskStatus \in [Tasks -> TaskStatuses] /\ DOMAIN since = Tasks
      /\ Distinct(queue) /\ \A u \in Tasks : Placed(u)
      /\ Cardinality(inFlight) <= MaxConcurrent
  BY Limits DEF PoolTypeOK, PlaceInv
<1>2. ASSUME NEW t \in Tasks, Enqueue(t)
      PROVE  PlaceInv'
  <2>1. ~ Waits(queue, t) /\ t \notin inFlight /\ since[t] = Off
    BY <1>1, <1>2 DEF Enqueue, Placed
  <2>2. /\ Distinct(queue)'
        /\ \A u \in Tasks : Waits(queue', u) <=> Waits(queue, u) \/ u = t
    BY <1>1, <1>2, <2>1, AppendPlaces DEF Enqueue
  <2>3. Placed(t)'
    BY <1>1, <1>2, <2>1, <2>2 DEF Enqueue, SetStatus, Placed
  <2>4. \A u \in Tasks \ {t} : taskStatus'[u] = taskStatus[u]
    BY <1>1, <1>2 DEF Enqueue, SetStatus
  <2>5. QED BY <1>1, <1>2, <2>2, <2>3, <2>4, OneTask DEF Enqueue
<1>3. CASE Dequeue
  <2>1. PICK t \in Tasks : t = Head(queue)
    BY <1>1, <1>3, TailPlaces DEF Dequeue
  <2>2. /\ Waits(queue, t) /\ Distinct(queue)'
        /\ \A u \in Tasks : Waits(queue', u) <=> Waits(queue, u) /\ u # t
    BY <1>1, <1>3, <2>1, TailPlaces DEF Dequeue
  <2>3. /\ inFlight' = inFlight \cup {t} /\ since' = [since EXCEPT ![t] = 0]
        /\ taskStatus' = [taskStatus EXCEPT ![t] = "Dispatched"]
        /\ ~ (Cardinality(inFlight) >= MaxConcurrent)
    BY <1>3, <2>1 DEF Dequeue, SetStatus, IsFull
  <2>4. t \notin inFlight
    BY <1>1, <2>2 DEF Placed
  <2>5. (Cardinality(inFlight) <= MaxConcurrent)'
    BY <1>1, <2>2, <2>3, <2>4, FlightCounts, Limits
  <2>6. Placed(t)'
    BY <1>1, <2>2, <2>3 DEF Placed
  <2>7. QED BY <1>1, <2>2, <2>3, <2>5, <2>6, OneTask
<1>4. ASSUME NEW t \in Tasks, Cancel(t)
      PROVE  PlaceInv'
  <2>1. taskStatus' = [taskStatus EXCEPT ![t] = "Cancelled"]
    BY <1>4 DEF Cancel, SetStatus
  <2>2. CASE /\ t \in inFlight /\ inFlight' = inFlight \ {t} /\ StopTimer(t)
             /\ UNCHANGED queue
    <3>1. (Cardinality(inFlight) <= MaxConcurrent)'
      BY <1>1, <2>2, FlightCounts, Limits
    <3>2. Placed(t)'
      BY <1>1, <2>1, <2>2 DEF Placed, StopTimer
    <3>3. Distinct(queue)' /\ \A u \in Tasks : Waits(queue', u) <=> Waits(queue, u)
      BY <1>1, <2>2
    <3>4. QED BY <1>1, <2>1, <2>2, <3>1, <3>2, <3>3, OneTask DEF StopTimer
  <2>3. ASSUME NEW i \in 1 .. Len(queue), t \notin inFlight, queue[i] = t,
               queue' = Removed(queue, i), UNCHANGED <<inFlight, since>>
        PROVE  PlaceInv'
    <3>1. /\ Distinct(queue)'
          /\ \A u \in Tasks : Waits(queue', u) <=> Waits(queue, u) /\ u # t
      BY <1>1, <2>3, RemovedPlaces
    <3>2. Waits(queue, t)
      BY <2>3 DEF Waits
    <3>3. Placed(t)'
      BY <1>1, <2>1, <2>3, <3>1, <3>2 DEF Placed
    <3>4. QED BY <1>1, <2>1, <2>3, <3>1, <3>3, OneTask
  <2>4. QED BY <1>4, <2>2, <2>3 DEF Cancel, Removed
<1>5. CASE CheckTimeouts
  <2>1. /\ UNCHANGED queue /\ inFlight' \in SUBSET inFlight
        /\ \A u \in Tasks \ Expired : /\ u \in inFlight' <=> u \in inFlight
                                      /\ since'[u] = since[u]
                                      /\ taskStatus'[u] = taskStatus[u]
    BY <1>5 DEF CheckTimeouts
  <2>2. \A u \in Expired : taskStatus[u] = "Dispatched" /\ u \in inFlight
    BY <1>1 DEF Expired, Placed
  <2>3. \A u \in Expired : /\ u \notin inFlight' /\ since'[u] = Off
                           /\ taskStatus'[u] = "Failed"
    BY <1>5, <2>2 DEF CheckTimeouts, Expired
  <2>4. (Cardinality(inFlight) <= MaxConcurrent)'
    BY <1>1, <2>1, FlightCounts, Limits
  <2>5. ASSUME NEW u \in Tasks
        PROVE  Placed(u)'
    <3>1. CASE u \in Expired
      BY <1>1, <2>1, <2>2, <2>3, <3>1 DEF Placed
    <3>2. CASE u \notin Expired
      BY <1>1, <2>1, <3>2 DEF Placed
    <3>3. QED BY <3>1, <3>2
  <2>6. QED BY <1>1, <2>1, <2>4, <2>5 DEF PlaceInv
<1>6. ASSUME NEW t \in Tasks, NEW w \in PoolWorkers, Assign(t, w)
      PROVE  PlaceInv'
  BY <1>6 DEF Assign, PlaceInv, Placed
<1>7. ASSUME NEW t \in Tasks, NEW w \in PoolWorkers, Acknowledge(w, t)
      PROVE  PlaceInv'
  <2>1. taskStatus' = [taskStatus EXCEPT ![t] = "Acknowledged"]
        /\ since' = [since EXCEPT ![t] = Off] /\ UNCHANGED <<queue, inFlight>>
        /\ t \in inFlight
    BY <1>7 DEF Acknowledge, SetStatus, StopTimer
  <2>2. Placed(t)'
    BY <1>1, <2>1 DEF Placed
  <2>3. QED BY <1>1, <2>1, <2>2, OneTask
<1>8. QED BY <1>2, <1>3, <1>4, <1>5, <1>6, <1>7 DEF QueueStep

\* Every answer, late or not, leaves each task in one place.
LEMMA AnswerPlaces ==
  ASSUME PoolTypeOK, PlaceInv, AnswerStep
  PROVE  PlaceInv'
<1>1. /\ inFlight \in SUBSET Tasks /\ DOMAIN since = Tasks
      /\ taskStatus \in [Tasks -> TaskStatuses]
      /\ Distinct(queue) /\ \A u \in Tasks : Placed(u)
      /\ Cardinality(inFlight) <= MaxConcurrent
  BY DEF PoolTypeOK, PlaceInv
<1>2. PICK t \in Tasks, s \in {"Completed", "Failed"} : Settle(t, s)
  BY DEF AnswerStep, Succeed, GiveUp
<1>3. CASE t \in inFlight
  <2>1. /\ inFlight' = inFlight \ {t} /\ taskStatus' = [taskStatus EXCEPT ![t] = s]
        /\ since' = [since EXCEPT ![t] = Off] /\ UNCHANGED queue
    BY <1>2, <1>3 DEF Settle, SetStatus, StopTimer
  <2>2. (Cardinality(inFlight) <= MaxConcurrent)'
    BY <1>1, <2>1, FlightCounts, Limits
  <2>3. Placed(t)'
    BY <1>1, <1>3, <2>1 DEF Placed
  <2>4. QED BY <1>1, <2>1, <2>2, <2>3, OneTask
<1>4. CASE t \notin inFlight
  BY <1>2, <1>4 DEF Settle, PlaceInv, Placed
<1>5. QED BY <1>3, <1>4

\* Nothing else moves a task, though time makes its timer older.
LEMMA MonitorPlaces ==
  ASSUME PoolTypeOK, PlaceInv, MonitorStep \/ UNCHANGED poolVars
  PROVE  PlaceInv'
<1>1. /\ UNCHANGED <<queue, inFlight, taskStatus>>
      /\ \A t \in Tasks : since'[t] = Off <=> since[t] = Off
  <2>1. CASE Tick
    <3>1. \A t \in Tasks : since'[t] = Off <=> since[t] = Off
      <4> SUFFICES ASSUME NEW t \in Tasks
                   PROVE  since'[t] = Off <=> since[t] = Off
        OBVIOUS
      <4>1. since[t] \in Nat \/ since[t] = Off
        BY Limits DEF PoolTypeOK
      <4>2. since'[t] = Older(since[t], AckTimeout)
        BY <2>1 DEF Tick
      <4>3. QED BY <4>1, <4>2, Limits DEF Older
    <3>2. QED BY <2>1, <3>1 DEF Tick
  <2>2. CASE ~ Tick
    <3>1. UNCHANGED dispatch
      BY <2>2 DEF MonitorStep, CheckHealth, Start, Heartbeat, Restart, Remove, Reset,
                  Die, poolVars, dispatch
    <3>2. QED BY <3>1 DEF dispatch
  <2>3. QED BY <2>1, <2>2
<1>2. QED BY <1>1 DEF PlaceInv, Placed

LEMMA PlaceNext == PoolTypeOK /\ PlaceInv /\ [PoolNext]_poolVars => PlaceInv'
  BY QueuePlaces, AnswerPlaces, MonitorPlaces
     DEF PoolNext, QueueStep, AnswerStep, MonitorStep

\* Each task is in one place, with the timer that belongs there, in every
\* reachable state.
LEMMA PlaceCorrect == PoolSpec => []PlaceInv
<1>1. PoolTypeOK /\ PlaceInv /\ [PoolNext]_<<poolVars, budget>> => PlaceInv'
  BY PlaceNext
<1>2. PoolSpec => PoolInit /\ [][PoolNext]_<<poolVars, budget>>
  BY DEF PoolSpec
<1>3. QED BY <1>1, <1>2, PlaceInit, PoolTypeCorrect, PTL

LEMMA PlaceSays == PlaceInv => TaskInOnePlace /\ TimersMatch
  BY DEF PlaceInv, Placed, Distinct, Waits, TaskInOnePlace, TimersMatch

\* A task is in one place, and its status says in which; no more tasks are in
\* flight than may be; for callers that submit an id only while it has no status
\* or has failed.
THEOREM WorkInOnePlace == PoolSpec => []TaskInOnePlace
<1>1. QED BY PlaceSays, PlaceCorrect, PTL

\* A timer runs for exactly the tasks dispatched and not acknowledged.
THEOREM Timers == PoolSpec => []TimersMatch
<1>1. QED BY PlaceSays, PlaceCorrect, PTL

-----------------------------------------------------------------------------
(* Which workers are given tasks.                                          *)

\* A record of a worker explains itself: too many errors in a row made it
\* unhealthy unless it fell silent, and it fell silent if it is unresponsive.
Explained(w, h, silent) ==
  h # Off =>
    /\ h.errors >= UnhealthyThreshold /\ h.status # "Unhealthy" => w \in silent
    /\ h.status = "Unresponsive" => w \in silent

\* ErrorsKeepWorkAway made inductive: it must also speak of the workers that
\* are unresponsive now, for a heartbeat makes those healthy.
ErrorInv == \A w \in PoolWorkers : Explained(w, health[w], fellSilent)

\* An answer leaves a record that explains itself.
LEMMA RecordExplained ==
  ASSUME NEW h \in [status : WorkerStatuses, errors : Nat],
         NEW w, NEW silent, Explained(w, h, silent), h # Off
  PROVE  Explained(w, Success(h), silent) /\ Explained(w, Error(h), silent)
<1>1. Explained(w, Success(h), silent)
  BY Limits DEF Explained, Success, WorkerStatuses
<1>2. Explained(w, Error(h), silent)
  BY Limits DEF Explained, Error, WorkerStatuses
<1>3. QED BY <1>1, <1>2

\* Every step keeps the records explained.
LEMMA ErrorNext ==
  PoolTypeOK /\ ErrorInv /\ [PoolNext]_poolVars => ErrorInv'
<1> SUFFICES ASSUME PoolTypeOK, ErrorInv, [PoolNext]_poolVars,
                    NEW v \in PoolWorkers
             PROVE  Explained(v, health'[v], fellSilent')
  BY DEF ErrorInv
<1>1. /\ Explained(v, health[v], fellSilent)
      /\ health \in [PoolWorkers -> [status : WorkerStatuses, errors : Nat] \cup {Off}]
  BY DEF ErrorInv, PoolTypeOK
<1>2. CASE AnswerStep
  <2>1. PICK w \in PoolWorkers :
          /\ UNCHANGED fellSilent
          /\ \/ health' = [health EXCEPT ![w] = IF @ = Off THEN Off ELSE Success(@)]
             \/ health' = [health EXCEPT ![w] = IF @ = Off THEN Off ELSE Error(@)]
    BY <1>2 DEF AnswerStep, Succeed, GiveUp, Record
  <2>2. CASE v = w /\ health[w] # Off
    <3>1. health[v] \in [status : WorkerStatuses, errors : Nat]
      BY <1>1, <2>2
    <3>2. /\ Explained(v, Success(health[v]), fellSilent)
          /\ Explained(v, Error(health[v]), fellSilent)
      BY <1>1, <2>2, <3>1, RecordExplained
    <3>3. health'[v] = Success(health[v]) \/ health'[v] = Error(health[v])
      BY <1>1, <2>1, <2>2
    <3>4. QED BY <2>1, <3>2, <3>3
  <2>3. CASE ~ (v = w /\ health[w] # Off)
    <3>1. health'[v] = health[v]
      BY <1>1, <2>1, <2>3
    <3>2. QED BY <1>1, <2>1, <3>1
  <2>4. QED BY <2>2, <2>3
<1>3. ASSUME NEW w \in PoolWorkers, Heartbeat(w)
      PROVE  Explained(v, health'[v], fellSilent')
  <2>1. /\ UNCHANGED fellSilent
        /\ health' = [health EXCEPT ![w] =
             IF @ # Off /\ @.status \in {"Starting", "Unresponsive"}
             THEN [@ EXCEPT !.status = "Healthy"] ELSE @]
    BY <1>3 DEF Heartbeat
  <2>2. CASE v = w /\ health[v] # Off /\ health[v].status \in {"Starting", "Unresponsive"}
    <3>1. health'[v] = [health[v] EXCEPT !.status = "Healthy"]
      BY <1>1, <2>1, <2>2
    <3>2. health[v] \in [status : WorkerStatuses, errors : Nat]
      BY <1>1, <2>2
    <3>3. health'[v].status = "Healthy" /\ health'[v].errors = health[v].errors
      BY <3>1, <3>2
    <3>4. QED BY <1>1, <2>1, <2>2, <3>3 DEF Explained
  <2>3. CASE ~ (v = w /\ health[v] # Off /\ health[v].status \in {"Starting", "Unresponsive"})
    <3>1. health'[v] = health[v]
      BY <1>1, <2>1, <2>3
    <3>2. QED BY <1>1, <2>1, <3>1
  <2>4. QED BY <2>2, <2>3
<1>4. CASE CheckHealth
  <2>1. CASE v \in Unresponsive
    BY <1>4, <2>1 DEF CheckHealth, Explained
  <2>2. CASE v \notin Unresponsive
    <3>1. health'[v] = health[v] /\ (v \in fellSilent' <=> v \in fellSilent)
      BY <1>4, <2>2 DEF CheckHealth
    <3>2. QED BY <1>1, <3>1 DEF Explained
  <2>3. QED BY <2>1, <2>2
<1>5. ASSUME NEW w \in PoolWorkers, Register(w)
      PROVE  Explained(v, health'[v], fellSilent')
  <2>1. CASE v = w
    <3>1. health'[v] = NewWorker
      BY <1>1, <1>5, <2>1 DEF Register
    <3>2. QED BY <3>1, Limits DEF NewWorker, Explained
  <2>2. CASE v # w
    <3>1. health'[v] = health[v] /\ (v \in fellSilent' <=> v \in fellSilent)
      BY <1>1, <1>5, <2>2 DEF Register
    <3>2. QED BY <1>1, <3>1 DEF Explained
  <2>3. QED BY <2>1, <2>2
<1>6. ASSUME NEW w \in PoolWorkers, Remove(w)
      PROVE  Explained(v, health'[v], fellSilent')
  <2>1. CASE v = w
    BY <1>1, <1>6, <2>1 DEF Remove, Explained
  <2>2. CASE v # w
    <3>1. health'[v] = health[v] /\ (v \in fellSilent' <=> v \in fellSilent)
      BY <1>1, <1>6, <2>2 DEF Remove
    <3>2. QED BY <1>1, <3>1 DEF Explained
  <2>3. QED BY <2>1, <2>2
<1>7. CASE UNCHANGED <<health, fellSilent>>
  BY <1>1, <1>7
<1>8. QueueStep => UNCHANGED <<health, fellSilent>>
  BY DEF QueueStep, Dequeue, CheckTimeouts, Enqueue, Cancel, Assign, Acknowledge, monitor
<1>9. \A w \in PoolWorkers : Start(w) \/ Restart(w) => Register(w)
  BY DEF Start, Restart
<1>10. Tick \/ (\E w \in PoolWorkers : Reset(w) \/ Die(w)) => UNCHANGED <<health, fellSilent>>
  BY DEF Tick, Reset, Die, monitor
<1>11. CASE UNCHANGED poolVars
  BY <1>7, <1>11 DEF poolVars
<1>12. QED
  BY <1>2, <1>3, <1>4, <1>5, <1>6, <1>7, <1>8, <1>9, <1>10, <1>11
     DEF PoolNext, QueueStep, AnswerStep

LEMMA ErrorInit == PoolInit => ErrorInv
  BY DEF PoolInit, ErrorInv, Explained

LEMMA ErrorSays == ErrorInv => ErrorsKeepWorkAway
  BY DEF ErrorInv, Explained, ErrorsKeepWorkAway, Selectable

\* A worker with too many errors in a row is selected only if it fell silent.
THEOREM ErrorsKeep == PoolSpec => []ErrorsKeepWorkAway
<1>1. PoolInit => ErrorInv
  BY ErrorInit
<1>2. PoolTypeOK /\ ErrorInv /\ [PoolNext]_<<poolVars, budget>> => ErrorInv'
  BY ErrorNext
<1>3. PoolSpec => PoolInit /\ [][PoolNext]_<<poolVars, budget>>
  BY DEF PoolSpec
<1>4. QED BY <1>1, <1>2, <1>3, ErrorSays, PoolTypeCorrect, PTL

-----------------------------------------------------------------------------
(* The recovery of failed agents.                                          *)

(* Round-robin.                                                            *)

\* The quotient that Share takes as a length bounds exactly the i whose i-th
\* task from k on, in steps of n, is there.
LEMMA ShareLength ==
  ASSUME NEW len \in Nat, NEW n \in Nat \ {0}, NEW k \in 1 .. n
  PROVE  /\ (len - k + n) \div n \in Nat
         /\ \A i \in Nat \ {0} : i <= (len - k + n) \div n <=> k + (i - 1) * n <= len
<1> DEFINE x == len - k + n
           q == x \div n
           r == x % n
<1>1. x \in Nat
  OBVIOUS
<1>2. q \in Int /\ r \in 0 .. n - 1 /\ x = n * q + r
  BY <1>1
<1>3. q \in Nat
  <2>1. CASE q < 0
    <3>1. n * q <= - n
      BY <1>2, <2>1
    <3>2. QED BY <1>1, <1>2, <3>1
  <2>2. QED BY <1>2, <2>1
<1> HIDE DEF q, r
<1>4. ASSUME NEW i \in Nat \ {0}
      PROVE  i <= q <=> k + (i - 1) * n <= len
  <2>1. (i - 1) * n = i * n - n /\ i * n \in Int
    OBVIOUS
  <2>2. k + (i - 1) * n <= len <=> i * n <= n * q + r
    BY <1>2, <2>1
  <2>3. ASSUME i <= q PROVE i * n <= n * q + r
    <3>1. i * n <= q * n
      BY <1>3, <2>3
    <3>2. QED BY <1>2, <1>3, <3>1
  <2>4. ASSUME i > q PROVE i * n > n * q + r
    <3>1. PICK d \in Nat : i = q + 1 + d
      <4>1. i - q - 1 \in Nat
        BY <1>3, <2>4
      <4>2. QED BY <1>3, <4>1
    <3>2. i * n = q * n + n + d * n /\ d * n >= 0
      BY <1>3, <3>1
    <3>3. QED BY <1>2, <1>3, <3>2
  <2>5. QED BY <1>2, <1>3, <2>2, <2>3, <2>4
<1>5. QED BY <1>3, <1>4 DEF q

\* Every position is some recipient's, as one of its share.
LEMMA ShareCovers ==
  ASSUME NEW len \in Nat, NEW n \in Nat \ {0}, NEW p \in 1 .. len
  PROVE  \E k \in 1 .. n, i \in Nat \ {0} : p = k + (i - 1) * n
<1> DEFINE q == (p - 1) \div n
           r == (p - 1) % n
<1>1. q \in Int /\ r \in 0 .. n - 1 /\ p - 1 = n * q + r
  OBVIOUS
<1>2. q >= 0
  <2>1. CASE q < 0
    <3>1. n * q <= - n
      BY <1>1, <2>1
    <3>2. QED BY <1>1, <3>1
  <2>2. QED BY <1>1, <2>1
<1> HIDE DEF q, r
<1>3. r + 1 \in 1 .. n /\ q + 1 \in Nat \ {0} /\ p = (r + 1) + ((q + 1) - 1) * n
  BY <1>1, <1>2
<1>4. QED BY <1>3

\* No two shares have a position in common.
LEMMA ShareDisjoint ==
  ASSUME NEW n \in Nat \ {0}, NEW k \in 1 .. n, NEW l \in 1 .. n,
         NEW i \in Nat \ {0}, NEW j \in Nat \ {0},
         k + (i - 1) * n = l + (j - 1) * n
  PROVE  k = l /\ i = j
<1>1. CASE i = j
  BY <1>1
<1>2. ASSUME NEW x \in Nat \ {0}, NEW y \in Nat \ {0}, NEW v \in 1 .. n, NEW w \in 1 .. n,
             x < y
      PROVE  v + (x - 1) * n < w + (y - 1) * n
  <2>1. PICK d \in Nat : y = x + 1 + d
    <3>1. y - x - 1 \in Nat
      BY <1>2
    <3>2. QED BY <3>1
  <2>2. (y - 1) * n = (x - 1) * n + n + d * n /\ d * n >= 0
    BY <2>1
  <2>3. (x - 1) * n \in Int /\ d * n \in Int
    OBVIOUS
  <2>4. QED BY <2>2, <2>3
<1>3. CASE i < j
  BY <1>2, <1>3
<1>4. CASE j < i
  BY <1>2, <1>4
<1>5. QED BY <1>1, <1>3, <1>4

\* The position of the i-th task of the k-th of n recipients.
Dealt(k, i, n) == k + (i - 1) * n

LEMMA ShareFacts ==
  ASSUME NEW s \in Seq(Jobs), NEW n \in Nat \ {0}, NEW k \in 1 .. n
  PROVE  /\ Share(s, k, n) \in Seq(Jobs)
         /\ \A i \in Nat \ {0} : i \in 1 .. Len(Share(s, k, n)) <=> Dealt(k, i, n) <= Len(s)
         /\ \A i \in 1 .. Len(Share(s, k, n)) :
              Dealt(k, i, n) \in 1 .. Len(s) /\ Share(s, k, n)[i] = s[Dealt(k, i, n)]
<1> DEFINE m == (Len(s) - k + n) \div n
<1>1. Len(s) \in Nat
  OBVIOUS
<1>2. m \in Nat /\ \A i \in Nat \ {0} : i <= m <=> k + (i - 1) * n <= Len(s)
  BY <1>1, ShareLength
<1>3. Share(s, k, n) = [i \in 1 .. m |-> s[k + (i - 1) * n]]
  BY DEF Share
<1> HIDE DEF m
<1>4. \A i \in 1 .. m : k + (i - 1) * n \in 1 .. Len(s)
  <2>1. ASSUME NEW i \in 1 .. m PROVE k + (i - 1) * n \in 1 .. Len(s)
    <3>1. k + (i - 1) * n <= Len(s)
      BY <1>2
    <3>2. (i - 1) * n \in Nat
      <4>1. i - 1 \in Nat
        BY <1>2
      <4>2. QED BY <4>1
    <3>3. QED BY <1>1, <3>1, <3>2
  <2>2. QED BY <2>1
<1>5. \A i \in 1 .. m : s[k + (i - 1) * n] \in Jobs
  BY <1>4
<1>6. Share(s, k, n) \in Seq(Jobs) /\ Len(Share(s, k, n)) = m
  <2>1. Share(s, k, n) \in [1 .. m -> Jobs]
    BY <1>3, <1>5
  <2>2. Share(s, k, n) \in Seq(Jobs) /\ DOMAIN Share(s, k, n) = 1 .. m
    BY <1>2, <2>1, SeqDef
  <2>3. Len(Share(s, k, n)) \in Nat /\ DOMAIN Share(s, k, n) = 1 .. Len(Share(s, k, n))
    BY <2>2, LenProperties
  <2>4. ASSUME NEW x \in Nat, NEW y \in Nat, 1 .. x = 1 .. y PROVE ~ x < y
    <3>1. x < y => y \in 1 .. y /\ y \notin 1 .. x
      OBVIOUS
    <3>2. QED BY <2>4, <3>1
  <2>5. QED BY <1>2, <2>2, <2>3, <2>4
<1>7. \A i \in 1 .. m : Share(s, k, n)[i] = s[k + (i - 1) * n]
  BY <1>3
<1>8. \A i \in Nat \ {0} : i \in 1 .. m <=> k + (i - 1) * n <= Len(s)
  <2>1. \A i \in Nat \ {0} : i \in 1 .. m <=> i <= m
    BY <1>2
  <2>2. QED BY <1>2, <2>1
<1>9. QED BY <1>4, <1>6, <1>7, <1>8 DEF Dealt

LEMMA DealtCovers ==
  ASSUME NEW len \in Nat, NEW n \in Nat \ {0}, NEW p \in 1 .. len
  PROVE  \E k \in 1 .. n, i \in Nat \ {0} : p = Dealt(k, i, n)
  BY ShareCovers DEF Dealt

LEMMA DealtDisjoint ==
  ASSUME NEW n \in Nat \ {0}, NEW k \in 1 .. n, NEW l \in 1 .. n,
         NEW i \in Nat \ {0}, NEW j \in Nat \ {0}, Dealt(k, i, n) = Dealt(l, j, n)
  PROVE  k = l /\ i = j
  BY ShareDisjoint DEF Dealt

\* Places for all recipients are a numbering of them.
LEMMA Numbering ==
  ASSUME NEW R, IsFiniteSet(R), NEW place \in [R -> 1 .. Cardinality(R)],
         \A x, y \in R : x # y => place[x] # place[y]
  PROVE  \A k \in 1 .. Cardinality(R) : \E x \in R : place[x] = k
<1> DEFINE n == Cardinality(R)
<1>1. n \in Nat
  BY FS_CardinalityType
<1>2. place \in Injection(R, 1 .. n)
  BY DEF Injection, IsInjective
<1>3. IsFiniteSet(1 .. n) /\ Cardinality(1 .. n) = n
  BY <1>1, FS_Interval
<1>4. place \in Surjection(R, 1 .. n)
  BY <1>2, <1>3, FS_Injection
<1>5. QED BY <1>4 DEF Surjection

-----------------------------------------------------------------------------
(* The lists.                                                              *)

Slots(lists, a) == 1 .. Len(lists[a])
Entry(lists, a, i) == lists[a][i]

\* The three parts of the invariant that are about the lists alone.
Each(lists, jobs) ==
  \A j \in jobs : \E a \in Agents : \E i \in Slots(lists, a) : Entry(lists, a, i) = j
Once(lists) ==
  \A a, b \in Agents : \A i \in Slots(lists, a), k \in Slots(lists, b) :
    Entry(lists, a, i) = Entry(lists, b, k) => a = b /\ i = k
Within(lists, jobs) ==
  \A a \in Agents : \A i \in Slots(lists, a) : Entry(lists, a, i) \in jobs
Listed(lists, jobs) == Each(lists, jobs) /\ Once(lists) /\ Within(lists, jobs)

\* The entries of new come from those of old, each from one and each once.
Comes(new, old, who, place) ==
  \A a \in Agents : \A i \in Slots(new, a) :
    /\ Entry(who, a, i) \in Agents
    /\ Entry(place, a, i) \in Slots(old, Entry(who, a, i))
    /\ Entry(new, a, i) = Entry(old, Entry(who, a, i), Entry(place, a, i))
Apart(new, who, place) ==
  \A a, b \in Agents : \A i \in Slots(new, a), k \in Slots(new, b) :
    Entry(who, a, i) = Entry(who, b, k) /\ Entry(place, a, i) = Entry(place, b, k)
      => a = b /\ i = k
Goes(new, old, who, place) ==
  \A b \in Agents : \A k \in Slots(old, b) : \E a \in Agents : \E i \in Slots(new, a) :
    Entry(who, a, i) = b /\ Entry(place, a, i) = k

\* Then they are as well listed as those.
LEMMA Rearranged ==
  ASSUME NEW old, NEW new, NEW jobs, NEW who, NEW place,
         Listed(old, jobs), Comes(new, old, who, place), Apart(new, who, place),
         Goes(new, old, who, place)
  PROVE  Listed(new, jobs)
<1>1. Within(new, jobs)
  BY Zenon DEF Listed, Within, Comes
<1>2. Once(new)
  <2>1. ASSUME NEW a \in Agents, NEW b \in Agents, NEW i \in Slots(new, a),
               NEW k \in Slots(new, b), Entry(new, a, i) = Entry(new, b, k)
        PROVE  a = b /\ i = k
    <3>1. /\ Entry(who, a, i) \in Agents
          /\ Entry(place, a, i) \in Slots(old, Entry(who, a, i))
          /\ Entry(new, a, i) = Entry(old, Entry(who, a, i), Entry(place, a, i))
      BY Zenon DEF Comes
    <3>2. /\ Entry(who, b, k) \in Agents
          /\ Entry(place, b, k) \in Slots(old, Entry(who, b, k))
          /\ Entry(new, b, k) = Entry(old, Entry(who, b, k), Entry(place, b, k))
      BY Zenon DEF Comes
    <3>3. Once(old)
      BY DEF Listed
    <3>4. Entry(who, a, i) = Entry(who, b, k) /\ Entry(place, a, i) = Entry(place, b, k)
      <4>1. Entry(old, Entry(who, a, i), Entry(place, a, i))
              = Entry(old, Entry(who, b, k), Entry(place, b, k))
        BY <2>1, <3>1, <3>2
      <4>2. QED BY <3>1, <3>2, <3>3, <4>1 DEF Once
    <3>5. QED BY <3>4 DEF Apart
  <2>2. QED BY <2>1 DEF Once
<1>3. Each(new, jobs)
  <2>1. ASSUME NEW j \in jobs
        PROVE  \E a \in Agents : \E i \in Slots(new, a) : Entry(new, a, i) = j
    <3>1. PICK b \in Agents : \E k \in Slots(old, b) : Entry(old, b, k) = j
      BY DEF Listed, Each
    <3>2. PICK k \in Slots(old, b) : Entry(old, b, k) = j
      BY <3>1
    <3>3. PICK a \in Agents : \E i \in Slots(new, a) :
            Entry(who, a, i) = b /\ Entry(place, a, i) = k
      BY Zenon DEF Goes
    <3>4. PICK i \in Slots(new, a) : Entry(who, a, i) = b /\ Entry(place, a, i) = k
      BY <3>3
    <3>5. Entry(new, a, i) = Entry(old, Entry(who, a, i), Entry(place, a, i))
      BY Zenon DEF Comes
    <3>6. QED BY <3>2, <3>4, <3>5, Zenon
  <2>2. QED BY <2>1 DEF Each
<1>4. QED BY <1>1, <1>2, <1>3 DEF Listed

\* The lists after round-robin of those of a over n recipients.
Shared(old, a, R, place) ==
  [x \in Agents |->
     IF x = a THEN <<>>
     ELSE IF x \in R THEN old[x] \o Share(old[a], place[x], Cardinality(R))
     ELSE old[x]]

LEMMA SharedFacts ==
  ASSUME NEW old \in [Agents -> Seq(Jobs)], NEW a \in Agents, NEW R \in SUBSET Agents,
         a \notin R, R # {}, NEW place \in [R -> 1 .. Cardinality(R)],
         Cardinality(R) \in Nat \ {0}
  PROVE  LET n == Cardinality(R)
             new == Shared(old, a, R, place)
         IN  /\ new \in [Agents -> Seq(Jobs)]
             /\ new[a] = <<>>
             /\ \A x \in Agents \ (R \cup {a}) : new[x] = old[x]
             /\ \A x \in R :
                  /\ Len(new[x]) = Len(old[x]) + Len(Share(old[a], place[x], n))
                  /\ \A i \in 1 .. Len(old[x]) : new[x][i] = old[x][i]
                  /\ \A i \in 1 .. Len(Share(old[a], place[x], n)) :
                       /\ new[x][Len(old[x]) + i] = old[a][Dealt(place[x], i, n)]
                       /\ Dealt(place[x], i, n) \in 1 .. Len(old[a])
<1> DEFINE n == Cardinality(R)
           new == Shared(old, a, R, place)
<1>1. ASSUME NEW x \in R
      PROVE  /\ new[x] \in Seq(Jobs)
             /\ Len(new[x]) = Len(old[x]) + Len(Share(old[a], place[x], n))
             /\ \A i \in 1 .. Len(old[x]) : new[x][i] = old[x][i]
             /\ \A i \in 1 .. Len(Share(old[a], place[x], n)) :
                  /\ new[x][Len(old[x]) + i] = old[a][Dealt(place[x], i, n)]
                  /\ Dealt(place[x], i, n) \in 1 .. Len(old[a])
  <2> DEFINE s == old[x]
             t == Share(old[a], place[x], n)
  <2>1. new[x] = s \o t
    BY DEF Shared
  <2>2. /\ s \in Seq(Jobs) /\ t \in Seq(Jobs)
        /\ \A i \in 1 .. Len(t) :
             Dealt(place[x], i, n) \in 1 .. Len(old[a]) /\ t[i] = old[a][Dealt(place[x], i, n)]
    BY ShareFacts
  <2> HIDE DEF s, t, new
  <2>3. /\ s \o t \in Seq(Jobs) /\ Len(s \o t) = Len(s) + Len(t)
        /\ Len(s) \in Nat /\ Len(t) \in Nat
        /\ \A i \in 1 .. Len(s) + Len(t) :
             (s \o t)[i] = IF i <= Len(s) THEN s[i] ELSE t[i - Len(s)]
    BY <2>2, ConcatProperties, LenProperties
  <2>4. \A i \in 1 .. Len(s) : (s \o t)[i] = s[i]
    BY <2>3
  <2>5. \A i \in 1 .. Len(t) : (s \o t)[Len(s) + i] = t[i]
    BY <2>3
  <2>6. QED BY <2>1, <2>2, <2>3, <2>4, <2>5 DEF s, t
<1>2. new[a] = <<>> /\ \A x \in Agents \ (R \cup {a}) : new[x] = old[x]
  BY DEF Shared
<1>3. new \in [Agents -> Seq(Jobs)]
  <2>1. \A x \in Agents : new[x] \in Seq(Jobs)
    <3>1. <<>> \in Seq(Jobs)
      OBVIOUS
    <3> HIDE DEF new
    <3>2. QED BY <1>1, <1>2, <3>1
  <2>2. new = [x \in Agents |-> new[x]]
    BY DEF Shared
  <2> HIDE DEF new
  <2>3. QED BY <2>1, <2>2
<1> HIDE DEF new
<1>4. QED BY <1>1, <1>2, <1>3 DEF new

\* Round-robin keeps every task in one list, once.
LEMMA SharedListed ==
  ASSUME NEW old \in [Agents -> Seq(Jobs)], NEW a \in Agents, NEW R \in SUBSET Agents,
         a \notin R, R # {}, IsFiniteSet(R), NEW place \in [R -> 1 .. Cardinality(R)],
         \A x, y \in R : x # y => place[x] # place[y],
         NEW jobs, Listed(old, jobs)
  PROVE  LET new == Shared(old, a, R, place)
         IN  /\ Listed(new, jobs)
             /\ new \in [Agents -> Seq(Jobs)]
<1> DEFINE n == Cardinality(R)
           new == Shared(old, a, R, place)
           length(x) == Len(old[x])
           share(x) == Len(Share(old[a], place[x], n))
           who == [x \in Agents |-> [i \in 1 .. Len(new[x]) |->
                     IF i <= length(x) THEN x ELSE a]]
           from == [x \in Agents |-> [i \in 1 .. Len(new[x]) |->
                      IF i <= length(x) THEN i ELSE Dealt(place[x], i - length(x), n)]]
<1>1. n \in Nat \ {0}
  BY FS_CardinalityType, FS_EmptySet
<1>2. /\ new \in [Agents -> Seq(Jobs)]
      /\ new[a] = <<>>
      /\ \A x \in Agents \ (R \cup {a}) : new[x] = old[x]
      /\ \A x \in R :
           /\ Len(new[x]) = length(x) + share(x)
           /\ \A i \in 1 .. length(x) : new[x][i] = old[x][i]
           /\ \A i \in 1 .. share(x) :
                /\ new[x][length(x) + i] = old[a][Dealt(place[x], i, n)]
                /\ Dealt(place[x], i, n) \in 1 .. Len(old[a])
  BY <1>1, SharedFacts
<1>3. \A x \in Agents : length(x) \in Nat /\ Len(new[x]) \in Nat
  <2> HIDE DEF new
  <2>1. QED BY <1>2, LenProperties
<1>4. \A x \in R : share(x) \in Nat /\ place[x] \in 1 .. n
  BY <1>1, ShareFacts, LenProperties
<1>5. /\ \A x \in Agents : \A i \in 1 .. Len(new[x]) :
           /\ who[x][i] = IF i <= length(x) THEN x ELSE a
           /\ from[x][i] = IF i <= length(x) THEN i ELSE Dealt(place[x], i - length(x), n)
  OBVIOUS
<1> HIDE DEF new, length, share, who, from, n
\* A slot of new is an old one of the same agent, or one of a's.
<1>6. ASSUME NEW x \in Agents, NEW i \in 1 .. Len(new[x])
      PROVE  /\ x # a
             /\ \/ /\ i \in 1 .. length(x) /\ new[x][i] = old[x][i]
                   /\ who[x][i] = x /\ from[x][i] = i
                \/ /\ x \in R /\ i - length(x) \in 1 .. share(x)
                   /\ from[x][i] = Dealt(place[x], i - length(x), n)
                   /\ from[x][i] \in 1 .. length(a)
                   /\ who[x][i] = a /\ new[x][i] = old[a][from[x][i]]
  <2>1. x # a
    <3>1. Len(<<>>) = 0
      OBVIOUS
    <3>2. QED BY <1>2, <1>6, <3>1
  <2>2. CASE i <= length(x)
    <3>1. i \in 1 .. length(x)
      BY <1>3, <2>2
    <3>2. new[x][i] = old[x][i]
      <4>1. CASE x \in R
        BY <1>2, <3>1, <4>1
      <4>2. CASE x \notin R
        BY <1>2, <2>1, <4>2
      <4>3. QED BY <4>1, <4>2
    <3>3. QED BY <1>5, <2>1, <2>2, <3>1, <3>2
  <2>3. CASE ~ i <= length(x)
    <3>1. x \in R
      <4>1. CASE x \notin R
        <5>1. Len(new[x]) = length(x)
          BY <1>2, <2>1, <4>1 DEF length
        <5>2. QED BY <1>3, <1>6, <2>3, <5>1
      <4>2. QED BY <4>1
    <3>2. i - length(x) \in 1 .. share(x)
      <4>1. Len(new[x]) = length(x) + share(x)
        BY <1>2, <3>1
      <4>2. QED BY <1>3, <1>4, <1>6, <2>3, <3>1, <4>1
    <3>3. /\ who[x][i] = a
          /\ from[x][i] = Dealt(place[x], i - length(x), n)
      BY <1>5, <2>3
    <3>4. /\ new[x][length(x) + (i - length(x))] = old[a][Dealt(place[x], i - length(x), n)]
          /\ Dealt(place[x], i - length(x), n) \in 1 .. Len(old[a])
      BY <1>2, <3>1, <3>2
    <3>5. length(x) + (i - length(x)) = i
      BY <1>3
    <3>6. QED BY <2>1, <3>1, <3>2, <3>3, <3>4, <3>5 DEF length
  <2>4. QED BY <2>2, <2>3
<1>7. Comes(new, old, who, from)
  <2>1. ASSUME NEW x \in Agents, NEW i \in 1 .. Len(new[x])
        PROVE  /\ who[x][i] \in Agents /\ from[x][i] \in 1 .. Len(old[who[x][i]])
               /\ new[x][i] = old[who[x][i]][from[x][i]]
    BY <1>6 DEF length
  <2>2. QED BY <2>1 DEF Comes, Slots, Entry
<1>8. Apart(new, who, from)
  <2>1. \A x, y \in Agents : \A i \in 1 .. Len(new[x]), k \in 1 .. Len(new[y]) :
          who[x][i] = who[y][k] /\ from[x][i] = from[y][k] => x = y /\ i = k
    <3> TAKE x, y \in Agents
    <3> TAKE i \in 1 .. Len(new[x]), k \in 1 .. Len(new[y])
    <3> HAVE who[x][i] = who[y][k] /\ from[x][i] = from[y][k]
    <3>1. CASE who[x][i] # a
      BY <1>6, <3>1
    <3>2. CASE who[x][i] = a
      <4>1. /\ x \in R /\ i - length(x) \in 1 .. share(x)
            /\ from[x][i] = Dealt(place[x], i - length(x), n)
        BY <1>6, <3>2
      <4>2. /\ y \in R /\ k - length(y) \in 1 .. share(y)
            /\ from[y][k] = Dealt(place[y], k - length(y), n)
        BY <1>6, <3>2
      <4>3. i - length(x) \in Nat \ {0} /\ k - length(y) \in Nat \ {0}
        BY <1>4, <4>1, <4>2
      <4>4. place[x] = place[y] /\ i - length(x) = k - length(y)
        <5>1. Dealt(place[x], i - length(x), n) = Dealt(place[y], k - length(y), n)
          BY <4>1, <4>2
        <5>2. place[x] \in 1 .. n /\ place[y] \in 1 .. n
          BY <1>4, <4>1, <4>2
        <5>3. QED BY <1>1, <4>3, <5>1, <5>2, DealtDisjoint
      <4>5. x = y
        BY <4>1, <4>2, <4>4
      <4>6. QED BY <1>3, <4>4, <4>5
    <3>3. QED BY <3>1, <3>2
  <2>2. QED BY <2>1, Zenon DEF Apart, Slots, Entry
<1>9. \A l \in 1 .. n : \E x \in R : place[x] = l
  <2>1. \A l \in 1 .. Cardinality(R) : \E x \in R : place[x] = l
    BY Numbering
  <2>2. QED BY ONLY <2>1 DEF n
<1>10. Goes(new, old, who, from)
  <2>1. ASSUME NEW b \in Agents, NEW k \in 1 .. Len(old[b])
        PROVE  \E x \in Agents : \E i \in 1 .. Len(new[x]) : who[x][i] = b /\ from[x][i] = k
    <3>1. CASE b # a
      <4>1. Len(new[b]) >= length(b)
        <5>1. CASE b \in R
          BY <1>2, <1>3, <1>4, <5>1
        <5>2. CASE b \notin R
          BY <1>2, <1>3, <3>1, <5>2 DEF length
        <5>3. QED BY <5>1, <5>2
      <4>2. k \in 1 .. Len(new[b]) /\ k <= length(b)
        BY <1>3, <4>1 DEF length
      <4>3. who[b][k] = b /\ from[b][k] = k
        BY <1>5, <4>2
      <4>4. QED BY <4>2, <4>3
    <3>2. CASE b = a
      <4>1. PICK l \in 1 .. n, m \in Nat \ {0} : k = Dealt(l, m, n)
        BY <1>1, <1>3, <3>2, DealtCovers DEF length
      <4>2. PICK x \in R : place[x] = l
        BY <1>9
      <4>3. m \in 1 .. share(x)
        <5>1. Dealt(place[x], m, n) <= Len(old[a])
          BY <1>3, <3>2, <4>1, <4>2 DEF length
        <5>2. QED BY <1>1, <1>4, <5>1, ShareFacts DEF share
      <4>4. length(x) + m \in 1 .. Len(new[x])
        <5>1. Len(new[x]) = length(x) + share(x)
          BY <1>2
        <5>2. length(x) \in Nat /\ share(x) \in Nat
          BY <1>3, <1>4
        <5>3. QED BY <4>3, <5>1, <5>2
      <4>5. /\ who[x][length(x) + m] = a
            /\ from[x][length(x) + m] = Dealt(place[x], length(x) + m - length(x), n)
        BY <1>3, <1>5, <4>3, <4>4
      <4>6. length(x) + m - length(x) = m
        BY <1>3
      <4>7. QED BY <3>2, <4>1, <4>2, <4>4, <4>5, <4>6
    <3>3. QED BY <3>1, <3>2
  <2>2. QED BY <2>1 DEF Goes, Slots, Entry
<1>11. Listed(new, jobs)
  BY <1>7, <1>8, <1>10, Rearranged
<1>12. QED BY <1>2, <1>11 DEF new

\* Succession appends the tasks of a to those of the heir; if that is a itself,
\* it keeps them.
Inherited(old, a, heir) ==
  [[old EXCEPT ![a] = <<>>] EXCEPT ![heir] = @ \o old[a]]

LEMMA InheritedFacts ==
  ASSUME NEW old \in [Agents -> Seq(Jobs)], NEW a \in Agents, NEW heir \in Agents
  PROVE  LET new == Inherited(old, a, heir)
         IN  /\ new \in [Agents -> Seq(Jobs)]
             /\ heir = a => new = old
             /\ heir # a => /\ new[a] = <<>>
                            /\ new[heir] = old[heir] \o old[a]
                            /\ \A x \in Agents \ {a, heir} : new[x] = old[x]
<1> DEFINE new == Inherited(old, a, heir)
<1>1. old[a] \in Seq(Jobs) /\ old[heir] \in Seq(Jobs) /\ <<>> \in Seq(Jobs)
  OBVIOUS
<1>2. old[heir] \o old[a] \in Seq(Jobs) /\ <<>> \o old[a] = old[a]
  BY <1>1, ConcatProperties, ConcatEmptySeq
<1>3. CASE heir = a
  <2>1. new = [x \in Agents |-> IF x = a THEN <<>> \o old[a] ELSE old[x]]
    BY <1>3 DEF Inherited
  <2>2. new = old
    BY <1>2, <2>1
  <2>3. QED BY <1>3, <2>2
<1>4. CASE heir # a
  <2>1. new = [x \in Agents |-> IF x = a THEN <<>>
                                ELSE IF x = heir THEN old[heir] \o old[a] ELSE old[x]]
    BY <1>4 DEF Inherited
  <2> HIDE DEF new
  <2>2. new \in [Agents -> Seq(Jobs)]
    BY <1>1, <1>2, <2>1
  <2>3. QED BY <1>4, <2>1, <2>2 DEF new
<1>5. QED BY <1>3, <1>4

LEMMA InheritedListed ==
  ASSUME NEW old \in [Agents -> Seq(Jobs)], NEW a \in Agents, NEW heir \in Agents,
         NEW jobs, Listed(old, jobs)
  PROVE  Listed(Inherited(old, a, heir), jobs)
<1> DEFINE new == Inherited(old, a, heir)
           own == Len(old[heir])
           handed(x, i) == x = heir /\ i > own
           who == [x \in Agents |-> [i \in 1 .. Len(new[x]) |-> IF handed(x, i) THEN a ELSE x]]
           from == [x \in Agents |-> [i \in 1 .. Len(new[x]) |->
                      IF handed(x, i) THEN i - own ELSE i]]
<1>1. CASE heir = a
  BY <1>1, InheritedFacts
<1>2. CASE heir # a
  <2>1. /\ new[a] = <<>>
        /\ new[heir] = old[heir] \o old[a]
        /\ \A x \in Agents \ {a, heir} : new[x] = old[x]
    BY <1>2, InheritedFacts
  <2>2. /\ own \in Nat /\ Len(old[a]) \in Nat
        /\ Len(new[heir]) = own + Len(old[a])
        /\ \A i \in 1 .. own + Len(old[a]) :
             new[heir][i] = IF i <= own THEN old[heir][i] ELSE old[a][i - own]
    <3>1. old[heir] \in Seq(Jobs) /\ old[a] \in Seq(Jobs)
      OBVIOUS
    <3> HIDE DEF new
    <3>2. QED BY <2>1, <3>1, ConcatProperties, LenProperties
  <2>3. /\ \A x \in Agents : \A i \in 1 .. Len(new[x]) :
             /\ who[x][i] = IF x = heir /\ i > own THEN a ELSE x
             /\ from[x][i] = IF x = heir /\ i > own THEN i - own ELSE i
    OBVIOUS
  <2>4. Len(<<>>) = 0
    OBVIOUS
  <2> HIDE DEF new, own, who, from, handed
  \* A slot of new is an old one of the same agent, or one of a's.
  <2>5. ASSUME NEW x \in Agents, NEW i \in 1 .. Len(new[x])
        PROVE  /\ x # a
               /\ \/ /\ i \in 1 .. Len(old[x]) /\ new[x][i] = old[x][i]
                     /\ who[x][i] = x /\ from[x][i] = i
                  \/ /\ x = heir /\ from[x][i] = i - own
                     /\ from[x][i] \in 1 .. Len(old[a])
                     /\ who[x][i] = a /\ new[x][i] = old[a][from[x][i]]
    <3>1. x # a
      BY <2>1, <2>4, <2>5
    <3>2. CASE x # heir
      <4>1. new[x] = old[x]
        BY <2>1, <3>1, <3>2
      <4>2. QED BY <2>3, <3>1, <3>2, <4>1
    <3>3. CASE x = heir /\ i <= own
      <4>1. i \in 1 .. Len(old[x])
        BY <2>2, <3>3 DEF own
      <4>2. QED BY <2>2, <2>3, <3>1, <3>3, <4>1
    <3>4. CASE x = heir /\ i > own
      <4>1. i - own \in 1 .. Len(old[a])
        BY <2>2, <3>4
      <4>2. QED BY <2>2, <2>3, <3>1, <3>4, <4>1
    <3>5. i \in Nat
      OBVIOUS
    <3>6. QED BY <2>2, <3>2, <3>3, <3>4, <3>5
  <2>6. Comes(new, old, who, from)
    <3>1. ASSUME NEW x \in Agents, NEW i \in 1 .. Len(new[x])
          PROVE  /\ who[x][i] \in Agents /\ from[x][i] \in 1 .. Len(old[who[x][i]])
                 /\ new[x][i] = old[who[x][i]][from[x][i]]
      BY <2>5
    <3>2. QED BY <3>1 DEF Comes, Slots, Entry
  <2>7. Apart(new, who, from)
    <3>1. \A x, y \in Agents : \A i \in 1 .. Len(new[x]), k \in 1 .. Len(new[y]) :
            who[x][i] = who[y][k] /\ from[x][i] = from[y][k] => x = y /\ i = k
      <4> TAKE x, y \in Agents
      <4> TAKE i \in 1 .. Len(new[x]), k \in 1 .. Len(new[y])
      <4> HAVE who[x][i] = who[y][k] /\ from[x][i] = from[y][k]
      <4>1. CASE who[x][i] # a
        BY <2>5, <4>1
      <4>2. CASE who[x][i] = a
        <5>1. x = heir /\ from[x][i] = i - own
          BY <2>5, <4>2
        <5>2. y = heir /\ from[y][k] = k - own
          BY <2>5, <4>2
        <5>3. i - own = k - own /\ i \in Int /\ k \in Int
          BY <5>1, <5>2
        <5>4. QED BY <2>2, <5>1, <5>2, <5>3
      <4>3. QED BY <4>1, <4>2
    <3>2. QED BY <3>1, Zenon DEF Apart, Slots, Entry
  <2>8. Goes(new, old, who, from)
    <3>1. ASSUME NEW b \in Agents, NEW k \in 1 .. Len(old[b])
          PROVE  \E x \in Agents : \E i \in 1 .. Len(new[x]) : who[x][i] = b /\ from[x][i] = k
      <4>1. CASE b = a
        <5>1. PICK i \in 1 .. Len(new[heir]) : i = own + k
          BY <2>2, <4>1
        <5>2. i > own /\ i - own = k
          BY <2>2, <4>1, <5>1
        <5>3. who[heir][i] = a /\ from[heir][i] = k
          BY <2>3, <5>2
        <5>4. QED BY <4>1, <5>3
      <4>2. CASE b = heir
        <5>1. k \in 1 .. Len(new[heir]) /\ ~ k > own
          BY <2>2, <4>2 DEF own
        <5>2. QED BY <2>3, <4>2, <5>1
      <4>3. CASE b # a /\ b # heir
        <5>1. k \in 1 .. Len(new[b])
          BY <2>1, <4>3
        <5>2. QED BY <2>3, <4>3, <5>1
      <4>4. QED BY <4>1, <4>2, <4>3
    <3>2. QED BY <3>1 DEF Goes, Slots, Entry
  <2>9. QED BY <2>6, <2>7, <2>8, Rearranged DEF new
<1>3. QED BY <1>1, <1>2

\* A new task at the end of one list.
LEMMA AppendListed ==
  ASSUME NEW old \in [Agents -> Seq(Jobs)], NEW a \in Agents, NEW jobs, NEW j \in Jobs,
         j \notin jobs, Listed(old, jobs)
  PROVE  LET new == [old EXCEPT ![a] = Append(@, j)]
         IN  new \in [Agents -> Seq(Jobs)] /\ Listed(new, jobs \cup {j})
<1> DEFINE new == [old EXCEPT ![a] = Append(@, j)]
           last == Len(old[a]) + 1
<1>1. old[a] \in Seq(Jobs) /\ Append(old[a], j) \in Seq(Jobs)
  OBVIOUS
<1>2. /\ Len(old[a]) \in Nat /\ Len(Append(old[a], j)) = last
      /\ \A i \in 1 .. Len(old[a]) : Append(old[a], j)[i] = old[a][i]
      /\ Append(old[a], j)[last] = j
  BY <1>1, AppendProperties, LenProperties
<1>3. /\ new \in [Agents -> Seq(Jobs)]
      /\ new[a] = Append(old[a], j)
      /\ \A x \in Agents \ {a} : new[x] = old[x]
  BY <1>1
<1> HIDE DEF new, last
\* A slot of new is an old one, or the last of a's.
<1>4. ASSUME NEW x \in Agents, NEW i \in Slots(new, x)
      PROVE  \/ /\ i \in Slots(old, x) /\ Entry(new, x, i) = Entry(old, x, i)
                /\ Entry(new, x, i) \in jobs /\ Entry(new, x, i) # j
             \/ x = a /\ i = last /\ Entry(new, x, i) = j
  <2>1. CASE x = a /\ i = last
    BY <1>2, <1>3, <2>1 DEF Entry
  <2>2. CASE ~ (x = a /\ i = last)
    <3>1. i \in Slots(old, x)
      BY <1>2, <1>3, <2>2 DEF Slots, last
    <3>2. Entry(new, x, i) = Entry(old, x, i)
      BY <1>2, <1>3, <3>1 DEF Slots, Entry
    <3>3. Entry(old, x, i) \in jobs
      BY <3>1 DEF Listed, Within
    <3>4. QED BY <3>1, <3>2, <3>3
  <2>3. QED BY <2>1, <2>2
<1>5. \A x \in Agents : \A i \in Slots(old, x) :
        i \in Slots(new, x) /\ Entry(new, x, i) = Entry(old, x, i)
  <2>1. ASSUME NEW x \in Agents, NEW i \in Slots(old, x)
        PROVE  i \in Slots(new, x) /\ Entry(new, x, i) = Entry(old, x, i)
    <3>1. CASE x = a
      <4>1. i \in 1 .. Len(old[a])
        BY <3>1 DEF Slots
      <4>2. i \in 1 .. last /\ Append(old[a], j)[i] = old[a][i]
        BY <1>2, <4>1 DEF last
      <4>3. QED BY <1>2, <1>3, <3>1, <4>2 DEF Slots, Entry
    <3>2. CASE x # a
      BY <1>3, <3>2 DEF Slots, Entry
    <3>3. QED BY <3>1, <3>2
  <2>2. QED BY <2>1
<1>6. last \in Slots(new, a) /\ Entry(new, a, last) = j
  BY <1>2, <1>3 DEF Slots, Entry, last
<1>7. Within(new, jobs \cup {j})
  BY <1>4 DEF Within
<1>8. Once(new)
  BY <1>4 DEF Listed, Once
<1>9. Each(new, jobs \cup {j})
  <2>1. ASSUME NEW x \in jobs \cup {j}
        PROVE  \E b \in Agents : \E i \in Slots(new, b) : Entry(new, b, i) = x
    <3>1. CASE x = j
      BY <1>6, <3>1
    <3>2. CASE x \in jobs
      <4>1. PICK b \in Agents : \E i \in Slots(old, b) : Entry(old, b, i) = x
        BY <3>2 DEF Listed, Each
      <4>2. QED BY <1>5, <4>1
    <3>3. QED BY <3>1, <3>2
  <2>2. QED BY <2>1 DEF Each
<1>10. QED BY <1>3, <1>7, <1>8, <1>9 DEF Listed, new

-----------------------------------------------------------------------------
(* The invariant.                                                          *)

\* An agent that is no member, and did not fail with nobody to take over, has
\* no tasks.
Homed(in, lists, lost) == \A a \in Agents \ (in \cup lost) : lists[a] = <<>>

SwarmInv ==
  /\ SwarmTypeOK
  /\ Listed(activeTasks, given)
  /\ Homed(members, activeTasks, stranded)

LEMMA InvTasks == SwarmInv => TasksSurvive
  BY DEF SwarmInv, Listed, Each, Once, Homed, TasksSurvive, Slots, Entry

LEMMA SwarmInitInv == SwarmInit => SwarmInv
<1> SUFFICES ASSUME SwarmInit PROVE SwarmInv
  OBVIOUS
<1>1. \A a \in Agents : activeTasks[a] = <<>>
  BY DEF SwarmInit
<1>2. SwarmTypeOK
  <2>1. <<>> \in Seq(Jobs)
    OBVIOUS
  <2>2. QED BY <2>1 DEF SwarmInit, SwarmTypeOK
<1>3. \A a \in Agents : Slots(activeTasks, a) = {}
  BY <1>1 DEF Slots
<1>4. Listed(activeTasks, given)
  BY <1>3 DEF SwarmInit, Listed, Each, Once, Within
<1>5. QED BY <1>1, <1>2, <1>4 DEF SwarmInv, Homed

LEMMA RedistributeStep ==
  ASSUME SwarmInv, NEW a \in Agents, Redistribute(a)
  PROVE  /\ activeTasks' \in [Agents -> Seq(Jobs)]
         /\ Listed(activeTasks', given)
         /\ ~ Alone(a) => activeTasks'[a] = <<>>
         /\ \A x \in Agents \ {a} : x \notin members => activeTasks'[x] = activeTasks[x]
         /\ Alone(a) => activeTasks' = activeTasks
<1> DEFINE R == members \ {a}
<1>1. activeTasks \in [Agents -> Seq(Jobs)] /\ Listed(activeTasks, given) /\ R \in SUBSET Agents
  BY DEF SwarmInv, SwarmTypeOK
<1>2. CASE R = {}
  <2>1. activeTasks' = activeTasks
    BY <1>2 DEF Redistribute
  <2>2. QED BY <1>1, <1>2, <2>1 DEF Alone
<1>3. CASE R # {}
  <2>1. PICK place \in [R -> 1 .. Cardinality(R)] :
          /\ \A x, y \in R : x # y => place[x] # place[y]
          /\ activeTasks' = Shared(activeTasks, a, R, place)
    <3>1. PICK place \in [R -> 1 .. Cardinality(R)] :
            /\ \A x, y \in R : x # y => place[x] # place[y]
            /\ activeTasks' = [x \in Agents |->
                 IF x = a THEN <<>>
                 ELSE IF x \in R
                 THEN activeTasks[x] \o Share(activeTasks[a], place[x], Cardinality(R))
                 ELSE activeTasks[x]]
      BY <1>3, Zenon DEF Redistribute
    <3>2. activeTasks' = Shared(activeTasks, a, R, place)
      BY <3>1, Zenon DEF Shared
    <3>3. QED BY <3>1, <3>2
  <2>2. IsFiniteSet(R) /\ Cardinality(R) \in Nat \ {0}
    BY <1>1, <1>3, SwarmAssumption, FS_Subset, FS_CardinalityType, FS_EmptySet
  <2>3. a \notin R
    OBVIOUS
  <2> HIDE DEF R
  <2> DEFINE new == Shared(activeTasks, a, R, place)
  <2>4. /\ Listed(new, given)
        /\ new \in [Agents -> Seq(Jobs)]
        /\ new[a] = <<>>
        /\ \A x \in Agents \ (R \cup {a}) : new[x] = activeTasks[x]
    <3>1. Listed(new, given)
      BY <1>1, <1>3, <2>1, <2>2, <2>3, SharedListed
    <3>2. new \in [Agents -> Seq(Jobs)]
      BY <1>1, <1>3, <2>1, <2>2, <2>3, SharedListed
    <3>3. new[a] = <<>> /\ \A x \in Agents \ (R \cup {a}) : new[x] = activeTasks[x]
      BY DEF Shared
    <3>4. QED BY <3>1, <3>2, <3>3
  <2>5. activeTasks' = new
    BY <2>1
  <2> HIDE DEF new
  <2>6. QED BY <1>3, <2>4, <2>5 DEF Alone, R
<1>4. QED BY <1>2, <1>3

LEMMA FailureStep ==
  ASSUME SwarmInv, NEW a \in Agents, OnAgentFailure(a)
  PROVE  SwarmInv'
<1> DEFINE count == failureCounts[a] + 1
           exceeded == \/ count > MaxFailures
                       \/ strategy.type = "Retry" /\ count > MaxAttempts
           missing == strategy.agent # Nobody /\ strategy.agent \notin members
<1>1. /\ SwarmTypeOK
      /\ Listed(activeTasks, given)
      /\ Homed(members, activeTasks, stranded)
  BY DEF SwarmInv
<1>2. /\ strategy # NoStrategy
      /\ strategy' = strategy
      /\ given' = given
      /\ failureCounts' = [failureCounts EXCEPT ![a] = @ + 1]
  BY DEF OnAgentFailure
<1>3. \/ exceeded /\ Quarantine(a) /\ UNCHANGED stranded
      \/ UNCHANGED <<members, activeTasks, quarantine, stranded>>
      \/ ~ missing /\ Recover(a) /\ UNCHANGED quarantine
  BY DEF OnAgentFailure
<1>4. failureCounts' \in [Agents -> Nat]
  BY <1>1, <1>2 DEF SwarmTypeOK
\* What is left to show of each recovery.
<1> DEFINE Recovered ==
      /\ activeTasks' \in [Agents -> Seq(Jobs)]
      /\ Listed(activeTasks', given)
      /\ \A x \in Agents : x \notin members' /\ x \notin stranded' => activeTasks'[x] = <<>>
      /\ members' \subseteq Agents /\ quarantine' \subseteq Agents /\ stranded' \subseteq Agents
<1>5. ASSUME Recovered PROVE SwarmInv'
  BY <1>1, <1>2, <1>4, <1>5 DEF SwarmInv, SwarmTypeOK, Homed
<1>6. ASSUME UNCHANGED <<members, activeTasks, quarantine, stranded>> PROVE Recovered
  BY <1>1, <1>6 DEF SwarmTypeOK, Homed
<1>7. ASSUME Quarantine(a), UNCHANGED stranded PROVE Recovered
  <2>1. Redistribute(a) /\ members' = members /\ quarantine' = quarantine \cup {a}
    BY <1>7 DEF Quarantine
  <2>2. QED BY <1>1, <1>7, <2>1, RedistributeStep DEF SwarmTypeOK, Homed
<1>8. ASSUME ~ missing, Recover(a), UNCHANGED quarantine PROVE Recovered
  <2>1. CASE strategy.type = "Retry"
    <3>1. UNCHANGED <<members, activeTasks, quarantine, stranded>>
      BY <1>8, <2>1 DEF Recover
    <3>2. QED BY <1>6, <3>1
  <2>2. CASE strategy.type \in {"Failover", "Degrade"}
    <3>1. /\ Redistribute(a)
          /\ members' = members \ {a}
          /\ stranded' = IF Alone(a) THEN stranded \cup {a} ELSE stranded
      BY <1>8, <2>2 DEF Recover
    <3>2. QED BY <1>1, <1>8, <3>1, RedistributeStep DEF SwarmTypeOK, Homed
  <2>3. CASE strategy.type = "Succession"
    <3> DEFINE heir == strategy.agent
    <3>1. /\ Inherit(a, heir)
          /\ members' = members \ {a}
          /\ stranded' = IF a = heir THEN stranded \cup {a} ELSE stranded
      BY <1>8, <2>3 DEF Recover
    <3>2. heir \in Agents /\ heir \in members
      BY <1>1, <1>2, <1>8, <2>3, SwarmAssumption DEF SwarmTypeOK, Strategies, NoStrategy
    <3> HIDE DEF heir
    <3>3. activeTasks' = Inherited(activeTasks, a, heir)
      BY <3>1 DEF Inherit, Inherited
    <3>4. activeTasks \in [Agents -> Seq(Jobs)]
      BY <1>1 DEF SwarmTypeOK
    <3>5. activeTasks' \in [Agents -> Seq(Jobs)] /\ Listed(activeTasks', given)
      BY <1>1, <3>2, <3>3, <3>4, InheritedFacts, InheritedListed
    <3>6. ASSUME NEW x \in Agents, x \notin members', x \notin stranded'
          PROVE  activeTasks'[x] = <<>>
      <4>1. CASE a = heir
        <5>1. activeTasks' = activeTasks
          BY <3>2, <3>3, <3>4, <4>1, InheritedFacts
        <5>2. x \notin members /\ x \notin stranded
          BY <3>1, <3>6, <4>1
        <5>3. QED BY <1>1, <5>1, <5>2 DEF Homed
      <4>2. CASE a # heir
        <5>1. x # heir
          BY <3>1, <3>2, <3>6, <4>2
        <5>2. /\ activeTasks'[a] = <<>>
              /\ \A y \in Agents \ {a, heir} : activeTasks'[y] = activeTasks[y]
          <6>1. heir # a
            BY <4>2
          <6> DEFINE new == Inherited(activeTasks, a, heir)
          <6>2. new[a] = <<>> /\ \A y \in Agents \ {a, heir} : new[y] = activeTasks[y]
            BY <3>2, <3>4, <6>1, InheritedFacts
          <6>3. activeTasks' = new
            BY <3>3
          <6> HIDE DEF new
          <6>4. QED BY <6>2, <6>3
        <5>3. x # a => x \notin members /\ x \notin stranded
          BY <3>1, <3>6, <4>2
        <5>4. QED BY <1>1, <5>1, <5>2, <5>3 DEF Homed
      <4>3. QED BY <4>1, <4>2
    <3>7. QED BY <1>1, <1>8, <3>1, <3>5, <3>6 DEF SwarmTypeOK
  <2>4. QED BY <1>1, <1>2, <2>1, <2>2, <2>3 DEF SwarmTypeOK, Strategies
<1> HIDE DEF Recovered
<1>9. QED BY <1>3, <1>5, <1>6, <1>7, <1>8

LEMMA SwarmStepInv ==
  ASSUME SwarmInv, [SwarmNext]_swarmVars
  PROVE  SwarmInv'
<1>1. CASE ChooseStrategy
  BY <1>1 DEF ChooseStrategy, SwarmInv, SwarmTypeOK, Homed
<1>2. ASSUME NEW a \in Agents, Join(a) PROVE SwarmInv'
  BY <1>2 DEF Join, SwarmInv, SwarmTypeOK, Homed
<1>3. ASSUME NEW a \in Agents, NEW j \in Jobs, GiveJob(a, j) PROVE SwarmInv'
  <2>1. /\ a \in members /\ j \notin given
        /\ activeTasks' = [activeTasks EXCEPT ![a] = Append(@, j)]
        /\ given' = given \cup {j}
        /\ UNCHANGED <<strategy, members, failureCounts, quarantine, stranded>>
    BY <1>3 DEF GiveJob
  <2>2. activeTasks \in [Agents -> Seq(Jobs)] /\ Listed(activeTasks, given)
    BY DEF SwarmInv, SwarmTypeOK
  <2>3. activeTasks' \in [Agents -> Seq(Jobs)] /\ Listed(activeTasks', given')
    BY <2>1, <2>2, AppendListed
  <2>4. Homed(members', activeTasks', stranded')
    BY <2>1, <2>2 DEF SwarmInv, Homed
  <2>5. SwarmTypeOK'
    BY <2>1, <2>3 DEF SwarmInv, SwarmTypeOK
  <2>6. QED BY <2>3, <2>4, <2>5 DEF SwarmInv
<1>4. ASSUME NEW a \in Agents, OnAgentFailure(a) PROVE SwarmInv'
  BY <1>4, FailureStep
<1>5. CASE UNCHANGED swarmVars
  BY <1>5 DEF swarmVars, SwarmInv, SwarmTypeOK, Homed
<1>6. QED BY <1>1, <1>2, <1>3, <1>4, <1>5 DEF SwarmNext

\* Every variable of the fault tolerance has its type.
THEOREM SwarmTypeCorrect == SwarmSpec => []SwarmTypeOK
<1>1. SwarmInv => SwarmTypeOK
  BY DEF SwarmInv
<1>2. SwarmInv /\ [SwarmNext]_<<swarmVars, budget>> => SwarmInv'
  BY SwarmStepInv
<1>3. QED BY SwarmInitInv, <1>1, <1>2, PTL DEF SwarmSpec

\* on_agent_failure loses and doubles no task, whatever the strategy and
\* however many agents fail, join and are quarantined: each task handed out is
\* in exactly one list, once, of an agent that is there or was left alone.
THEOREM TasksNeverLost == SwarmSpec => []TasksSurvive
<1>1. SwarmInv /\ [SwarmNext]_<<swarmVars, budget>> => SwarmInv'
  BY SwarmStepInv
<1>2. QED BY SwarmInitInv, InvTasks, <1>1, PTL DEF SwarmSpec

-----------------------------------------------------------------------------
(* The graph of tasks.                                                     *)

Calls == [task : GraphTasks, left : SUBSET GraphTasks]

GraphInv == GraphTypeOK /\ SearchInv /\ WaveInv

LEMMA SeqFacts ==
  ASSUME NEW S, NEW s \in Seq(S)
  PROVE  /\ Len(s) \in Nat /\ DOMAIN s = 1 .. Len(s)
         /\ \A i \in DOMAIN s : s[i] \in S
  OBVIOUS

\* A frame is a call of the search, whatever the id.
LEMMA FrameIsCall ==
  ASSUME GraphTypeOK, NEW t \in GraphTasks
  PROVE  /\ Frame(t) \in Calls /\ Frame(t).task = t
         /\ Frame(t).left = DependenciesOf(t)
         /\ t \in InGraph => DependenciesOf(t) = dependencies[t]
         /\ t \notin InGraph => DependenciesOf(t) = {}
  BY DEF GraphTypeOK, Frame, DependenciesOf, Calls

\* The stack while it is not empty.
LEMMA StackFacts ==
  ASSUME GraphTypeOK
  PROVE  /\ stack \in Seq(Calls) /\ Len(stack) \in Nat
         /\ DOMAIN stack = 1 .. Len(stack)
         /\ \A i \in DOMAIN stack : stack[i] \in Calls
         /\ InStack = {stack[i].task : i \in DOMAIN stack}
         /\ stack # <<>> => Len(stack) \in DOMAIN stack /\ Top \in Calls
  <1>1. stack \in Seq(Calls)
    BY DEF GraphTypeOK, Calls
  <1>2. /\ Len(stack) \in Nat /\ DOMAIN stack = 1 .. Len(stack)
        /\ \A i \in DOMAIN stack : stack[i] \in Calls
        /\ stack # <<>> => Len(stack) \in DOMAIN stack
    BY <1>1
  <1>3. stack # <<>> => Top \in Calls
    BY <1>2 DEF Top
  <1>4. InStack = {stack[i].task : i \in DOMAIN stack}
    BY <1>2 DEF InStack
  <1>5. QED BY <1>1, <1>2, <1>3, <1>4

\* A pass leaves the tasks of the stack and takes one dependency from the top.
LEMMA PassFacts ==
  ASSUME GraphTypeOK, stack # <<>>, NEW d
  PROVE  /\ Pass(d) \in Seq(Calls) /\ Len(Pass(d)) = Len(stack)
         /\ \A i \in 1 .. Len(stack) :
              /\ Pass(d)[i].task = stack[i].task
              /\ i # Len(stack) => Pass(d)[i].left = stack[i].left
         /\ Pass(d)[Len(stack)].left = Top.left \ {d}
  <1> USE StackFacts
  <1>1. Pass(d) = [stack EXCEPT ![Len(stack)] = [stack[Len(stack)] EXCEPT !.left = Top.left \ {d}]]
    BY DEF Pass, Top
  <1> DEFINE c == [stack[Len(stack)] EXCEPT !.left = Top.left \ {d}]
  <1>2. c \in Calls /\ c.task = stack[Len(stack)].task /\ c.left = Top.left \ {d}
    BY DEF Calls, Top
  <1> HIDE DEF c
  <1>3. Pass(d) \in Seq(Calls) /\ Len(Pass(d)) = Len(stack)
    BY <1>1, <1>2 DEF c
  <1>4. \A i \in 1 .. Len(stack) : Pass(d)[i] = IF i = Len(stack) THEN c ELSE stack[i]
    BY <1>1 DEF c
  <1>5. QED BY <1>2, <1>3, <1>4

\* The type of every variable, for every graph.
LEMMA GraphTypeNext ==
  ASSUME GraphTypeOK, WaveInv, [GraphNext]_graphVars
  PROVE  GraphTypeOK'
  <1>1. ASSUME Execute
        PROVE  GraphTypeOK'
    <2>1. PICK ids \in SUBSET GraphTasks : dependencies' \in [ids -> SUBSET GraphTasks]
      BY <1>1 DEF Execute
    <2>2. dependencies' \in [InGraph' -> SUBSET GraphTasks] /\ InGraph' \subseteq GraphTasks
      BY <2>1 DEF InGraph
    <2>3. /\ run' = "validate" /\ UNCHANGED <<visited, stack, completed, running, finished>>
          /\ run = "none"
      BY <1>1 DEF Execute
    <2>4. completed' = {} /\ running' = {} /\ finished' = {}
      BY <2>3 DEF WaveInv
    <2>5. QED BY <2>2, <2>3, <2>4 DEF GraphTypeOK, Runs
  <1>2. ASSUME NEW t \in GraphTasks, Root(t)
        PROVE  GraphTypeOK'
    <2>1. stack' \in Seq(Calls)
      BY <1>2, StackFacts, FrameIsCall DEF Root
    <2>2. QED BY <1>2, <2>1 DEF Root, GraphTypeOK, InGraph, Calls
  <1>3. ASSUME NEW d \in GraphTasks, Follow(d)
        PROVE  GraphTypeOK'
    <2>1. stack' \in Seq(Calls)
      <3>1. Pass(d) \in Seq(Calls) /\ Frame(d) \in Calls
        BY <1>3, PassFacts, FrameIsCall DEF Follow
      <3>2. Append(Pass(d), Frame(d)) \in Seq(Calls)
        BY <3>1
      <3>3. stack' \in {stack, Pass(d), Append(Pass(d), Frame(d))}
        BY <1>3 DEF Follow
      <3>4. QED BY <3>1, <3>2, <3>3, StackFacts
    <2>2. QED BY <1>3, <2>1 DEF Follow, GraphTypeOK, InGraph, Runs, Calls
  <1>4. ASSUME Return
        PROVE  GraphTypeOK'
    <2>1. stack' \in Seq(Calls)
      BY <1>4, StackFacts DEF Return
    <2>2. QED BY <1>4, <2>1 DEF Return, GraphTypeOK, InGraph, Calls
  <1>5. CASE Valid \/ Wave \/ WaveDone
    BY <1>5 DEF Valid, Wave, Ready, WaveDone, GraphTypeOK, InGraph, Runs
  <1>6. ASSUME NEW t \in GraphTasks, Answer(t) \/ Fail(t)
        PROVE  GraphTypeOK'
    BY <1>6 DEF Answer, Fail, GraphTypeOK, InGraph, Runs
  <1>7. CASE UNCHANGED graphVars
    BY <1>7 DEF graphVars, GraphTypeOK, InGraph
  <1>8. QED
    BY <1>1, <1>2, <1>3, <1>4, <1>5, <1>6, <1>7 DEF GraphNext

-----------------------------------------------------------------------------
(* The search.                                                             *)

\* A call on a task not visited yet: the stack grows by one call, and nothing
\* returns.
LEMMA PushNext ==
  ASSUME GraphTypeOK, SearchInv, run = "validate",
         NEW d \in GraphTasks, d \notin visited,
         NEW s, s \in Seq(Calls), Len(s) = Len(stack),
         \A i \in DOMAIN stack : s[i].task = stack[i].task,
         \A i \in DOMAIN stack : i # Len(stack) => s[i].left = stack[i].left,
         stack # <<>> => d \in Top.left /\ s[Len(stack)].left = Top.left \ {d},
         visited' = visited \cup {d}, stack' = Append(s, Frame(d)),
         UNCHANGED <<dependencies, run>>
  PROVE  SearchInv'
  <1> USE StackFacts
  <1>1. PICK n \in Nat : n = Len(stack)
    OBVIOUS
  <1>2. /\ DOMAIN stack' = 1 .. n + 1
        /\ \A i \in DOMAIN stack : stack'[i] = s[i]
        /\ stack'[n + 1] = Frame(d)
    <2>1. Frame(d) \in Calls
      BY FrameIsCall
    <2>2. QED BY <1>1, <2>1
  <1>3. DOMAIN stack = 1 .. n
    BY <1>1
  <1>4. /\ \A i \in 1 .. n : stack'[i].task = stack[i].task
        /\ \A i \in 1 .. n - 1 : stack'[i].left = stack[i].left
        /\ n # 0 => d \in stack[n].left /\ stack'[n].left = stack[n].left \ {d}
        /\ stack'[n + 1].task = d /\ stack'[n + 1].left = DependenciesOf(d)
    BY <1>1, <1>2, <1>3, FrameIsCall DEF Top
  <1>5. InGraph' = InGraph /\ \A t : DependenciesOf(t)' = DependenciesOf(t)
    BY DEF InGraph, DependenciesOf, Frame
  <1>6. InStack' = InStack \cup {d}
    <2>1. InStack' = {stack'[i].task : i \in 1 .. n + 1}
      BY <1>1, <1>2 DEF InStack
    <2>2. QED BY <1>3, <1>4, <2>1
  <1>7. Returned' = Returned
    BY <1>6 DEF Returned
  <1>8. InStack' \subseteq visited'
    BY <1>6 DEF SearchInv
  <1>9. ASSUME NEW i \in DOMAIN stack', NEW j \in DOMAIN stack', stack'[i].task = stack'[j].task
        PROVE  i = j
    <2>1. \A k \in 1 .. n : stack'[k].task # d
      BY ONLY <1>3, <1>4, SearchInv, d \notin visited DEF SearchInv, InStack
    <2>2. QED BY <1>2, <1>3, <1>4, <1>9, <2>1 DEF SearchInv
  <1>10. ASSUME NEW i \in DOMAIN stack'
         PROVE  OnPath(i)'
    <2>1. CASE i = n + 1
      <3>1. i + 1 \notin DOMAIN stack'
        BY <1>2, <2>1
      <3>2. QED BY <1>4, <1>5, <2>1, <3>1 DEF OnPath
    <2>2. CASE i = n
      <3>1. i \in DOMAIN stack /\ OnPath(i)
        BY <1>2, <1>3, <2>2 DEF SearchInv
      <3>2. i + 1 \in DOMAIN stack' /\ i + 1 \notin DOMAIN stack
        BY <1>2, <1>3, <2>2
      <3>3. {stack'[j].task : j \in {i + 1} \cap DOMAIN stack'} = {d}
        BY <1>4, <2>2, <3>2
      <3>4. {stack[j].task : j \in {i + 1} \cap DOMAIN stack} = {}
        BY <3>2
      <3>5. /\ stack[i].left \subseteq DependenciesOf(stack[i].task)
            /\ DependenciesOf(stack[i].task) \ stack[i].left \subseteq Returned
        BY <3>1, <3>4 DEF OnPath
      <3>6. /\ stack'[i].task = stack[i].task /\ stack'[i + 1].task = d
            /\ stack'[i].left = stack[i].left \ {d} /\ d \in stack[i].left
        BY <1>3, <1>4, <2>2, <3>1
      <3>7. QED BY <1>5, <1>7, <3>2, <3>3, <3>5, <3>6 DEF OnPath
    <2>3. CASE i \in 1 .. n - 1
      <3>1. i \in DOMAIN stack /\ i + 1 \in DOMAIN stack /\ i + 1 \in DOMAIN stack' /\ OnPath(i)
        BY <1>2, <1>3, <2>3 DEF SearchInv
      <3>2. /\ stack'[i].task = stack[i].task /\ stack'[i].left = stack[i].left
            /\ stack'[i + 1].task = stack[i + 1].task
        BY <1>3, <1>4, <2>3, <3>1
      <3>3. /\ {stack'[j].task : j \in {i + 1} \cap DOMAIN stack'} = {stack'[i + 1].task}
            /\ {stack[j].task : j \in {i + 1} \cap DOMAIN stack} = {stack[i + 1].task}
        BY <3>1
      <3>4. QED BY <1>5, <1>7, <3>1, <3>2, <3>3 DEF OnPath
    <2>4. QED BY <1>2, <2>1, <2>2, <2>3
  <1>11. run' = "validate"
    OBVIOUS
  <1>12. \A t \in Returned' : DependenciesOf(t)' \subseteq Returned'
    BY <1>5, <1>7 DEF SearchInv
  <1>13. \A ts \in (SUBSET (Returned' \cap InGraph')) \ {{}} :
           \E t \in ts : dependencies'[t] \cap ts = {}
    BY <1>5, <1>7 DEF SearchInv
  <1>14. QED
    BY <1>8, <1>9, <1>10, <1>11, <1>12, <1>13 DEF SearchInv

\* A dependency whose search has returned is passed.
LEMMA PassNext ==
  ASSUME GraphTypeOK, SearchInv, run = "validate", stack # <<>>,
         NEW d \in Returned, stack' = Pass(d),
         UNCHANGED <<dependencies, run, visited>>
  PROVE  SearchInv'
  <1> USE StackFacts
  <1>1. /\ DOMAIN stack' = DOMAIN stack
        /\ \A i \in DOMAIN stack :
             /\ stack'[i].task = stack[i].task
             /\ stack'[i].left \in {stack[i].left, stack[i].left \ {d}}
    <2>1. /\ stack' \in Seq(Calls) /\ Len(stack') = Len(stack)
          /\ \A i \in 1 .. Len(stack) :
               /\ stack'[i].task = stack[i].task
               /\ i # Len(stack) => stack'[i].left = stack[i].left
          /\ stack'[Len(stack)].left = stack[Len(stack)].left \ {d}
      BY PassFacts DEF Top
    <2>2. DOMAIN stack' = DOMAIN stack
      BY <2>1, SeqFacts
    <2>3. QED BY <2>1, <2>2
  <1>2. InGraph' = InGraph /\ \A t : DependenciesOf(t)' = DependenciesOf(t)
    BY DEF InGraph, DependenciesOf, Frame
  <1>3. InStack' = InStack
    <2>1. InStack' = {stack'[i].task : i \in DOMAIN stack'}
      BY <1>1 DEF InStack
    <2>2. QED BY <1>1, <2>1
  <1>4. Returned' = Returned
    BY <1>3 DEF Returned
  <1>5. ASSUME NEW i \in DOMAIN stack'
        PROVE  OnPath(i)'
    <2>1. i \in DOMAIN stack /\ OnPath(i)
      BY <1>1 DEF SearchInv
    <2>2. {stack'[j].task : j \in {i + 1} \cap DOMAIN stack'}
            = {stack[j].task : j \in {i + 1} \cap DOMAIN stack}
      BY <1>1
    <2>3. QED BY <1>1, <1>2, <1>4, <2>1, <2>2 DEF OnPath
  <1>6. QED BY <1>1, <1>2, <1>3, <1>4, <1>5 DEF SearchInv

\* The calls from the one of d to the top one are a cycle.
LEMMA CycleIsReal ==
  ASSUME GraphTypeOK, SearchInv, stack # <<>>, NEW d \in Top.left, d \in InStack
  PROVE  ~ Acyclic
  <1> USE StackFacts
  <1>1. PICK n \in Nat : n = Len(stack) /\ n # 0 /\ DOMAIN stack = 1 .. n
    <2>1. Len(stack) # 0
      OBVIOUS
    <2>2. QED BY <2>1
  <1>2. PICK k \in 1 .. n : stack[k].task = d
    BY <1>1 DEF InStack
  <1> DEFINE ts == {stack[i].task : i \in k .. n}
  <1>3. \A i \in 1 .. n : i \in DOMAIN stack /\ OnPath(i) /\ stack[i].task \in GraphTasks
    BY <1>1 DEF SearchInv, Calls
  <1>4. ASSUME NEW i \in k .. n
        PROVE  DependenciesOf(stack[i].task) \cap ts # {}
    <2>1. CASE i = n
      <3>1. d \in DependenciesOf(stack[i].task)
        BY <1>1, <1>3, <2>1 DEF OnPath, Top
      <3>2. d \in ts
        BY <1>2
      <3>3. QED BY <3>1, <3>2
    <2>2. CASE i # n
      <3>1. i + 1 \in 1 .. n /\ i + 1 \in k .. n /\ i \in 1 .. n
        BY <2>2
      <3>2. stack[i + 1].task \in DependenciesOf(stack[i].task)
        BY <1>1, <1>3, <3>1 DEF OnPath
      <3>3. stack[i + 1].task \in ts
        BY <3>1
      <3>4. QED BY <3>2, <3>3
    <2>3. QED BY <2>1, <2>2
  <1>5. \A t \in ts : t \in InGraph /\ dependencies[t] \cap ts # {}
    <2> SUFFICES ASSUME NEW i \in k .. n
                 PROVE  stack[i].task \in InGraph /\ dependencies[stack[i].task] \cap ts # {}
      OBVIOUS
    <2>1. stack[i].task \in GraphTasks
      BY <1>3
    <2>2. QED BY <1>4, <2>1, FrameIsCall
  <1>6. d \in ts
    BY <1>2
  <1> HIDE DEF ts
  <1>7. QED BY <1>5, <1>6 DEF Acyclic

\* The top call returns after all its task depends on.
LEMMA ReturnNext ==
  ASSUME GraphTypeOK, SearchInv, Return
  PROVE  SearchInv'
  <1> USE StackFacts DEF Return
  <1>1. PICK n : n = Len(stack) - 1
    OBVIOUS
  <1> n \in Nat /\ n + 1 = Len(stack)
    <2>1. Len(stack) # 0
      OBVIOUS
    <2>2. QED BY <1>1, <2>1
  <1>2. PICK t \in GraphTasks : t = Top.task
    BY DEF Calls
  <1>3. /\ DOMAIN stack = 1 .. n + 1 /\ DOMAIN stack' = 1 .. n
        /\ \A i \in 1 .. n : stack'[i] = stack[i]
        /\ stack[n + 1].task = t /\ stack[n + 1].left = {}
        /\ Len(stack') = n
    <2>1. stack' = SubSeq(stack, 1, n)
      BY <1>1
    <2>2. /\ stack' \in Seq(Calls) /\ Len(stack') = n
          /\ \A i \in 1 .. n : stack'[i] = stack[i]
      <3>1. \A i \in 1 .. n : i \in DOMAIN stack /\ stack[i] \in Calls
        OBVIOUS
      <3>2. /\ SubSeq(stack, 1, n) \in Seq(Calls)
            /\ Len(SubSeq(stack, 1, n)) = IF 1 <= n THEN n - 1 + 1 ELSE 0
            /\ \A i \in 1 .. n - 1 + 1 : SubSeq(stack, 1, n)[i] = stack[1 + i - 1]
        BY ONLY <3>1, n \in Nat, SubSeqProperties
      <3>3. QED BY ONLY n \in Nat, <2>1, <3>2
    <2>3. DOMAIN stack' = 1 .. n
      BY <2>2, SeqFacts
    <2>4. QED BY <1>2, <2>2, <2>3 DEF Top
  <1>4. InGraph' = InGraph /\ \A u : DependenciesOf(u)' = DependenciesOf(u)
    BY DEF InGraph, DependenciesOf, Frame
  <1>5. \A i \in 1 .. n : stack[i].task # t
    <2>1. \A i, j \in DOMAIN stack : stack[i].task = stack[j].task => i = j
      BY DEF SearchInv
    <2>2. QED BY <1>3, <2>1
  <1>6. InStack = InStack' \cup {t} /\ t \notin InStack'
    <2>1. InStack' = {stack[i].task : i \in 1 .. n}
      <3>1. InStack' = {stack'[i].task : i \in 1 .. n}
        BY ONLY <1>3 DEF InStack
      <3>2. QED BY ONLY <1>3, <3>1
    <2>2. InStack = {stack[i].task : i \in 1 .. n + 1}
      BY ONLY n + 1 = Len(stack) DEF InStack
    <2>3. \A i \in 1 .. n + 1 : i \in 1 .. n \/ i = n + 1
      OBVIOUS
    <2>4. QED BY <1>3, <1>5, <2>1, <2>2, <2>3
  <1>7. Returned' = Returned \cup {t} /\ t \notin Returned
    BY <1>6 DEF Returned, SearchInv
  <1>8. OnPath(n + 1) /\ n + 2 \notin DOMAIN stack
    <2>1. n + 1 \in DOMAIN stack
      BY <1>3
    <2>2. QED BY <1>3, <2>1 DEF SearchInv
  <1>9. DependenciesOf(t) \subseteq Returned
    <2>1. {stack[j].task : j \in {n + 1 + 1} \cap DOMAIN stack} = {}
      BY <1>8
    <2>2. QED BY <1>3, <1>8, <2>1 DEF OnPath
  <1>10. ASSUME NEW i \in DOMAIN stack'
         PROVE  OnPath(i)'
    <2>1. i \in DOMAIN stack /\ OnPath(i) /\ i + 1 \in DOMAIN stack /\ i \in 1 .. n
      BY <1>3 DEF SearchInv
    <2>2. {stack[j].task : j \in {i + 1} \cap DOMAIN stack} = {stack[i + 1].task}
      BY <2>1
    <2>3. CASE i = n
      <3>1. DependenciesOf(stack[i].task) \ stack[i].left \subseteq Returned'
        BY <1>3, <1>7, <2>1, <2>2, <2>3 DEF OnPath
      <3>2. i + 1 \notin DOMAIN stack'
        BY <1>3, <2>3
      <3>3. QED BY <1>3, <1>4, <2>1, <3>1, <3>2 DEF OnPath
    <2>4. CASE i # n
      <3>1. i + 1 \in DOMAIN stack' /\ i + 1 \in 1 .. n
        BY <1>3, <2>4
      <3>2. {stack'[j].task : j \in {i + 1} \cap DOMAIN stack'} = {stack[i + 1].task}
        BY <1>3, <3>1
      <3>3. QED BY <1>3, <1>4, <1>7, <2>1, <2>2, <3>1, <3>2 DEF OnPath
    <2>5. QED BY <2>3, <2>4
  <1>11. \A u \in Returned' : DependenciesOf(u)' \subseteq Returned'
    BY <1>4, <1>7, <1>9 DEF SearchInv
  <1>12. ASSUME NEW ts \in SUBSET (Returned' \cap InGraph'), ts # {}
         PROVE  \E u \in ts : dependencies'[u] \cap ts = {}
    <2>1. ts \ {t} \subseteq Returned \cap InGraph
      BY <1>4, <1>7
    <2>2. CASE ts \ {t} = {}
      <3>1. ts = {t}
        BY ONLY <1>12, <2>2
      <3> t \in InGraph
        BY <1>4, <3>1
      <3>2. dependencies[t] \cap ts = {}
        BY <1>7, <1>9, <3>1, FrameIsCall
      <3>3. QED BY <3>1, <3>2
    <2>3. CASE ts \ {t} # {}
      <3>1. PICK u \in ts \ {t} : dependencies[u] \cap (ts \ {t}) = {}
        BY <2>1, <2>3 DEF SearchInv
      <3>2. u \in Returned /\ u \in InGraph
        BY <2>1, <3>1
      <3>3. dependencies[u] = DependenciesOf(u)
        BY <3>2 DEF DependenciesOf, Frame
      <3>4. t \notin dependencies[u]
        BY <1>7, <3>2, <3>3 DEF SearchInv
      <3>5. QED BY <3>1, <3>4
    <2>4. QED BY <2>2, <2>3
  <1>13. \A i, j \in DOMAIN stack' : stack'[i].task = stack'[j].task => i = j
    BY <1>3 DEF SearchInv
  <1>14. InStack' \subseteq visited'
    BY <1>6 DEF SearchInv
  <1>15. QED
    BY <1>10, <1>11, <1>12, <1>13, <1>14 DEF SearchInv

\* Every step of the search and of the execution keeps the invariant of the search.
LEMMA SearchNext ==
  ASSUME GraphInv, [GraphNext]_graphVars
  PROVE  SearchInv'
  <1> USE DEF GraphInv
  <1>1. ASSUME Execute
        PROVE  SearchInv'
    <2>1. /\ stack' = <<>> /\ visited' = {} /\ run' = "validate"
      BY <1>1 DEF Execute, SearchInv
    <2>2. DOMAIN stack' = {} /\ InStack' = {} /\ Returned' = {}
      BY <2>1 DEF InStack, Returned
    <2>3. QED BY <2>1, <2>2 DEF SearchInv
  <1>2. ASSUME NEW t \in GraphTasks, Root(t)
        PROVE  SearchInv'
    <2>1. /\ run = "validate" /\ stack = <<>> /\ t \notin visited
          /\ visited' = visited \cup {t} /\ stack' = Append(stack, Frame(t))
          /\ UNCHANGED <<dependencies, run>>
      BY <1>2 DEF Root
    <2>2. QED BY <2>1, PushNext, StackFacts
  <1>3. ASSUME NEW d \in GraphTasks, Follow(d)
        PROVE  SearchInv'
    <2>1. run = "validate" /\ stack # <<>> /\ d \in Top.left /\ UNCHANGED dependencies
      BY <1>3 DEF Follow
    <2>2. CASE d \notin visited
      <3>1. /\ visited' = visited \cup {d} /\ stack' = Append(Pass(d), Frame(d))
            /\ UNCHANGED run
        BY <1>3, <2>2 DEF Follow
      <3> DEFINE s == Pass(d)
      <3>2. /\ s \in Seq(Calls) /\ Len(s) = Len(stack)
            /\ \A i \in DOMAIN stack :
                 /\ s[i].task = stack[i].task
                 /\ i # Len(stack) => s[i].left = stack[i].left
            /\ s[Len(stack)].left = Top.left \ {d}
        BY <2>1, PassFacts, StackFacts
      <3>3. stack' = Append(s, Frame(d))
        BY <3>1
      <3> HIDE DEF s
      <3>4. QED BY <2>1, <2>2, <3>1, <3>2, <3>3, PushNext
    <2>3. CASE d \in visited /\ d \in InStack
      <3>1. UNCHANGED <<stack, visited, dependencies>> /\ run' = "cycle"
        BY <1>3, <2>3 DEF Follow
      <3>2. QED
        BY <2>1, <3>1
        DEF SearchInv, InStack, Returned, OnPath, DependenciesOf, Frame, InGraph
    <2>4. CASE d \in visited /\ d \notin InStack
      <3>1. stack' = Pass(d) /\ UNCHANGED <<visited, run>> /\ d \in Returned
        BY <1>3, <2>4 DEF Follow, Returned
      <3>2. QED BY <2>1, <3>1, PassNext
    <2>5. QED BY <2>2, <2>3, <2>4
  <1>4. ASSUME Return
        PROVE  SearchInv'
    BY <1>4, ReturnNext
  <1>5. ASSUME \/ Valid \/ Wave \/ WaveDone \/ UNCHANGED graphVars
               \/ \E t \in GraphTasks : Answer(t) \/ Fail(t)
        PROVE  SearchInv'
    <2>1. UNCHANGED <<stack, visited, dependencies>>
      BY <1>5 DEF Valid, Wave, WaveDone, Answer, Fail, graphVars
    <2>2. /\ run' = "none" => run = "none"
          /\ run' \notin {"none", "validate", "cycle"} => stack = <<>> /\ InGraph \subseteq visited
      BY <1>5 DEF Valid, Wave, WaveDone, Answer, Fail, graphVars, SearchInv
    <2>3. QED
      BY <2>1, <2>2
      DEF SearchInv, InStack, Returned, OnPath, DependenciesOf, Frame, InGraph
  <1>6. QED
    BY <1>1, <1>2, <1>3, <1>4, <1>5 DEF GraphNext

-----------------------------------------------------------------------------
(* The execution.                                                          *)

\* Waves run what depends on nothing but finished tasks; when nothing is left
\* to run in a graph without cycles, some task depends on one that is missing.
LEMMA WaveNext ==
  ASSUME GraphInv, [GraphNext]_graphVars
  PROVE  WaveInv'
  <1> USE DEF GraphInv, GraphRun, InGraph
  <1>1. ASSUME Execute
        PROVE  WaveInv'
    BY <1>1 DEF Execute, WaveInv
  <1>2. ASSUME NEW t \in GraphTasks, Root(t)
        PROVE  WaveInv'
    BY <1>2 DEF Root, WaveInv, Acyclic
  <1>3. ASSUME NEW d \in GraphTasks, Follow(d)
        PROVE  WaveInv'
    <2>1. /\ run = "validate" /\ stack # <<>> /\ d \in Top.left
          /\ UNCHANGED <<dependencies, completed, running, finished>>
          /\ run' \in {run, "cycle"}
      BY <1>3 DEF Follow
    <2>2. ASSUME run' = "cycle"
          PROVE  ~ Acyclic
      <3>1. d \in InStack
        BY <1>3, <2>1, <2>2 DEF Follow
      <3>2. QED BY <2>1, <3>1, CycleIsReal
    <2>3. Acyclic' = Acyclic
      BY <2>1 DEF Acyclic
    <2>4. QED BY <2>1, <2>2, <2>3 DEF WaveInv
  <1>4. ASSUME Return
        PROVE  WaveInv'
    BY <1>4 DEF Return, WaveInv, Acyclic
  <1>5. ASSUME Valid
        PROVE  WaveInv'
    <2>1. /\ run = "validate" /\ stack = <<>> /\ InGraph \subseteq visited /\ run' = "wave"
          /\ UNCHANGED <<dependencies, completed, running, finished>>
      BY <1>5 DEF Valid
    <2>2. InStack = {}
      BY <2>1 DEF InStack
    <2>3. Returned \cap InGraph = InGraph
      BY <2>1, <2>2 DEF Returned
    <2>4. Acyclic
      BY <2>3 DEF SearchInv, Acyclic
    <2>5. Acyclic'
      BY <2>1, <2>4 DEF Acyclic
    <2>6. QED BY <2>1, <2>5 DEF WaveInv
  <1>6. ASSUME Wave
        PROVE  WaveInv'
    <2>1. /\ run = "wave" /\ running' = Ready /\ running \cup finished = {} /\ Acyclic
          /\ UNCHANGED <<dependencies, completed, finished>>
      BY <1>6 DEF Wave, WaveInv
    <2>2. Acyclic'
      BY <2>1 DEF Acyclic
    <2>3. \A t \in running' \cup finished' \cup completed' : dependencies'[t] \subseteq completed'
      BY <2>1 DEF WaveInv, Ready
    <2>4. CASE Ready # {}
      BY <1>6, <2>1, <2>2, <2>3, <2>4 DEF Wave, WaveInv
    <2>5. CASE Ready = {} /\ Cardinality(completed) = Cardinality(InGraph)
      <3>1. completed = InGraph
        <4>1. IsFiniteSet(InGraph) /\ completed \subseteq InGraph
          BY GraphAssumption, FS_Subset DEF GraphTypeOK, GraphAssumption
        <4>2. QED BY <2>5, <4>1, FS_Subset
      <3>2. run' = "ok"
        BY <1>6, <2>5 DEF Wave
      <3>3. QED BY <2>1, <2>2, <2>3, <3>1, <3>2 DEF WaveInv
    <2>6. CASE Ready = {} /\ Cardinality(completed) # Cardinality(InGraph)
      <3>1. completed # InGraph /\ completed \subseteq InGraph
        BY <2>6 DEF GraphTypeOK
      <3>2. PICK t \in InGraph \ completed : dependencies[t] \cap (InGraph \ completed) = {}
        <4> DEFINE ts == InGraph \ completed
        <4>1. ts # {} /\ ts \subseteq InGraph
          BY ONLY <3>1
        <4> HIDE DEF ts
        <4>2. \E t \in ts : dependencies[t] \cap ts = {}
          BY ONLY <2>1, <4>1 DEF Acyclic
        <4>3. QED BY <4>2 DEF ts
      <3>3. ~ (dependencies[t] \subseteq InGraph)
        BY <2>6, <3>2 DEF Ready
      <3>4. run' = "deadlock"
        BY <1>6, <2>6 DEF Wave
      <3>5. QED BY <2>1, <2>2, <2>3, <3>2, <3>3, <3>4 DEF WaveInv
    <2>7. QED BY <2>4, <2>5, <2>6
  <1>7. ASSUME NEW t \in GraphTasks, Answer(t) \/ Fail(t)
        PROVE  WaveInv'
    BY <1>7 DEF Answer, Fail, WaveInv, Acyclic
  <1>8. ASSUME WaveDone
        PROVE  WaveInv'
    BY <1>8 DEF WaveDone, WaveInv, Acyclic
  <1>9. CASE UNCHANGED graphVars
    BY <1>9 DEF graphVars, WaveInv, Acyclic
  <1>10. QED
    BY <1>1, <1>2, <1>3, <1>4, <1>5, <1>6, <1>7, <1>8, <1>9 DEF GraphNext

LEMMA GraphInit0 == GraphInit => GraphInv
  <1> SUFFICES ASSUME GraphInit
               PROVE  GraphInv
    OBVIOUS
  <1> USE DEF GraphInit
  <1>1. InGraph = {} /\ InStack = {} /\ Returned = {} /\ DOMAIN stack = {}
    BY DEF NoGraph, InGraph, InStack, Returned
  <1>2. GraphTypeOK
    BY <1>1 DEF GraphTypeOK, NoGraph, Runs, InGraph
  <1>3. SearchInv
    <2>1. \A ts \in SUBSET (Returned \cap InGraph) : ts = {}
      BY <1>1
    <2>2. \A ts \in (SUBSET (Returned \cap InGraph)) \ {{}} : FALSE
      BY <2>1, Zenon
    <2>3. /\ \A i \in DOMAIN stack : OnPath(i)
          /\ \A t \in Returned : DependenciesOf(t) \subseteq Returned
          /\ \A i, j \in DOMAIN stack : stack[i].task = stack[j].task => i = j
          /\ InStack \subseteq visited
      BY <1>1
    <2>4. QED BY <2>2, <2>3, Zenon DEF SearchInv
  <1>4. WaveInv
    BY DEF WaveInv, GraphRun
  <1>5. QED BY <1>2, <1>3, <1>4 DEF GraphInv

LEMMA GraphNext0 ==
  ASSUME GraphInv, [GraphNext]_graphVars
  PROVE  GraphInv'
  BY GraphTypeNext, SearchNext, WaveNext DEF GraphInv

\* The graph's invariant.
LEMMA GraphCorrect == GraphSpec => []GraphInv
  <1>1. ASSUME GraphInv, [GraphNext]_<<graphVars, budget>>
        PROVE  GraphInv'
    <2>1. [GraphNext]_graphVars
      BY <1>1
    <2>2. QED BY <1>1, <2>1, GraphNext0
  <1>2. QED BY <1>1, GraphInit0, PTL DEF GraphSpec

LEMMA GraphInvSays == GraphInv => GraphTypeOK /\ GraphRun
  BY DEF GraphInv, WaveInv

\* Whatever graph is executed and in whatever order its tasks are visited and
\* end: validate reports a cycle if and only if there is one, and execute runs
\* no task before those it depends on.
THEOREM GraphRunsInOrder == GraphSpec => []GraphRun
  <1>1. QED BY GraphCorrect, GraphInvSays, PTL

-----------------------------------------------------------------------------
(* The priority scheduler.                                                 *)

Queued == [id : TaskIds, number : 1 .. enqueues]

\* What the types say of a level.
LEMMA LevelFacts ==
  ASSUME SchedulerTypeOK
  PROVE  /\ enqueues \in Nat /\ DOMAIN levels = Priorities
         /\ \A l \in Priorities :
              /\ levels[l] \in Seq(Queued) /\ Len(levels[l]) \in Nat
              /\ DOMAIN levels[l] = 1 .. Len(levels[l])
              /\ \A i \in DOMAIN levels[l] :
                   levels[l][i] \in Queued /\ levels[l][i].number \in 1 .. enqueues
  <1>1. ASSUME NEW l \in Priorities
        PROVE  levels[l] \in Seq(Queued)
    BY DEF SchedulerTypeOK, Queued
  <1>2. ASSUME NEW l \in Priorities
        PROVE  /\ Len(levels[l]) \in Nat
               /\ DOMAIN levels[l] = 1 .. Len(levels[l])
               /\ \A i \in DOMAIN levels[l] : levels[l][i] \in Queued
    BY <1>1
  <1>3. \A e \in Queued : e.number \in 1 .. enqueues
    BY DEF Queued
  <1>4. QED BY <1>1, <1>2, <1>3 DEF SchedulerTypeOK

\* The old entries of a level and the others, each in the order they had.
LEMMA OldAndYoung ==
  ASSUME SchedulerTypeOK, NEW l \in Priorities
  PROVE  /\ Old(l) \in Seq(Queued) /\ Young(l) \in Seq(Queued)
         /\ \A i \in DOMAIN Old(l) : Nth(OldAt(l), i) \in OldAt(l)
                                      /\ Old(l)[i] = levels[l][Nth(OldAt(l), i)]
         /\ \A i \in DOMAIN Young(l) :
              Nth(YoungAt(l), i) \in YoungAt(l)
                /\ Young(l)[i] = levels[l][Nth(YoungAt(l), i)]
         /\ \A i, j \in DOMAIN Old(l) :
              Nth(OldAt(l), i) = Nth(OldAt(l), j) => i = j
         /\ \A i, j \in DOMAIN Young(l) :
              Nth(YoungAt(l), i) = Nth(YoungAt(l), j) => i = j
         /\ \A j \in OldAt(l) : \E i \in DOMAIN Old(l) :
              Nth(OldAt(l), i) = j /\ Old(l)[i] = levels[l][j]
         /\ \A j \in YoungAt(l) : \E i \in DOMAIN Young(l) :
              Nth(YoungAt(l), i) = j /\ Young(l)[i] = levels[l][j]
  <1>1. /\ levels[l] \in Seq(Queued) /\ Len(levels[l]) \in Nat
        /\ DOMAIN levels[l] = 1 .. Len(levels[l])
    BY LevelFacts
  <1>2. ASSUME NEW I \in SUBSET DOMAIN levels[l]
        PROVE  /\ Kept(levels[l], I) \in Seq(Queued)
               /\ \A i \in DOMAIN Kept(levels[l], I) :
                    Nth(I, i) \in I /\ Kept(levels[l], I)[i] = levels[l][Nth(I, i)]
               /\ \A i, j \in DOMAIN Kept(levels[l], I) : Nth(I, i) = Nth(I, j) => i = j
               /\ \A j \in I : \E i \in DOMAIN Kept(levels[l], I) :
                    Nth(I, i) = j /\ Kept(levels[l], I)[i] = levels[l][j]
    <2>1. /\ Kept(levels[l], I) \in Seq(Queued)
          /\ Len(Kept(levels[l], I)) = Cardinality(I)
          /\ \A k \in 1 .. Cardinality(I) : Kept(levels[l], I)[k] = levels[l][Nth(I, k)]
      BY <1>1, KeptFacts
    <2>2. DOMAIN Kept(levels[l], I) = 1 .. Cardinality(I)
      BY <2>1
    <2>3. /\ \A k \in 1 .. Cardinality(I) : Nth(I, k) \in I
          /\ \A i \in I : Nth(I, Cardinality(I \cap 1 .. i)) = i
          /\ \A i \in I : Cardinality(I \cap 1 .. i) \in 1 .. Cardinality(I)
          /\ \A k, m \in 1 .. Cardinality(I) : Nth(I, k) = Nth(I, m) => k = m
      <3>1. I \in SUBSET (1 .. Len(levels[l]))
        BY <1>1
      <3>2. /\ \A k \in 1 .. Cardinality(I) :
                 Nth(I, k) \in I /\ Cardinality(I \cap 1 .. Nth(I, k)) = k
            /\ \A i \in I : Nth(I, Cardinality(I \cap 1 .. i)) = i
        BY <1>1, <3>1, NthFacts
      <3>3. \A i \in I : Cardinality(I \cap 1 .. i) \in 1 .. Cardinality(I)
        BY <1>1, <3>1, RankFacts
      <3>4. QED BY <3>2, <3>3
    <2>4. QED BY <2>1, <2>2, <2>3
  <1>3. OldAt(l) \in SUBSET DOMAIN levels[l] /\ YoungAt(l) \in SUBSET DOMAIN levels[l]
    BY DEF OldAt, YoungAt
  <1>4. QED BY <1>2, <1>3 DEF Old, Young

\* Where the parts of the highest level start once the old ones are promoted.
Offset(k) ==
  Len(levels[0]) + (IF k > 1 THEN Len(Old(1)) ELSE 0) + (IF k > 2 THEN Len(Old(2)) ELSE 0)

\* The entry that ageing leaves at i of level l was at j of level k.
From(l, i, k, j) ==
  /\ l \in Priorities /\ i \in DOMAIN AgedLevels[l]
  /\ k \in Priorities /\ j \in DOMAIN levels[k]
  /\ AgedLevels[l][i] = levels[k][j]
  /\ \/ l = 0 /\ k = 0 /\ i = j
     \/ l = 0 /\ k # 0 /\ \E m \in DOMAIN Old(k) : i = Offset(k) + m /\ j = Nth(OldAt(k), m)
     \/ l # 0 /\ k = l /\ i \in DOMAIN Young(l) /\ j = Nth(YoungAt(l), i)

\* s is a and then b.
InARow(a, b, s) ==
  /\ Len(s) = Len(a) + Len(b)
  /\ \A i \in DOMAIN a : i \in DOMAIN s /\ s[i] = a[i]
  /\ \A i \in DOMAIN b : Len(a) + i \in DOMAIN s /\ s[Len(a) + i] = b[i]
  /\ \A i \in DOMAIN s : i \in DOMAIN a \/ \E m \in DOMAIN b : i = Len(a) + m

LEMMA TwoInARow ==
  ASSUME NEW S, NEW a \in Seq(S), NEW b \in Seq(S), NEW s, s = a \o b
  PROVE  s \in Seq(S) /\ InARow(a, b, s)
  <1>1. /\ s \in Seq(S) /\ Len(s) = Len(a) + Len(b)
        /\ \A i \in 1 .. Len(s) : s[i] = IF i <= Len(a) THEN a[i] ELSE b[i - Len(a)]
    BY ConcatProperties
  <1>2. PICK la, lb \in Nat : la = Len(a) /\ lb = Len(b)
    OBVIOUS
  <1>3. DOMAIN a = 1 .. la /\ DOMAIN b = 1 .. lb
    BY <1>2
  <1>4. DOMAIN s = 1 .. la + lb
    BY <1>1, <1>2
  <1>5. \A i \in 1 .. la : i \in 1 .. la + lb /\ s[i] = a[i]
    BY ONLY <1>1, <1>2
  <1>6. \A i \in 1 .. lb : la + i \in 1 .. la + lb /\ s[la + i] = b[i]
    <2> TAKE i \in 1 .. lb
    <2>1. la + i \in 1 .. la + lb /\ ~ (la + i <= la) /\ (la + i) - la = i
      OBVIOUS
    <2>2. s[la + i] = b[(la + i) - la]
      BY ONLY <1>1, <1>2, <2>1
    <2>3. QED BY <2>1, <2>2
  <1>7. \A i \in 1 .. la + lb : i \in 1 .. la \/ \E m \in 1 .. lb : i = la + m
    <2> TAKE i \in 1 .. la + lb
    <2>1. i > la => i - la \in 1 .. lb /\ i = la + (i - la)
      OBVIOUS
    <2>2. i <= la => i \in 1 .. la
      OBVIOUS
    <2>3. QED BY <2>1, <2>2
  <1>8. QED
    BY <1>1, <1>2, <1>3, <1>4, <1>5, <1>6, <1>7 DEF InARow

FourParts(a, b, c, d, s) ==
  /\ \A i \in DOMAIN a : i \in DOMAIN s /\ s[i] = a[i]
  /\ \A i \in DOMAIN b : Len(a) + i \in DOMAIN s /\ s[Len(a) + i] = b[i]
  /\ \A i \in DOMAIN c :
       Len(a) + Len(b) + i \in DOMAIN s /\ s[Len(a) + Len(b) + i] = c[i]
  /\ \A i \in DOMAIN d :
       /\ Len(a) + Len(b) + Len(c) + i \in DOMAIN s
       /\ s[Len(a) + Len(b) + Len(c) + i] = d[i]
  /\ \A i \in DOMAIN s :
       \/ i \in DOMAIN a
       \/ \E m \in DOMAIN b : i = Len(a) + m
       \/ \E m \in DOMAIN c : i = Len(a) + Len(b) + m
       \/ \E m \in DOMAIN d : i = Len(a) + Len(b) + Len(c) + m

LEMMA FourInARow ==
  ASSUME NEW S, NEW a \in Seq(S), NEW b \in Seq(S), NEW c \in Seq(S), NEW d \in Seq(S),
         NEW s, s = a \o b \o c \o d
  PROVE  s \in Seq(S) /\ FourParts(a, b, c, d, s)
  <1>1. PICK ab : ab = a \o b
    OBVIOUS
  <1>2. ab \in Seq(S) /\ InARow(a, b, ab)
    BY <1>1, TwoInARow
  <1>3. PICK abc : abc = ab \o c
    OBVIOUS
  <1>4. abc \in Seq(S) /\ InARow(ab, c, abc)
    BY <1>2, <1>3, TwoInARow
  <1>5. s = abc \o d
    BY <1>1, <1>3
  <1>6. s \in Seq(S) /\ InARow(abc, d, s)
    BY <1>4, <1>5, TwoInARow
  <1>7. /\ Len(ab) = Len(a) + Len(b) /\ Len(abc) = Len(a) + Len(b) + Len(c)
    BY ONLY <1>2, <1>4 DEF InARow
  <1>8. \A i \in DOMAIN ab : i \in DOMAIN s /\ s[i] = ab[i]
    BY ONLY <1>4, <1>6 DEF InARow
  <1>9. \A i \in DOMAIN b : Len(a) + i \in DOMAIN s /\ s[Len(a) + i] = b[i]
    BY ONLY <1>2, <1>8 DEF InARow
  <1>10. \A i \in DOMAIN c :
           Len(a) + Len(b) + i \in DOMAIN s /\ s[Len(a) + Len(b) + i] = c[i]
    <2>1. \A i \in DOMAIN c : Len(ab) + i \in DOMAIN s /\ s[Len(ab) + i] = c[i]
      BY ONLY <1>4, <1>6 DEF InARow
    <2>2. QED BY ONLY <1>7, <2>1
  <1>11. \A i \in DOMAIN d :
           /\ Len(a) + Len(b) + Len(c) + i \in DOMAIN s
           /\ s[Len(a) + Len(b) + Len(c) + i] = d[i]
    BY ONLY <1>6, <1>7 DEF InARow
  <1>12. ASSUME NEW i \in DOMAIN s
         PROVE  \/ i \in DOMAIN a
                \/ \E m \in DOMAIN b : i = Len(a) + m
                \/ \E m \in DOMAIN c : i = Len(a) + Len(b) + m
                \/ \E m \in DOMAIN d : i = Len(a) + Len(b) + Len(c) + m
    <2>1. CASE i \in DOMAIN ab
      BY ONLY <1>2, <2>1 DEF InARow
    <2>2. CASE \E m \in DOMAIN c : i = Len(ab) + m
      BY ONLY <1>7, <2>2
    <2>3. CASE \E m \in DOMAIN d : i = Len(abc) + m
      BY ONLY <1>7, <2>3
    <2>4. QED BY ONLY <1>4, <1>6, <1>12, <2>1, <2>2, <2>3 DEF InARow
  <1>13. \A i \in DOMAIN a : i \in DOMAIN s /\ s[i] = a[i]
    BY ONLY <1>2, <1>8 DEF InARow
  <1>14. QED
    BY ONLY <1>6, <1>9, <1>10, <1>11, <1>12, <1>13 DEF FourParts

\* Ageing loses no entry, and it invents and doubles none.
LEMMA AgedFacts ==
  ASSUME SchedulerTypeOK
  PROVE  /\ \A l \in Priorities : AgedLevels[l] \in Seq(Queued)
         /\ \A l \in Priorities : \A i \in DOMAIN AgedLevels[l] :
              \E k \in Priorities : \E j \in DOMAIN levels[k] : From(l, i, k, j)
         /\ \A k \in Priorities : \A j \in DOMAIN levels[k] :
              \E l \in Priorities : \E i \in DOMAIN AgedLevels[l] :
                /\ From(l, i, k, j)
                /\ k = 0 => l = 0 /\ i = j
                /\ j \in OldAt(k) => l = 0
  <1>1. /\ AgedLevels[0] = levels[0] \o Old(1) \o Old(2) \o Old(3)
        /\ \A l \in {1, 2, 3} : AgedLevels[l] = Young(l)
        /\ Priorities = {0, 1, 2, 3}
    BY DEF AgedLevels, Priorities
  <1>2. /\ levels[0] \in Seq(Queued)
        /\ \A l \in {1, 2, 3} : Old(l) \in Seq(Queued) /\ Young(l) \in Seq(Queued)
    BY <1>1, LevelFacts, OldAndYoung
  <1>3. /\ Offset(1) = Len(levels[0])
        /\ Offset(2) = Len(levels[0]) + Len(Old(1))
        /\ Offset(3) = Len(levels[0]) + Len(Old(1)) + Len(Old(2))
    <2>1. Len(levels[0]) \in Nat /\ Len(Old(1)) \in Nat /\ Len(Old(2)) \in Nat
      BY <1>2
    <2>2. QED BY <2>1 DEF Offset
  <1>4. /\ AgedLevels[0] \in Seq(Queued)
        /\ \A i \in DOMAIN levels[0] :
             i \in DOMAIN AgedLevels[0] /\ AgedLevels[0][i] = levels[0][i]
        /\ \A k \in {1, 2, 3} : \A i \in DOMAIN Old(k) :
             /\ Offset(k) + i \in DOMAIN AgedLevels[0]
             /\ AgedLevels[0][Offset(k) + i] = Old(k)[i]
        /\ \A i \in DOMAIN AgedLevels[0] :
             \/ i \in DOMAIN levels[0]
             \/ \E k \in {1, 2, 3} : \E m \in DOMAIN Old(k) : i = Offset(k) + m
    <2>1. PICK s : s = AgedLevels[0]
      OBVIOUS
    <2>2. s \in Seq(Queued) /\ FourParts(levels[0], Old(1), Old(2), Old(3), s)
      <3>1. s = levels[0] \o Old(1) \o Old(2) \o Old(3)
        BY <1>1, <2>1
      <3>2. Old(1) \in Seq(Queued) /\ Old(2) \in Seq(Queued) /\ Old(3) \in Seq(Queued)
        BY <1>2
      <3>3. QED BY ONLY <1>2, <3>1, <3>2, FourInARow
    <2>3. QED BY ONLY <1>3, <2>1, <2>2 DEF FourParts
  <1>5. \A l \in Priorities : AgedLevels[l] \in Seq(Queued)
    BY <1>1, <1>2, <1>4
  <1>6. ASSUME NEW l \in Priorities, NEW i \in DOMAIN AgedLevels[l]
        PROVE  \E k \in Priorities : \E j \in DOMAIN levels[k] : From(l, i, k, j)
    <2>1. CASE l = 0 /\ i \in DOMAIN levels[0]
      BY <1>1, <1>4, <2>1 DEF From
    <2>2. ASSUME l = 0, NEW k \in {1, 2, 3}, NEW m \in DOMAIN Old(k), i = Offset(k) + m
          PROVE  \E j \in DOMAIN levels[k] : From(l, i, k, j)
      <3>1. /\ k \in Priorities /\ k # 0
            /\ Nth(OldAt(k), m) \in OldAt(k) /\ Old(k)[m] = levels[k][Nth(OldAt(k), m)]
        BY <1>1, OldAndYoung
      <3>2. Nth(OldAt(k), m) \in DOMAIN levels[k]
        BY <3>1 DEF OldAt
      <3>3. AgedLevels[l][i] = Old(k)[m]
        BY <1>4, <2>2
      <3>4. QED BY <1>4, <2>2, <3>1, <3>2, <3>3 DEF From
    <2>3. CASE l # 0
      <3>1. l \in {1, 2, 3} /\ AgedLevels[l] = Young(l)
        BY <1>1, <2>3
      <3>2. /\ Nth(YoungAt(l), i) \in YoungAt(l)
            /\ Young(l)[i] = levels[l][Nth(YoungAt(l), i)]
        BY <3>1, OldAndYoung
      <3>3. Nth(YoungAt(l), i) \in DOMAIN levels[l]
        BY <3>2 DEF YoungAt
      <3>4. QED BY <2>3, <3>1, <3>2, <3>3 DEF From
    <2>4. QED BY <1>1, <1>4, <2>1, <2>2, <2>3
  <1>7. ASSUME NEW k \in Priorities, NEW j \in DOMAIN levels[k]
        PROVE  \E l \in Priorities : \E i \in DOMAIN AgedLevels[l] :
                 /\ From(l, i, k, j)
                 /\ k = 0 => l = 0 /\ i = j
                 /\ j \in OldAt(k) => l = 0
    <2>1. CASE k = 0
      BY <1>1, <1>4, <2>1 DEF From
    <2>2. CASE k # 0 /\ j \in OldAt(k)
      <3>1. k \in {1, 2, 3}
        BY <1>1, <2>2
      <3>2. PICK m \in DOMAIN Old(k) : Nth(OldAt(k), m) = j /\ Old(k)[m] = levels[k][j]
        BY <2>2, OldAndYoung
      <3>3. Offset(k) + m \in DOMAIN AgedLevels[0] /\ AgedLevels[0][Offset(k) + m] = levels[k][j]
        BY <1>4, <3>1, <3>2
      <3>4. From(0, Offset(k) + m, k, j)
        BY <1>1, <2>2, <3>2, <3>3 DEF From
      <3>5. QED BY <1>1, <2>2, <3>3, <3>4
    <2>3. CASE k # 0 /\ j \notin OldAt(k)
      <3>1. k \in {1, 2, 3} /\ AgedLevels[k] = Young(k) /\ j \in YoungAt(k)
        BY <1>1, <2>3 DEF YoungAt
      <3>2. PICK i \in DOMAIN Young(k) : Nth(YoungAt(k), i) = j /\ Young(k)[i] = levels[k][j]
        BY <3>1, OldAndYoung
      <3>3. From(k, i, k, j)
        BY <2>3, <3>1, <3>2 DEF From
      <3>4. QED BY <2>3, <3>1, <3>2, <3>3
    <2>4. QED BY <2>1, <2>2, <2>3
  <1>8. QED BY <1>5, <1>6, <1>7

\* No two places hold after ageing what was at one place before.
LEMMA FromOnePlace ==
  ASSUME SchedulerTypeOK, NEW l, NEW i, NEW m, NEW n, NEW k, NEW j,
         From(l, i, k, j), From(m, n, k, j)
  PROVE  l = m /\ i = n
  <1>1. k \in Priorities
    BY DEF From
  <1>2. CASE k = 0
    BY <1>2 DEF From
  <1>3. CASE k # 0 /\ j \in OldAt(k)
    <2>1. \A x \in DOMAIN Young(k) : Nth(YoungAt(k), x) # j
      <3>1. \A x \in DOMAIN Young(k) : Nth(YoungAt(k), x) \in YoungAt(k)
        BY <1>1, OldAndYoung
      <3>2. QED BY <1>3, <3>1 DEF YoungAt
    <2>2. l = 0 /\ m = 0
      BY <1>3, <2>1 DEF From
    <2>3. PICK x \in DOMAIN Old(k) : i = Offset(k) + x /\ j = Nth(OldAt(k), x)
      BY <1>3, <2>2 DEF From
    <2>4. PICK y \in DOMAIN Old(k) : n = Offset(k) + y /\ j = Nth(OldAt(k), y)
      BY <1>3, <2>2 DEF From
    <2>5. x = y
      BY <1>1, <2>3, <2>4, OldAndYoung
    <2>6. QED BY <2>2, <2>3, <2>4, <2>5
  <1>4. CASE k # 0 /\ j \notin OldAt(k)
    <2>1. \A x \in DOMAIN Old(k) : Nth(OldAt(k), x) # j
      BY <1>1, <1>4, OldAndYoung
    <2>2. /\ l = k /\ i \in DOMAIN Young(k) /\ j = Nth(YoungAt(k), i)
          /\ m = k /\ n \in DOMAIN Young(k) /\ j = Nth(YoungAt(k), n)
      BY <1>4, <2>1 DEF From
    <2>3. QED BY <1>1, <2>2, OldAndYoung
  <1>5. QED BY <1>2, <1>3, <1>4

-----------------------------------------------------------------------------
(* The steps.                                                              *)

LEMMA LevelWidens ==
  ASSUME NEW S, NEW T, S \subseteq T, NEW s \in Seq(S)
  PROVE  s \in Seq(T)
  OBVIOUS

\* A dequeue takes the first entry of one level of what ageing leaves.
Dequeued(l, ls) ==
  \A k \in Priorities :
    /\ ls[k] \in Seq(Queued)
    /\ \A i \in DOMAIN ls[k] :
         /\ k = l => i + 1 \in DOMAIN AgedLevels[k] /\ ls[k][i] = AgedLevels[k][i + 1]
         /\ k # l => i \in DOMAIN AgedLevels[k] /\ ls[k][i] = AgedLevels[k][i]
    /\ \A i \in DOMAIN AgedLevels[k] :
         /\ k # l => i \in DOMAIN ls[k] /\ ls[k][i] = AgedLevels[k][i]
         /\ k = l /\ i # 1 => i - 1 \in DOMAIN ls[k] /\ ls[k][i - 1] = AgedLevels[k][i]

LEMMA DequeueFacts ==
  ASSUME SchedulerTypeOK, NEW l, l \in Chosen(AgedLevels),
         levels' = [AgedLevels EXCEPT ![l] = Tail(@)]
  PROVE  /\ l \in Priorities /\ 1 \in DOMAIN AgedLevels[l]
         /\ Head(AgedLevels[l]) = AgedLevels[l][1] /\ Head(AgedLevels[l]) \in Queued
         /\ Strict => \A k \in Priorities : AgedLevels[k] # <<>> => l <= k
         /\ Dequeued(l, levels')
  <1>1. /\ l \in Priorities /\ AgedLevels[l] # <<>>
        /\ Strict => \A k \in Priorities : AgedLevels[k] # <<>> => l <= k
    BY DEF Chosen, Waiting
  <1>2. DOMAIN AgedLevels = Priorities
    BY DEF AgedLevels
  <1>3. \A k \in Priorities : k # l => levels'[k] = AgedLevels[k]
    BY <1>2
  <1>4. levels'[l] = Tail(AgedLevels[l])
    BY <1>1, <1>2
  <1>5. \A k \in Priorities : AgedLevels[k] \in Seq(Queued)
    BY AgedFacts
  <1>6. PICK s \in Seq(Queued) : s = AgedLevels[l] /\ s # <<>>
    BY <1>1, <1>5
  <1>7. /\ Len(s) \in Nat /\ DOMAIN s = 1 .. Len(s) /\ Len(s) # 0
        /\ Head(s) = s[1] /\ s[1] \in Queued /\ 1 \in DOMAIN s
    BY ONLY s \in Seq(Queued), <1>6
  <1>8. /\ Tail(s) \in Seq(Queued) /\ Len(Tail(s)) = Len(s) - 1
        /\ DOMAIN Tail(s) = 1 .. Len(s) - 1
        /\ \A i \in 1 .. Len(s) - 1 : Tail(s)[i] = s[i + 1]
    <2>1. /\ Tail(s) \in Seq(Queued) /\ Len(Tail(s)) = Len(s) - 1
          /\ \A i \in 1 .. Len(Tail(s)) : Tail(s)[i] = s[i + 1]
      BY ONLY <1>6, s \in Seq(Queued), HeadTailProperties
    <2>2. DOMAIN Tail(s) = 1 .. Len(Tail(s))
      BY ONLY <2>1
    <2>3. QED BY <2>1, <2>2
  <1>9. PICK t : t = Tail(s)
    OBVIOUS
  <1>10. /\ \A i \in DOMAIN t : i + 1 \in DOMAIN s /\ t[i] = s[i + 1]
         /\ \A i \in DOMAIN s : i # 1 => i - 1 \in DOMAIN t /\ t[i - 1] = s[i]
    <2>1. \A i \in 1 .. Len(s) - 1 : i + 1 \in 1 .. Len(s)
      BY <1>7
    <2>2. \A i \in 1 .. Len(s) : i # 1 => i - 1 \in 1 .. Len(s) - 1 /\ i - 1 + 1 = i
      BY <1>7
    <2>3. QED BY ONLY <1>7, <1>8, <1>9, <2>1, <2>2
  <1>11. ASSUME NEW k \in Priorities
         PROVE  /\ levels'[k] \in Seq(Queued)
                /\ \A i \in DOMAIN levels'[k] :
                     /\ k = l => i + 1 \in DOMAIN AgedLevels[k] /\ levels'[k][i] = AgedLevels[k][i + 1]
                     /\ k # l => i \in DOMAIN AgedLevels[k] /\ levels'[k][i] = AgedLevels[k][i]
                /\ \A i \in DOMAIN AgedLevels[k] :
                     /\ k # l => i \in DOMAIN levels'[k] /\ levels'[k][i] = AgedLevels[k][i]
                     /\ k = l /\ i # 1 =>
                          i - 1 \in DOMAIN levels'[k] /\ levels'[k][i - 1] = AgedLevels[k][i]
    <2>1. CASE k = l
      <3>1. levels'[k] = t /\ AgedLevels[k] = s
        BY ONLY <1>4, <1>6, <1>9, <2>1
      <3>2. t \in Seq(Queued)
        BY ONLY <1>8, <1>9
      <3>3. QED BY ONLY <1>10, <2>1, <3>1, <3>2
    <2>2. CASE k # l
      BY ONLY <1>3, <1>5, k \in Priorities, <2>2
    <2>3. QED BY ONLY <2>1, <2>2
  <1>12. QED
    BY ONLY <1>1, <1>6, <1>7, <1>11 DEF Dequeued

\* The type of every variable.
LEMMA SchedulerTypeNext ==
  ASSUME SchedulerTypeOK, [SchedulerNext]_schedulerVars
  PROVE  SchedulerTypeOK'
  <1>1. ASSUME NewScheduler \/ Age \/ UNCHANGED schedulerVars
        PROVE  SchedulerTypeOK'
    <2>1. UNCHANGED <<levels, dequeueCounts, enqueues, served, aged>>
      BY <1>1 DEF NewScheduler, Age, schedulerVars
    <2>2. weights' \in WeightSets \cup {EqualWeights}
      BY <1>1 DEF NewScheduler, Age, schedulerVars, SchedulerTypeOK
    <2>3. waits' \in [TaskIds -> 0 .. PromoteAfter \cup {Untimed}]
      <3>1. CASE Age
        <4>1. \A t \in TaskIds : waits[t] \in 0 .. PromoteAfter - 1
                                  => waits[t] + 1 \in 0 .. PromoteAfter
          BY SchedulerAssumption DEF SchedulerAssumption
        <4>2. QED BY <3>1, <4>1 DEF Age, SchedulerTypeOK
      <3>2. QED BY <1>1, <3>1 DEF NewScheduler, schedulerVars, SchedulerTypeOK
    <2>4. QED BY <2>1, <2>2, <2>3 DEF SchedulerTypeOK
  <1>2. ASSUME NEW t \in TaskIds, NEW p \in Priorities, EnqueueAt(t, p)
        PROVE  SchedulerTypeOK'
    <2>1. /\ enqueues' = enqueues + 1 /\ enqueues \in Nat
          /\ UNCHANGED <<weights, dequeueCounts, served, aged>>
      BY <1>2 DEF EnqueueAt, SchedulerTypeOK
    <2>2. 1 .. enqueues \subseteq 1 .. enqueues' /\ enqueues + 1 \in 1 .. enqueues' /\ enqueues' \in Nat
      BY <2>1
    <2>3. Queued \subseteq Queued' /\ [id |-> t, number |-> enqueues + 1] \in Queued'
      BY <2>2 DEF Queued
    <2>4. levels' \in [Priorities -> Seq(Queued')]
      <3>1. \A l \in Priorities : levels[l] \in Seq(Queued')
        BY <2>3, LevelFacts, LevelWidens
      <3>2. Append(levels[p], [id |-> t, number |-> enqueues + 1]) \in Seq(Queued')
        BY <2>3, <3>1
      <3>3. levels' = [l \in Priorities |-> IF l = p THEN Append(levels[p], [id |-> t, number |-> enqueues + 1])
                                            ELSE levels[l]]
        BY <1>2 DEF EnqueueAt, SchedulerTypeOK
      <3>4. QED BY <3>1, <3>2, <3>3
    <2>5. served' \in Seq(1 .. enqueues')
      BY <2>1, <2>2, LevelWidens DEF SchedulerTypeOK
    <2>6. aged' \subseteq [entry : 1 .. enqueues', last : 1 .. enqueues', after : Nat]
      BY <2>1, <2>2 DEF SchedulerTypeOK
    <2>7. waits' \in [TaskIds -> 0 .. PromoteAfter \cup {Untimed}]
      BY <1>2, SchedulerAssumption DEF SchedulerAssumption, EnqueueAt, SchedulerTypeOK
    <2>8. QED
      BY <2>1, <2>2, <2>4, <2>5, <2>6, <2>7 DEF SchedulerTypeOK, Queued
  <1>3. ASSUME DequeueNext
        PROVE  SchedulerTypeOK'
    <2>1. PICK l \in Chosen(AgedLevels) :
            LET e == Head(AgedLevels[l])
            IN  /\ levels' = [AgedLevels EXCEPT ![l] = Tail(@)]
                /\ waits' = [waits EXCEPT ![e.id] = Untimed]
                /\ dequeueCounts' = IF Strict THEN dequeueCounts
                                    ELSE [dequeueCounts EXCEPT ![l] = @ + 1]
                /\ served' = Append(served, e.number)
                /\ aged' = aged \cup
                     {[entry |-> x.number, last |-> enqueues, after |-> Len(served)] : x \in
                        {y \in Entries : IsOld(y) /\ \A g \in aged : g.entry # y.number}}
                /\ UNCHANGED <<weights, enqueues, budget>>
      BY <1>3 DEF DequeueNext
    <2>2. /\ l \in Priorities /\ Head(AgedLevels[l]) \in Queued
          /\ \A k \in Priorities : levels'[k] \in Seq(Queued)
      BY <2>1, DequeueFacts DEF Dequeued
    <2>3. levels' \in [Priorities -> Seq(Queued)]
      <3>1. levels' = [k \in Priorities |-> levels'[k]]
        BY <2>1 DEF AgedLevels
      <3>2. QED BY <2>2, <3>1
    <2>4. Head(AgedLevels[l]).number \in 1 .. enqueues /\ Head(AgedLevels[l]).id \in TaskIds
      BY <2>2 DEF Queued
    <2>5. served' \in Seq(1 .. enqueues) /\ Len(served) \in Nat
      BY <2>1, <2>4 DEF SchedulerTypeOK
    <2>6. waits' \in [TaskIds -> 0 .. PromoteAfter \cup {Untimed}]
      BY <2>1, <2>4 DEF SchedulerTypeOK
    <2>7. dequeueCounts' \in [Priorities -> Nat]
      BY <2>1, <2>2 DEF SchedulerTypeOK
    <2>8. aged' \subseteq [entry : 1 .. enqueues, last : 1 .. enqueues, after : Nat]
      <3>1. \A x \in Entries : x.number \in 1 .. enqueues /\ enqueues \in 1 .. enqueues
        BY LevelFacts DEF Entries
      <3>2. \A x \in Entries : [entry |-> x.number, last |-> enqueues, after |-> Len(served)]
                                \in [entry : 1 .. enqueues, last : 1 .. enqueues, after : Nat]
        BY <2>5, <3>1
      <3>3. QED BY <2>1, <3>2 DEF SchedulerTypeOK
    <2>9. QED
      BY <2>1, <2>3, <2>5, <2>6, <2>7, <2>8 DEF SchedulerTypeOK, Queued
  <1>4. QED
    BY <1>1, <1>2, <1>3 DEF SchedulerNext

\* A dequeue: what comes before an old entry was enqueued before it was found
\* old, and every number stays where one entry is.
LEMMA DequeueNextInv ==
  ASSUME SchedulerTypeOK, SchedulerInv, DequeueNext
  PROVE  SchedulerInv'
  <1>1. PICK l \in Chosen(AgedLevels) :
          LET e == Head(AgedLevels[l])
          IN  /\ levels' = [AgedLevels EXCEPT ![l] = Tail(@)]
              /\ waits' = [waits EXCEPT ![e.id] = Untimed]
              /\ dequeueCounts' = IF Strict THEN dequeueCounts
                                  ELSE [dequeueCounts EXCEPT ![l] = @ + 1]
              /\ served' = Append(served, e.number)
              /\ aged' = aged \cup
                   {[entry |-> x.number, last |-> enqueues, after |-> Len(served)] : x \in
                      {y \in Entries : IsOld(y) /\ \A g \in aged : g.entry # y.number}}
              /\ UNCHANGED <<weights, enqueues, budget>>
    BY DEF DequeueNext
  <1>2. PICK e \in Queued : e = AgedLevels[l][1] /\ served' = Append(served, e.number)
    BY <1>1, DequeueFacts
  <1>3. /\ l \in Priorities /\ 1 \in DOMAIN AgedLevels[l]
        /\ Strict => \A k \in Priorities : AgedLevels[k] # <<>> => l <= k
        /\ Dequeued(l, levels')
    BY <1>1, DequeueFacts
  <1>4. PICK n \in Nat :
          /\ n = Len(served) /\ DOMAIN served = 1 .. n /\ DOMAIN served' = 1 .. n + 1
          /\ \A j \in 1 .. n : served'[j] = served[j]
          /\ served'[n + 1] = e.number
          /\ Len(served') = n + 1
    <2>1. e.number \in 1 .. enqueues /\ served \in Seq(1 .. enqueues)
      BY <1>2 DEF Queued, SchedulerTypeOK
    <2>2. Len(served) \in Nat /\ DOMAIN served = 1 .. Len(served)
      BY <2>1
    <2>3. /\ served' \in Seq(1 .. enqueues) /\ Len(served') = Len(served) + 1
          /\ \A j \in 1 .. Len(served) : served'[j] = served[j]
          /\ served'[Len(served) + 1] = e.number
      BY ONLY <1>2, <2>1, AppendProperties
    <2>4. DOMAIN served' = 1 .. Len(served')
      BY ONLY <2>3
    <2>5. QED BY <2>2, <2>3, <2>4
  <1>5. PICK j0, k0 : From(l, 1, k0, j0)
    BY <1>3, AgedFacts
  <1>6. ASSUME NEW k \in Priorities, NEW i \in DOMAIN levels'[k]
        PROVE  \E m \in Priorities : \E j \in DOMAIN levels[m] :
                 From(k, IF k = l THEN i + 1 ELSE i, m, j) /\ levels'[k][i] = levels[m][j]
    <2>1. PICK x : x = (IF k = l THEN i + 1 ELSE i)
      OBVIOUS
    <2>2. x \in DOMAIN AgedLevels[k] /\ levels'[k][i] = AgedLevels[k][x]
      BY ONLY <1>3, <2>1, k \in Priorities, i \in DOMAIN levels'[k] DEF Dequeued
    <2>3. PICK m \in Priorities : \E j \in DOMAIN levels[m] : From(k, x, m, j)
      BY <2>2, AgedFacts
    <2>4. PICK j \in DOMAIN levels[m] : From(k, x, m, j)
      BY <2>3
    <2>5. QED BY <2>1, <2>2, <2>4 DEF From
  <1>7. ASSUME NEW k \in Priorities, NEW i \in DOMAIN AgedLevels[k]
        PROVE  \/ k = l /\ i = 1
               \/ \E j \in DOMAIN levels'[k] : levels'[k][j] = AgedLevels[k][i]
    <2>1. /\ k # l => i \in DOMAIN levels'[k] /\ levels'[k][i] = AgedLevels[k][i]
          /\ k = l /\ i # 1 =>
               i - 1 \in DOMAIN levels'[k] /\ levels'[k][i - 1] = AgedLevels[k][i]
      BY ONLY <1>3, k \in Priorities, i \in DOMAIN AgedLevels[k] DEF Dequeued
    <2>2. QED BY ONLY <2>1
  <1>8. ASSUME NEW k \in Priorities
        PROVE  DOMAIN levels'[k] \in SUBSET Nat
    <2>1. levels'[k] \in Seq(Queued)
      BY ONLY <1>3, k \in Priorities DEF Dequeued
    <2>2. QED BY <2>1
  <1>9. k0 \in Priorities /\ j0 \in DOMAIN levels[k0] /\ e = levels[k0][j0]
    BY <1>2, <1>5 DEF From
  <1>10. OnePlace'
    <2>1. ASSUME NEW k \in Priorities, NEW m \in Priorities,
                 NEW i \in DOMAIN levels'[k], NEW j \in DOMAIN levels'[m],
                 levels'[k][i].number = levels'[m][j].number
          PROVE  k = m /\ i = j
      <3>1. PICK x : x = (IF k = l THEN i + 1 ELSE i)
        OBVIOUS
      <3>2. PICK y : y = (IF m = l THEN j + 1 ELSE j)
        OBVIOUS
      <3>3. PICK p \in Priorities : \E a \in DOMAIN levels[p] :
              From(k, x, p, a) /\ levels'[k][i] = levels[p][a]
        BY <1>6, <3>1
      <3>33. PICK a \in DOMAIN levels[p] : From(k, x, p, a) /\ levels'[k][i] = levels[p][a]
        BY <3>3
      <3>4. PICK q \in Priorities : \E b \in DOMAIN levels[q] :
              From(m, y, q, b) /\ levels'[m][j] = levels[q][b]
        BY <1>6, <3>2
      <3>44. PICK b \in DOMAIN levels[q] : From(m, y, q, b) /\ levels'[m][j] = levels[q][b]
        BY <3>4
      <3>5. p = q /\ a = b
        BY <2>1, <3>33, <3>44 DEF SchedulerInv, OnePlace
      <3>6. k = m /\ x = y
        BY <3>33, <3>44, <3>5, FromOnePlace
      <3>7. i \in Nat /\ j \in Nat
        BY <1>8
      <3>8. QED BY ONLY <3>1, <3>2, <3>6, <3>7
    <2>2. \A i, j \in 1 .. n : served[i] = served[j] => i = j
      BY <1>4 DEF SchedulerInv, OnePlace
    <2>3. \A i \in 1 .. n : served[i] # e.number
      BY <1>4, <1>9 DEF SchedulerInv, OnePlace
    <2>4. \A i, j \in DOMAIN served' : served'[i] = served'[j] => i = j
      BY ONLY <1>4, <2>2, <2>3
    <2>5. ASSUME NEW k \in Priorities, NEW i \in DOMAIN levels'[k], NEW j \in DOMAIN served'
          PROVE  levels'[k][i].number # served'[j]
      <3>1. PICK x : x = (IF k = l THEN i + 1 ELSE i)
        OBVIOUS
      <3>2. PICK p \in Priorities : \E a \in DOMAIN levels[p] :
              From(k, x, p, a) /\ levels'[k][i] = levels[p][a]
        BY <1>6, <3>1
      <3>22. PICK a \in DOMAIN levels[p] : From(k, x, p, a) /\ levels'[k][i] = levels[p][a]
        BY <3>2
      <3>3. CASE j \in 1 .. n
        BY <1>4, <3>22, <3>3 DEF SchedulerInv, OnePlace
      <3>4. CASE j = n + 1 /\ levels'[k][i].number = e.number
        <4>1. p = k0 /\ a = j0
          BY <1>9, <3>22, <3>4 DEF SchedulerInv, OnePlace
        <4>2. k = l /\ x = 1
          BY <1>5, <3>22, <4>1, FromOnePlace
        <4>3. i \in Nat /\ i # 0
          <5>1. levels'[k] \in Seq(Queued)
            BY ONLY <1>3, k \in Priorities DEF Dequeued
          <5>2. QED BY <5>1
        <4>4. QED BY ONLY <3>1, <4>2, <4>3
      <3>5. QED BY <1>4, <3>3, <3>4
    <2>6. ASSUME NEW m \in 1 .. enqueues
          PROVE  \/ \E k \in Priorities : \E i \in DOMAIN levels'[k] : levels'[k][i].number = m
                 \/ \E j \in DOMAIN served' : served'[j] = m
      <3>1. CASE \E j \in 1 .. n : served[j] = m
        BY <1>4, <3>1
      <3>2. ASSUME NEW p \in Priorities, NEW a \in DOMAIN levels[p], levels[p][a].number = m
            PROVE  \/ \E k \in Priorities : \E i \in DOMAIN levels'[k] : levels'[k][i].number = m
                   \/ \E j \in DOMAIN served' : served'[j] = m
        <4>0. PICK k \in Priorities : \E i \in DOMAIN AgedLevels[k] : From(k, i, p, a)
          BY AgedFacts
        <4>1. PICK i \in DOMAIN AgedLevels[k] : From(k, i, p, a)
          BY <4>0
        <4>2. AgedLevels[k][i].number = m
          BY <3>2, <4>1 DEF From
        <4>3. CASE k = l /\ i = 1
          BY <1>2, <1>4, <4>2, <4>3
        <4>4. QED BY <1>7, <4>2, <4>3
      <3>3. QED BY <1>4, <3>1, <3>2 DEF SchedulerInv, OnePlace
    <2>7. enqueues' = enqueues
      BY <1>1
    <2>8. QED
      BY <2>1, <2>4, <2>5, <2>6, <2>7 DEF OnePlace
  <1>11. ASSUME NEW k \in DOMAIN levels[0]
         PROVE  k \in DOMAIN AgedLevels[0] /\ AgedLevels[0][k] = levels[0][k]
    <2>1. 0 \in Priorities
      BY DEF Priorities
    <2>2. PICK p \in Priorities : \E i \in DOMAIN AgedLevels[p] :
            From(p, i, 0, k) /\ p = 0 /\ i = k
      BY <2>1, AgedFacts
    <2>3. QED BY <2>2 DEF From
  <1>12. /\ levels'[0] \in Seq(Queued) /\ AgedLevels[0] \in Seq(Queued)
         /\ 0 \in Priorities /\ l \in Nat
    <2>1. 0 \in Priorities /\ Priorities \subseteq Nat
      BY DEF Priorities
    <2>2. QED BY <1>3, <2>1, AgedFacts DEF Dequeued
  <1>13. PICK al \in Seq(Queued) : al = AgedLevels[0]
    BY <1>12
  <1>14. /\ Len(al) \in Nat /\ DOMAIN al = 1 .. Len(al)
         /\ \A i \in DOMAIN al : al[i].number \in 1 .. enqueues
         /\ enqueues \in Nat
    <2>1. \A x \in Queued : x.number \in 1 .. enqueues
      BY DEF Queued
    <2>2. QED BY <2>1 DEF SchedulerTypeOK
  <1>15. \A g \in aged : g.entry \in 1 .. enqueues /\ g.last \in 1 .. enqueues /\ g.after \in Nat
    BY DEF SchedulerTypeOK
  <1>16. ASSUME NEW g \in aged', g \notin aged
         PROVE  /\ g.last = enqueues /\ g.after = n /\ g.entry \in 1 .. enqueues
                /\ \E i \in DOMAIN al : al[i].number = g.entry
    <2>1. PICK y \in Entries : IsOld(y) /\ g = [entry |-> y.number, last |-> enqueues, after |-> Len(served)]
      BY <1>1, <1>16
    <2>2. PICK k \in Priorities : \E j \in 1 .. Len(levels[k]) : y = levels[k][j]
      BY DEF Entries
    <2>3. PICK j \in DOMAIN levels[k] : y = levels[k][j]
      BY <2>2, LevelFacts
    <2>4. j \in OldAt(k)
      BY <2>1, <2>3 DEF OldAt
    <2>5. PICK p \in Priorities : \E i \in DOMAIN AgedLevels[p] : From(p, i, k, j) /\ p = 0
      BY <2>4, AgedFacts
    <2>6. \E i \in DOMAIN al : al[i] = y
      BY <1>13, <2>3, <2>5 DEF From
    <2>7. QED BY <1>4, <1>14, <2>1, <2>6
  <1>17. ASSUME NEW g \in aged'
         PROVE  /\ g.entry <= g.last
                /\ \/ \E j \in 1 .. n : served[j] = g.entry
                   \/ \E i \in 1 .. Len(al) :
                        /\ al[i].number = g.entry
                        /\ \A k \in 1 .. i - 1 : al[k].number <= g.last
    <2>1. CASE g \notin aged
      <3>1. PICK i \in DOMAIN al : al[i].number = g.entry
        BY <1>16, <2>1
      <3>2. \A k \in 1 .. i - 1 : k \in DOMAIN al /\ al[k].number <= enqueues
        BY ONLY <1>14, i \in DOMAIN al
      <3>3. g.last = enqueues /\ g.entry \in 1 .. enqueues
        BY <1>16, <2>1
      <3>4. QED BY ONLY <1>14, <3>1, <3>2, <3>3
    <2>2. CASE g \in aged
      <3>1. g.entry <= g.last
        BY <2>2 DEF SchedulerInv
      <3>2. ASSUME NEW i \in DOMAIN levels[0], levels[0][i].number = g.entry,
                   \A k \in 1 .. i - 1 : levels[0][k].number <= g.last
            PROVE  \E j \in 1 .. Len(al) :
                     /\ al[j].number = g.entry
                     /\ \A k \in 1 .. j - 1 : al[k].number <= g.last
        <4>1. i \in 1 .. Len(al) /\ al[i] = levels[0][i]
          BY <1>11, <1>13, <1>14
        <4>2. ASSUME NEW k \in 1 .. i - 1
              PROVE  al[k].number <= g.last
          <5>1. DOMAIN levels[0] = 1 .. Len(levels[0]) /\ Len(levels[0]) \in Nat
            BY <1>12, LevelFacts
          <5>2. k \in DOMAIN levels[0]
            BY ONLY <5>1, i \in DOMAIN levels[0], k \in 1 .. i - 1
          <5>3. QED BY <1>11, <1>13, <3>2, <5>2
        <4>3. QED BY <3>2, <4>1, <4>2
      <3>3. \/ \E i \in DOMAIN served : served[i] = g.entry
            \/ \E i \in DOMAIN levels[0] :
                 /\ levels[0][i].number = g.entry
                 /\ \A k \in 1 .. i - 1 : levels[0][k].number <= g.last
        BY <2>2 DEF SchedulerInv, NoneGetsAhead
      <3>4. QED BY <1>4, <3>1, <3>2, <3>3
    <2>3. QED BY <2>1, <2>2
  <1>18. NoneGetsAhead'
    <2>1. ASSUME NEW g \in aged'
          PROVE  \/ \E i \in DOMAIN served' : served'[i] = g.entry
                 \/ \E i \in DOMAIN levels'[0] :
                      /\ levels'[0][i].number = g.entry
                      /\ \A k \in 1 .. i - 1 : levels'[0][k].number <= g.last
      <3>1. CASE \E j \in 1 .. n : served[j] = g.entry
        BY ONLY <1>4, <3>1
      <3>2. ASSUME NEW i \in 1 .. Len(al), al[i].number = g.entry,
                   \A k \in 1 .. i - 1 : al[k].number <= g.last
            PROVE  \/ \E j \in DOMAIN served' : served'[j] = g.entry
                   \/ \E j \in DOMAIN levels'[0] :
                        /\ levels'[0][j].number = g.entry
                        /\ \A k \in 1 .. j - 1 : levels'[0][k].number <= g.last
        <4>1. PICK q \in Seq(Queued) : q = levels'[0]
          BY <1>12
        <4>2. DOMAIN q = 1 .. Len(q) /\ Len(q) \in Nat
          OBVIOUS
        <4>3. /\ l = 0 => /\ \A k \in DOMAIN q : q[k] = al[k + 1]
                          /\ \A k \in DOMAIN al : k # 1 => k - 1 \in DOMAIN q /\ q[k - 1] = al[k]
              /\ l # 0 => /\ \A k \in DOMAIN q : q[k] = al[k]
                          /\ \A k \in DOMAIN al : k \in DOMAIN q /\ q[k] = al[k]
          BY ONLY <1>3, <1>12, <1>13, <4>1 DEF Dequeued
        <4>4. CASE l # 0
          <5>1. i \in DOMAIN q /\ q[i] = al[i]
            BY ONLY <1>14, <4>3, <4>4, i \in 1 .. Len(al)
          <5>2. ASSUME NEW k \in 1 .. i - 1
                PROVE  q[k].number <= g.last
            <6>1. k \in DOMAIN q
              BY ONLY <4>2, <5>1, k \in 1 .. i - 1
            <6>2. QED BY ONLY <3>2, <4>3, <4>4, <6>1, k \in 1 .. i - 1
          <5>3. QED BY ONLY <3>2, <4>1, <5>1, <5>2
        <4>5. CASE l = 0 /\ i = 1
          <5>1. e = al[1]
            BY <1>2, <1>13, <4>5
          <5>2. n + 1 \in DOMAIN served' /\ served'[n + 1] = g.entry
            BY ONLY <1>4, <3>2, <4>5, <5>1
          <5>3. QED BY ONLY <5>2
        <4>6. CASE l = 0 /\ i # 1
          <5>1. i - 1 \in DOMAIN q /\ q[i - 1] = al[i]
            BY ONLY <1>14, <4>3, <4>6, i \in 1 .. Len(al)
          <5>2. ASSUME NEW k \in 1 .. (i - 1) - 1
                PROVE  q[k].number <= g.last
            <6>1. k \in DOMAIN q /\ k + 1 \in 1 .. i - 1
              BY ONLY <4>2, <5>1, k \in 1 .. (i - 1) - 1
            <6>2. QED BY ONLY <3>2, <4>3, <4>6, <6>1
          <5>3. QED BY ONLY <3>2, <4>1, <5>1, <5>2
        <4>7. QED BY ONLY <4>4, <4>5, <4>6
      <3>3. QED BY ONLY <1>17, <2>1, <3>1, <3>2
    <2>2. QED BY <2>1 DEF NoneGetsAhead
  <1>19. NoneServedBefore'
    <2>1. Strict' = Strict
      BY <1>1 DEF Strict
    <2>2. ASSUME Strict, NEW g \in aged', NEW j \in g.after + 1 .. n + 1, g.after \in Nat
          PROVE  \/ served'[j] <= g.last
                 \/ \E i \in 1 .. j - 1 : served'[i] = g.entry
      <3>1. CASE j # n + 1
        <4>1. j \in 1 .. n /\ j \in g.after + 1 .. n /\ g.after # n
          BY ONLY <2>2, <3>1, n \in Nat
        <4>2. g \in aged
          BY <1>16, <4>1
        <4>3. served[j] <= g.last \/ \E i \in 1 .. j - 1 : served[i] = g.entry
          BY <1>4, <2>2, <4>1, <4>2 DEF SchedulerInv, NoneServedBefore
        <4>4. \A i \in 1 .. j - 1 : i \in 1 .. n
          BY ONLY <4>1, n \in Nat
        <4>5. QED BY ONLY <1>4, <4>1, <4>3, <4>4
      <3>2. CASE j = n + 1 /\ \E i \in 1 .. n : served[i] = g.entry
        <4>1. PICK i \in 1 .. n : served[i] = g.entry
          BY <3>2
        <4>2. i \in 1 .. j - 1 /\ served'[i] = g.entry
          BY ONLY <1>4, <3>2, <4>1
        <4>3. QED BY <4>2
      <3>3. ASSUME j = n + 1, NEW i \in 1 .. Len(al), al[i].number = g.entry,
                   \A k \in 1 .. i - 1 : al[k].number <= g.last
            PROVE  served'[j] <= g.last
        <4>1. AgedLevels[0] # <<>>
          <5>1. al # <<>>
            BY ONLY <1>14, i \in 1 .. Len(al)
          <5>2. QED BY ONLY <1>13, <5>1
        <4>2. l = 0
          <5>1. l <= 0
            BY <1>3, <1>12, <2>2, <4>1
          <5>2. QED BY ONLY <1>12, <5>1
        <4>3. e = al[1] /\ served'[j] = e.number
          BY <1>2, <1>4, <1>13, <3>3, <4>2
        <4>4. CASE i = 1
          BY ONLY <1>17, <3>3, <4>3, <4>4, g \in aged'
        <4>5. CASE i # 1
          <5>1. 1 \in 1 .. i - 1
            BY ONLY <1>14, <4>5, i \in 1 .. Len(al)
          <5>2. QED BY ONLY <3>3, <4>3, <5>1
        <4>6. QED BY <4>4, <4>5
      <3>4. QED BY ONLY <1>17, <3>1, <3>2, <3>3, g \in aged'
    <2>3. \A g \in aged' : g.after \in Nat
      BY <1>4, <1>15, <1>16
    <2>4. QED BY <1>4, <2>1, <2>2, <2>3 DEF NoneServedBefore
  <1>20. \A g \in aged' : g.entry <= g.last
    BY <1>17
  <1>21. QED
    BY <1>10, <1>18, <1>19, <1>20 DEF SchedulerInv
LEMMA EnqueueNextInv ==
  ASSUME SchedulerTypeOK, SchedulerInv,
         NEW t \in TaskIds, NEW p \in Priorities, EnqueueAt(t, p)
  PROVE  SchedulerInv'
  <1>1. PICK r : r = [id |-> t, number |-> enqueues + 1]
    OBVIOUS
  <1>2. /\ r.number = enqueues + 1 /\ enqueues' = enqueues + 1 /\ enqueues \in Nat
        /\ UNCHANGED <<weights, served, aged>>
        /\ levels' = [levels EXCEPT ![p] = Append(@, r)]
    BY <1>1 DEF EnqueueAt, SchedulerTypeOK
  <1>3. DOMAIN levels = Priorities /\ 0 \in Priorities
    BY DEF SchedulerTypeOK, Priorities
  <1>4. ASSUME NEW l \in Priorities
        PROVE  /\ \A i \in DOMAIN levels[l] : i \in DOMAIN levels'[l] /\ levels'[l][i] = levels[l][i]
               /\ \A i \in DOMAIN levels'[l] :
                    \/ i \in DOMAIN levels[l] /\ levels'[l][i] = levels[l][i]
                    \/ l = p /\ i = Len(levels[p]) + 1 /\ levels'[l][i] = r
               /\ l = p => \E i \in DOMAIN levels'[l] : levels'[l][i] = r
               /\ DOMAIN levels[l] = 1 .. Len(levels[l]) /\ Len(levels[l]) \in Nat
    <2>1. PICK s : s = levels[l]
      OBVIOUS
    <2>2. s \in Seq(Queued \cup {r})
      BY <2>1, LevelFacts, LevelWidens
    <2>3. DOMAIN s = 1 .. Len(s) /\ Len(s) \in Nat
      BY ONLY <2>2
    <2>4. CASE l # p
      BY ONLY <1>2, <1>3, <2>1, <2>3, <2>4, l \in Priorities
    <2>5. CASE l = p
      <3>1. levels'[l] = Append(s, r)
        BY ONLY <1>2, <1>3, <2>1, <2>5, l \in Priorities
      <3>2. PICK q : q = Append(s, r)
        OBVIOUS
      <3>3. /\ q \in Seq(Queued \cup {r}) /\ Len(q) = Len(s) + 1
            /\ \A i \in 1 .. Len(s) : q[i] = s[i]
            /\ q[Len(s) + 1] = r
        BY ONLY <2>2, <3>2, AppendProperties, r \in Queued \cup {r}
      <3>4. DOMAIN q = 1 .. Len(s) + 1
        BY ONLY <3>3
      <3>5. QED BY ONLY <2>1, <2>3, <2>5, <3>1, <3>2, <3>3, <3>4
    <2>6. QED BY <2>4, <2>5
  <1>5. \A l \in Priorities : \A i \in DOMAIN levels[l] : levels[l][i].number <= enqueues
                                                         /\ levels[l][i].number \in Nat
    BY LevelFacts
  <1>6. \A j \in DOMAIN served : served[j] <= enqueues /\ served[j] \in Nat
    BY DEF SchedulerTypeOK
  <1>7. OnePlace'
    <2>1. ASSUME NEW l \in Priorities, NEW k \in Priorities,
                 NEW i \in DOMAIN levels'[l], NEW j \in DOMAIN levels'[k],
                 levels'[l][i].number = levels'[k][j].number
          PROVE  l = k /\ i = j
      <3>1. CASE i \in DOMAIN levels[l] /\ j \in DOMAIN levels[k]
        BY <1>4, <2>1, <3>1 DEF SchedulerInv, OnePlace
      <3>2. QED BY <1>2, <1>4, <1>5, <2>1, <3>1
    <2>2. ASSUME NEW l \in Priorities, NEW i \in DOMAIN levels'[l], NEW j \in DOMAIN served
          PROVE  levels'[l][i].number # served[j]
      <3>1. CASE i \in DOMAIN levels[l]
        BY <1>4, <3>1 DEF SchedulerInv, OnePlace
      <3>2. QED BY <1>2, <1>4, <1>6, <3>1
    <2>3. ASSUME NEW n \in 1 .. enqueues + 1
          PROVE  \/ \E l \in Priorities : \E i \in DOMAIN levels'[l] : levels'[l][i].number = n
                 \/ \E j \in DOMAIN served : served[j] = n
      <3>1. CASE n = enqueues + 1
        <4>1. PICK i \in DOMAIN levels'[p] : levels'[p][i] = r
          BY <1>4
        <4>2. QED BY <1>2, <3>1, <4>1
      <3>2. CASE n \in 1 .. enqueues
        BY <1>4, <3>2 DEF SchedulerInv, OnePlace
      <3>3. QED BY <1>2, <3>1, <3>2
    <2>4. \A i, j \in DOMAIN served : served[i] = served[j] => i = j
      BY DEF SchedulerInv, OnePlace
    <2>5. QED BY <1>2, <2>1, <2>2, <2>3, <2>4 DEF OnePlace
  <1>8. NoneGetsAhead'
    <2>1. ASSUME NEW g \in aged
          PROVE  \/ \E i \in DOMAIN served : served[i] = g.entry
                 \/ \E i \in DOMAIN levels'[0] :
                      /\ levels'[0][i].number = g.entry
                      /\ \A k \in 1 .. i - 1 : levels'[0][k].number <= g.last
      <3>1. ASSUME NEW i \in DOMAIN levels[0], levels[0][i].number = g.entry,
                   \A k \in 1 .. i - 1 : levels[0][k].number <= g.last
            PROVE  /\ i \in DOMAIN levels'[0] /\ levels'[0][i].number = g.entry
                   /\ \A k \in 1 .. i - 1 : levels'[0][k].number <= g.last
        <4>1. \A k \in 1 .. i - 1 : k \in DOMAIN levels[0]
          <5>1. DOMAIN levels[0] = 1 .. Len(levels[0]) /\ Len(levels[0]) \in Nat
            BY <1>3, <1>4
          <5>2. QED BY ONLY <5>1, i \in DOMAIN levels[0]
        <4>2. QED BY <1>3, <1>4, <3>1, <4>1
      <3>2. QED BY <3>1 DEF SchedulerInv, NoneGetsAhead
    <2>2. QED BY <1>2, <2>1 DEF NoneGetsAhead
  <1>9. NoneServedBefore' /\ (\A g \in aged' : g.entry <= g.last)
    BY <1>2 DEF SchedulerInv, NoneServedBefore, Strict
  <1>10. QED
    BY <1>7, <1>8, <1>9 DEF SchedulerInv

LEMMA SchedulerInit0 == SchedulerInit => SchedulerTypeOK /\ SchedulerInv
  <1> SUFFICES ASSUME SchedulerInit
               PROVE  SchedulerTypeOK /\ SchedulerInv
    OBVIOUS
  <1>1. SchedulerTypeOK
    BY SchedulerAssumption
    DEF SchedulerAssumption, SchedulerInit, SchedulerTypeOK, EqualWeights, Priorities
  <1>2. \A l \in Priorities : DOMAIN levels[l] = {}
    BY DEF SchedulerInit
  <1>3. DOMAIN served = {} /\ aged = {} /\ 1 .. enqueues = {}
    BY DEF SchedulerInit
  <1>4. QED
    BY <1>1, <1>2, <1>3 DEF SchedulerInv, OnePlace, NoneGetsAhead, NoneServedBefore

LEMMA SchedulerNextInv ==
  ASSUME SchedulerTypeOK, SchedulerInv, [SchedulerNext]_schedulerVars
  PROVE  SchedulerTypeOK' /\ SchedulerInv'
  <1>1. ASSUME NewScheduler
        PROVE  SchedulerInv'
    <2>1. UNCHANGED <<levels, enqueues, served, aged>> /\ enqueues = 0
      BY <1>1 DEF NewScheduler
    <2>2. aged = {}
      BY <2>1 DEF SchedulerTypeOK
    <2>3. QED BY <2>1, <2>2 DEF SchedulerInv, OnePlace, NoneGetsAhead, NoneServedBefore
  <1>2. ASSUME Age \/ UNCHANGED schedulerVars
        PROVE  SchedulerInv'
    <2>1. UNCHANGED <<levels, enqueues, served, aged, weights>>
      BY <1>2 DEF Age, schedulerVars
    <2>2. QED
      BY <2>1 DEF SchedulerInv, OnePlace, NoneGetsAhead, NoneServedBefore, Strict
  <1>3. QED
    BY <1>1, <1>2, SchedulerTypeNext, DequeueNextInv, EnqueueNextInv DEF SchedulerNext

\* Each entry has exactly one place.
LEMMA InvEachOnce ==
  ASSUME SchedulerTypeOK, OnePlace
  PROVE  EachOnce
  <1>1. enqueues \in Nat
    BY DEF SchedulerTypeOK
  <1>2. ASSUME NEW l \in Priorities, NEW i \in DOMAIN levels[l]
        PROVE  i \in 1 .. enqueues
    <2>1. PICK s \in Seq(Queued) : s = levels[l]
      BY LevelFacts
    <2>2. DOMAIN s = 1 .. Len(s) /\ Len(s) \in Nat
      OBVIOUS
    <2>3. PICK f : f = [k \in 1 .. Len(s) |-> s[k].number]
      OBVIOUS
    <2>4. f \in [1 .. Len(s) -> 1 .. enqueues]
      BY <2>1, <2>2, <2>3, LevelFacts
    <2>5. \A a, b \in 1 .. Len(s) : f[a] = f[b] => a = b
      BY <2>1, <2>2, <2>3 DEF OnePlace
    <2>6. f \in Injection(1 .. Len(s), 1 .. enqueues)
      BY ONLY <2>4, <2>5, Fun_IsInj
    <2>7. /\ IsFiniteSet(1 .. enqueues) /\ Cardinality(1 .. enqueues) = enqueues
          /\ IsFiniteSet(1 .. Len(s)) /\ Cardinality(1 .. Len(s)) = Len(s)
      <3>1. ASSUME NEW m \in Nat
            PROVE  IsFiniteSet(1 .. m) /\ Cardinality(1 .. m) = m
        BY FS_Interval
      <3>2. QED BY <1>1, <2>2, <3>1
    <2>8. Len(s) <= enqueues
      BY <2>6, <2>7, FS_Injection
    <2>9. QED BY <1>1, <2>1, <2>2, <2>8
  <1>3. ASSUME NEW n \in 1 .. enqueues
        PROVE  Cardinality(Positions(n)) + Cardinality({i \in DOMAIN served : served[i] = n}) = 1
    <2>1. ASSUME NEW l \in Priorities, NEW i \in DOMAIN levels[l], levels[l][i].number = n
          PROVE  Positions(n) = {<<l, i>>} /\ {j \in DOMAIN served : served[j] = n} = {}
      <3>1. {j \in DOMAIN served : served[j] = n} = {}
        BY <2>1 DEF OnePlace
      <3>2. <<l, i>> \in Positions(n)
        BY <1>2, <2>1 DEF Positions
      <3>3. ASSUME NEW q \in Positions(n)
            PROVE  q = <<l, i>>
        <4>1. /\ q = <<q[1], q[2]>> /\ q[1] \in Priorities /\ q[2] \in DOMAIN levels[q[1]]
              /\ levels[q[1]][q[2]].number = n
          BY DEF Positions
        <4>2. q[1] = l /\ q[2] = i
          BY <2>1, <4>1 DEF OnePlace
        <4>3. QED BY <4>1, <4>2
      <3>4. QED BY <3>1, <3>2, <3>3
    <2>2. ASSUME NEW j \in DOMAIN served, served[j] = n
          PROVE  Positions(n) = {} /\ {i \in DOMAIN served : served[i] = n} = {j}
      BY <2>2 DEF Positions, OnePlace
    <2>3. \A x : Cardinality({x}) = 1
      BY FS_Singleton
    <2>4. Cardinality({}) = 0
      BY FS_EmptySet
    <2>5. CASE \E l \in Priorities : \E i \in DOMAIN levels[l] : levels[l][i].number = n
      <3>1. PICK x : Positions(n) = {x} /\ {j \in DOMAIN served : served[j] = n} = {}
        BY <2>1, <2>5
      <3>2. Cardinality(Positions(n)) = 1 /\ Cardinality({j \in DOMAIN served : served[j] = n}) = 0
        BY ONLY <2>3, <2>4, <3>1
      <3>3. QED BY ONLY <3>2
    <2>6. CASE \E j \in DOMAIN served : served[j] = n
      <3>1. PICK x : Positions(n) = {} /\ {i \in DOMAIN served : served[i] = n} = {x}
        BY <2>2, <2>6
      <3>2. Cardinality(Positions(n)) = 0 /\ Cardinality({i \in DOMAIN served : served[i] = n}) = 1
        BY ONLY <2>3, <2>4, <3>1
      <3>3. QED BY ONLY <3>2
    <2>7. QED BY <2>5, <2>6 DEF OnePlace
  <1>4. QED BY <1>3 DEF EachOnce

LEMMA SchedulerInvImplies ==
  ASSUME SchedulerTypeOK, SchedulerInv
  PROVE  NoneOvertakesAged
  BY InvEachOnce DEF SchedulerInv, NoneOvertakesAged

\* The scheduler's invariant.
LEMMA SchedulerCorrect == SchedulerSpec => [](SchedulerTypeOK /\ SchedulerInv)
  <1>1. ASSUME SchedulerTypeOK /\ SchedulerInv, [SchedulerNext]_<<schedulerVars, budget>>
        PROVE  (SchedulerTypeOK /\ SchedulerInv)'
    <2>1. [SchedulerNext]_schedulerVars
      BY <1>1
    <2>2. QED BY <1>1, <2>1, SchedulerNextInv
  <1>2. QED
    BY <1>1, SchedulerInit0, PTL DEF SchedulerSpec

\* dequeue and promote_aged_tasks lose, double or starve no entry: each is in
\* one place, and none enqueued after a dequeue found a task old gets ahead of it.
THEOREM AgedNotOvertaken == SchedulerSpec => []NoneOvertakesAged
  <1>1. SchedulerTypeOK /\ SchedulerInv => NoneOvertakesAged
    BY SchedulerInvImplies
  <1>2. QED
    BY <1>1, SchedulerCorrect, PTL

-----------------------------------------------------------------------------
(* The team: each step is a step of one part and leaves the others alone,  *)
(* but for the budget.                                                     *)

\* What a step of a team is to each of its parts.
LEMMA TeamSteps ==
  ASSUME [TeamNext]_teamVars
  PROVE  /\ [MailNext]_mailVars /\ [PoolNext]_poolVars /\ [SwarmNext]_swarmVars
         /\ [GraphNext]_graphVars /\ [SchedulerNext]_schedulerVars
         /\ [InteropNext]_interopVars /\ [CatalogNext]_catalogVars
  <1>1. CASE TeamNext
    BY <1>1 DEF TeamNext
  <1>2. CASE UNCHANGED teamVars
    BY <1>2 DEF teamVars
  <1>3. QED BY <1>1, <1>2

\* No step does more to the budget than to spend one operation of a kind.
BudgetStep == UNCHANGED budget \/ \E kind : Spend(kind)

LEMMA MailBudget == MailNext => BudgetStep
  BY DEF MailNext, StartAppend, OpenMailbox, PutLine, PutNewline, ReadOutbox, OpenCopy,
         WriteCopy, RenameCopy, StartSignal, OpenSignal, WriteSignal, RenameSignal, Crash,
         ReadInbox, ClearInbox, ReadSignal, RemoveSignal, BudgetStep

LEMMA PoolBudget == PoolNext => BudgetStep
  BY DEF PoolNext, Dequeue, CheckTimeouts, CheckHealth, Tick, Enqueue, Cancel, Start,
         Heartbeat, Restart, Remove, Reset, Die, Assign, Acknowledge, Succeed, GiveUp,
         Register, Record, Settle, BudgetStep

LEMMA SwarmBudget == SwarmNext => BudgetStep
  BY DEF SwarmNext, ChooseStrategy, Join, OnAgentFailure, GiveJob, BudgetStep

LEMMA GraphBudget == GraphNext => BudgetStep
  BY DEF GraphNext, Execute, Return, Valid, Wave, WaveDone, Root, Follow, Answer, Fail,
         BudgetStep

LEMMA SchedulerBudget == SchedulerNext => BudgetStep
  BY DEF SchedulerNext, NewScheduler, Age, DequeueNext, EnqueueAt, BudgetStep

LEMMA InteropBudget == InteropNext => BudgetStep
  BY DEF InteropNext, Add, Update, ReadMessages, Cleanup, SendOmx, HostCrash, BudgetStep

LEMMA CatalogBudget == CatalogNext => BudgetStep
  BY DEF CatalogNext, Active, Refresh, Rollback, Call, IOFault, Kill, BudgetStep

BudgetOK == budget \in [Kinds -> Nat]

LEMMA BudgetKept == TeamSpec => []BudgetOK
  <1>1. TeamInit => BudgetOK
    BY BudgetsAssumption DEF TeamInit, BudgetsAssumption, BudgetOK
  <1>2. ASSUME BudgetOK, [TeamNext]_teamVars
        PROVE  BudgetOK'
    <2>1. BudgetStep
      <3>1. CASE TeamNext
        BY <3>1, MailBudget, PoolBudget, SwarmBudget, GraphBudget, SchedulerBudget,
           InteropBudget, CatalogBudget DEF TeamNext
      <3>2. CASE UNCHANGED teamVars
        BY <3>2 DEF teamVars, BudgetStep
      <3>3. QED BY <1>2, <3>1, <3>2
    <2>2. QED BY <1>2, <2>1 DEF BudgetOK, BudgetStep, Spend
  <1>3. QED BY <1>1, <1>2, PTL DEF TeamSpec

\* Each part's invariant is one of the team.
LEMMA TeamMail == TeamSpec => []MailInv
  <1>1. TeamInit => MailInv
    BY MailInvInit DEF TeamInit
  <1>2. MailInv /\ [TeamNext]_teamVars => MailInv'
    BY TeamSteps, MailInvNext
  <1>3. QED BY <1>1, <1>2, PTL DEF TeamSpec

LEMMA TeamPool == TeamSpec => [](PoolTypeOK /\ PlaceInv /\ ErrorInv)
  <1>1. TeamInit => PoolTypeOK /\ PlaceInv /\ ErrorInv
    BY TypeInit, PlaceInit, ErrorInit DEF TeamInit
  <1>2. PoolTypeOK /\ PlaceInv /\ ErrorInv /\ [TeamNext]_teamVars =>
          PoolTypeOK' /\ PlaceInv' /\ ErrorInv'
    BY TeamSteps, TypeNext, PlaceNext, ErrorNext
  <1>3. QED BY <1>1, <1>2, PTL DEF TeamSpec

LEMMA TeamSwarm == TeamSpec => []SwarmInv
  <1>1. TeamInit => SwarmInv
    BY SwarmInitInv DEF TeamInit
  <1>2. SwarmInv /\ [TeamNext]_teamVars => SwarmInv'
    BY TeamSteps, SwarmStepInv
  <1>3. QED BY <1>1, <1>2, PTL DEF TeamSpec

LEMMA TeamGraph == TeamSpec => []GraphInv
  <1>1. TeamInit => GraphInv
    BY GraphInit0 DEF TeamInit
  <1>2. GraphInv /\ [TeamNext]_teamVars => GraphInv'
    BY TeamSteps, GraphNext0
  <1>3. QED BY <1>1, <1>2, PTL DEF TeamSpec

LEMMA TeamScheduler == TeamSpec => [](SchedulerTypeOK /\ SchedulerInv)
  <1>1. TeamInit => SchedulerTypeOK /\ SchedulerInv
    BY SchedulerInit0 DEF TeamInit
  <1>2. SchedulerTypeOK /\ SchedulerInv /\ [TeamNext]_teamVars =>
          SchedulerTypeOK' /\ SchedulerInv'
    BY TeamSteps, SchedulerNextInv
  <1>3. QED BY <1>1, <1>2, PTL DEF TeamSpec

LEMMA TeamInterop == TeamSpec => []InteropInv
  <1>1. TeamInit => InteropInv
    BY InitInv DEF TeamInit
  <1>2. InteropInv /\ [TeamNext]_teamVars => InteropInv'
    BY TeamSteps, StepInv
  <1>3. QED BY <1>1, <1>2, PTL DEF TeamSpec

LEMMA TeamCatalog == TeamSpec => [](CatalogTypeInv /\ CatalogInv)
  <1>1. TeamInit => CatalogTypeInv /\ CatalogInv
    BY CatalogInvInit DEF TeamInit
  <1>2. CatalogTypeInv /\ CatalogInv /\ [TeamNext]_teamVars => CatalogTypeInv' /\ CatalogInv'
    BY TeamSteps, CatalogInvNext
  <1>3. QED BY <1>1, <1>2, PTL DEF TeamSpec

\* Whatever the parts of a team do side by side, every variable has its type.
THEOREM TeamTypeCorrect == TeamSpec => []TypeOK
  <1>1. InteropInv => InteropTypeOK
    BY DEF InteropInv
  <1>2. CatalogTypeInv => CatalogTypeOK
    BY DEF CatalogTypeInv
  <1>3. SwarmInv => SwarmTypeOK
    BY DEF SwarmInv
  <1>4. /\ BudgetOK /\ MailTypeOK /\ PoolTypeOK /\ SwarmTypeOK
        /\ GraphTypeOK /\ SchedulerTypeOK /\ InteropTypeOK /\ CatalogTypeOK
        => TypeOK
    BY DEF TypeOK, BudgetOK
  <1>5. QED
    BY <1>1, <1>2, <1>3, <1>4, BudgetKept, TeamMail, TeamPool, TeamSwarm, TeamGraph,
       TeamScheduler, TeamInterop, TeamCatalog, MailInvSays, GraphInvSays, PTL

\* What each part promises alone it keeps in a team, whichever of its tools a
\* lead runs side by side.
TeamKeeps ==
  /\ ParsesUnlessSpoiled /\ ReadOrWaiting /\ ReceivedInOrder /\ KeepsNewest
  /\ SignalTakenOnce
  /\ TaskInOnePlace /\ TimersMatch /\ ErrorsKeepWorkAway
  /\ TasksSurvive
  /\ GraphRun
  /\ NoneOvertakesAged
  /\ MailboxKeepsAll /\ SharedRecordsHold
  /\ CatalogHolds

\* The promises of the seven parts hold at once, however their steps interleave.
THEOREM TeamKeepsAll == TeamSpec => []TeamKeeps
  <1>1. /\ ParsesUnlessSpoiled /\ ReadOrWaiting /\ ReceivedInOrder /\ KeepsNewest
        /\ SignalTakenOnce
        /\ TaskInOnePlace /\ TimersMatch /\ ErrorsKeepWorkAway
        /\ TasksSurvive /\ GraphRun /\ NoneOvertakesAged
        /\ MailboxKeepsAll /\ SharedRecordsHold
        /\ CatalogHolds
        => TeamKeeps
    BY DEF TeamKeeps
  <1>2. SchedulerTypeOK /\ SchedulerInv => NoneOvertakesAged
    BY SchedulerInvImplies
  <1>3. QED
    BY <1>1, <1>2, TeamMail, TeamPool, TeamSwarm, TeamGraph, TeamScheduler, TeamInterop,
       TeamCatalog, MailInvSays, PlaceSays, ErrorSays, InvTasks, GraphInvSays, KeepsAll,
       RecordsKept, CatalogInvHolds, PTL
=============================================================================
