-------------------------- MODULE PriorityScheduler -------------------------
(***************************************************************************)
(* The scheduler with four levels of priority, ageing and weights          *)
(* (PriorityScheduler in omc-team/src/task_graph.rs).                      *)
(*                                                                         *)
(* One owner enqueues and dequeues; time passes in between.  A task's wait *)
(* times aging_boost is compared with aging_threshold, so it is promoted   *)
(* after PromoteAfter ticks.  Waits are counted up to that.                *)
(***************************************************************************)
EXTENDS TeamBounds, Selection, Integers

CONSTANTS
  TaskIds,        \* task ids; one may be enqueued more than once
  PromoteAfter,   \* aging_threshold divided by aging_boost, in ticks
  WeightSets,     \* the weights a scheduler may be made with, besides equal ones
  Untimed         \* no enqueue time

Priorities == 0 .. 3

ASSUME SchedulerAssumption ==
  /\ PromoteAfter \in Nat \ {0} /\ Untimed \notin Nat
  /\ WeightSets \subseteq [Priorities -> Nat]
  /\ {"scheduler", "enqueue", "age"} \subseteq Kinds

VARIABLES
  weights,        \* weights
  levels,         \* queues: the entries of each level, critical ones in 0
  waits,          \* enqueue_times: how long ago each id was enqueued
  dequeueCounts,  \* dequeue_counts; total_dequeued is their sum
  enqueues,       \* how many entries there have been: the number of the last
  served,         \* history: the numbers of those dequeued
  aged            \* history: the entries dequeues have found old, each with the
                  \* number of the last entry then, and how many were served

schedulerVars == <<weights, levels, waits, dequeueCounts, enqueues, served, aged>>

EqualWeights == [l \in Priorities |-> 1]

\* The default has equal weights.
SchedulerInit ==
  /\ weights = EqualWeights
  /\ levels = [l \in Priorities |-> <<>>]
  /\ waits = [t \in TaskIds |-> Untimed]
  /\ dequeueCounts = [l \in Priorities |-> 0]
  /\ enqueues = 0
  /\ served = <<>>
  /\ aged = {}

\* PriorityScheduler::new with other weights.
NewScheduler ==
  /\ enqueues = 0
  /\ Spend("scheduler")
  /\ weights' \in WeightSets
  /\ UNCHANGED <<levels, waits, dequeueCounts, enqueues, served, aged>>

EnqueueAt(t, priority) ==
  /\ Spend("enqueue")
  /\ levels' = [levels EXCEPT ![priority] =
                  Append(@, [id |-> t, number |-> enqueues + 1])]
  /\ waits' = [waits EXCEPT ![t] = 0]
  /\ enqueues' = enqueues + 1
  /\ UNCHANGED <<weights, dequeueCounts, served, aged>>

Age ==
  /\ Spend("age")
  /\ waits' = [t \in TaskIds |-> IF waits[t] \in 0 .. PromoteAfter - 1
                                 THEN waits[t] + 1 ELSE waits[t]]
  /\ waits' # waits
  /\ UNCHANGED <<weights, levels, dequeueCounts, enqueues, served, aged>>

IsOld(e) == waits[e.id] # Untimed /\ waits[e.id] >= PromoteAfter
OldAt(l)   == {i \in DOMAIN levels[l] : IsOld(levels[l][i])}
YoungAt(l) == DOMAIN levels[l] \ OldAt(l)
Old(l)     == Kept(levels[l], OldAt(l))
Young(l)   == Kept(levels[l], YoungAt(l))

\* Faulty: old entries rise by one level per dequeue.
AgedByOneLevel ==
  [l \in Priorities |->
     (IF l = 0 THEN levels[0] ELSE Young(l))
       \o (IF l = 3 THEN <<>> ELSE Old(l + 1))]

\* Ageing promotes old entries by one level per pass, until no pass promotes
\* any: all end at level 0, those from higher levels first.
AgedLevels ==
  [l \in Priorities |-> IF l = 0 THEN levels[0] \o Old(1) \o Old(2) \o Old(3)
                        ELSE Young(l)]

Waiting(ls) == {l \in Priorities : ls[l] # <<>>}
Total(count) == count[0] + count[1] + count[2] + count[3]
Strict == \A l \in Priorities : weights[l] = weights[0]

\* How far a level is below its share, times both totals.
Deficit(l) ==
  LET n == Total(dequeueCounts)
  IN  IF n = 0 THEN weights[l]
      ELSE weights[l] * n - dequeueCounts[l] * Total(weights)

\* With equal weights the highest level; else the one furthest below its share
\* (which of two equals is left to the rounding of floats).
Chosen(ls) ==
  {l \in Waiting(ls) :
     IF Strict THEN \A k \in Waiting(ls) : l <= k
     ELSE \A k \in Waiting(ls) : Deficit(k) <= Deficit(l)}

Entries == UNION {{levels[l][i] : i \in 1 .. Len(levels[l])} : l \in Priorities}

DequeueNext ==
  \E l \in Chosen(AgedLevels) :
    LET e == Head(AgedLevels[l])
    IN  /\ levels' = [AgedLevels EXCEPT ![l] = Tail(@)]
        /\ waits' = [waits EXCEPT ![e.id] = Untimed]
        /\ dequeueCounts' = IF Strict THEN dequeueCounts
                            ELSE [dequeueCounts EXCEPT ![l] = @ + 1]
        /\ served' = Append(served, e.number)
        /\ aged' = aged \cup
             {[entry |-> x.number, last |-> enqueues, after |-> Len(served)] : x \in
                {y \in Entries : IsOld(y) /\ \A g \in aged : g.entry # y.number}}
        /\ UNCHANGED <<weights, enqueues, budget>>

SchedulerNext ==
  \/ NewScheduler \/ Age \/ DequeueNext
  \/ \E t \in TaskIds, p \in Priorities : EnqueueAt(t, p)

SchedulerSpec ==
  SchedulerInit /\ budget \in Budgets
    /\ [][SchedulerNext]_<<schedulerVars, budget>>
=============================================================================
