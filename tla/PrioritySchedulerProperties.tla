--------------------- MODULE PrioritySchedulerProperties --------------------
(***************************************************************************)
(* What ageing gives a task of low priority.                               *)
(***************************************************************************)
EXTENDS PriorityScheduler

\* Every variable has its type.
SchedulerTypeOK ==
  /\ weights \in WeightSets \cup {EqualWeights}
  /\ levels \in [Priorities -> Seq([id : TaskIds, number : 1 .. enqueues])]
  /\ waits \in [TaskIds -> 0 .. PromoteAfter \cup {Untimed}]
  /\ dequeueCounts \in [Priorities -> Nat]
  /\ enqueues \in Nat
  /\ served \in Seq(1 .. enqueues)
  /\ aged \subseteq [entry : 1 .. enqueues, last : 1 .. enqueues, after : Nat]

Positions(n) ==
  {p \in Priorities \X (1 .. enqueues) :
     p[2] \in DOMAIN levels[p[1]] /\ levels[p[1]][p[2]].number = n}

\* Each task enqueued is dequeued once or waits in one place.  Once a dequeue
\* has found a task old, none enqueued later gets ahead of it: it is at the
\* highest level, and all before it there were enqueued before that dequeue;
\* with equal weights none of the later ones is dequeued before it either.
\* So a steady flow of critical tasks does not starve it.
EachOnce ==
  \A n \in 1 .. enqueues :
    Cardinality(Positions(n)) + Cardinality({i \in DOMAIN served : served[i] = n}) = 1

NoneGetsAhead ==
  \A g \in aged :
    \/ \E i \in DOMAIN served : served[i] = g.entry
    \/ \E i \in DOMAIN levels[0] :
         /\ levels[0][i].number = g.entry
         /\ \A k \in 1 .. i - 1 : levels[0][k].number <= g.last

NoneServedBefore ==
  Strict => \A g \in aged : \A j \in g.after + 1 .. Len(served) :
              \/ served[j] <= g.last
              \/ \E i \in 1 .. j - 1 : served[i] = g.entry

NoneOvertakesAged == EachOnce /\ NoneGetsAhead /\ NoneServedBefore

-----------------------------------------------------------------------------
(* Why: the inductive invariant of NoneOvertakesAged.                      *)

\* Where the numbers of the entries are.
OnePlace ==
  /\ \A l, k \in Priorities : \A i \in DOMAIN levels[l], j \in DOMAIN levels[k] :
       levels[l][i].number = levels[k][j].number => l = k /\ i = j
  /\ \A i, j \in DOMAIN served : served[i] = served[j] => i = j
  /\ \A l \in Priorities : \A i \in DOMAIN levels[l], j \in DOMAIN served :
       levels[l][i].number # served[j]
  /\ \A n \in 1 .. enqueues :
       \/ \E l \in Priorities : \E i \in DOMAIN levels[l] : levels[l][i].number = n
       \/ \E j \in DOMAIN served : served[j] = n

SchedulerInv ==
  /\ OnePlace /\ NoneGetsAhead /\ NoneServedBefore
  /\ \A g \in aged : g.entry <= g.last
=============================================================================
