------------------------------- MODULE MCTeam -------------------------------
(***************************************************************************)
(* A small team for TLC. Each budget lets some of the components move, so  *)
(* that their state spaces add up; what may meet within one component is   *)
(* in the same budget.                                                     *)
(***************************************************************************)
EXTENDS Team

CONSTANTS l1, l2, w1, w2, t1, t2, t3, a1, a2, a3, m1, m2, x1, x2, h1, h2, c1, c2

MCKinds ==
  {"send", "broadcast", "report", "rotate", "signal", "crash",
   "worker", "submit", "cancel", "error", "beat", "death",
   "strategy", "join", "job", "failure", "graph", "scheduler", "enqueue", "age",
   "share", "update", "readmail", "cleanup", "omx", "hostcrash",
   "status", "refresh", "rollback", "iofault", "kill"}

None0 == [k \in MCKinds |-> 0]

MailBudgets ==
  {[None0 EXCEPT !["send"] = 1, !["broadcast"] = 1, !["crash"] = 1],
   [None0 EXCEPT !["send"] = 2, !["crash"] = 1],
   [None0 EXCEPT !["send"] = 3],
   [None0 EXCEPT !["report"] = 3, !["rotate"] = 2, !["crash"] = 1],
   [None0 EXCEPT !["signal"] = 3, !["crash"] = 1]}

PoolBudgets ==
  {[None0 EXCEPT !["worker"] = 1, !["submit"] = 3, !["beat"] = 1, !["cancel"] = 1],
   [None0 EXCEPT !["worker"] = 2, !["submit"] = 2, !["beat"] = 2],
   [None0 EXCEPT !["worker"] = 1, !["submit"] = 2, !["beat"] = 1, !["death"] = 1],
   [None0 EXCEPT !["worker"] = 1, !["submit"] = 3, !["beat"] = 2, !["error"] = 2]}

SwarmBudgets ==
  {[None0 EXCEPT !["strategy"] = 1, !["join"] = 3, !["job"] = 3, !["failure"] = 2]}

GraphBudgets == {[None0 EXCEPT !["graph"] = 1]}

SchedulerBudgets ==
  {[None0 EXCEPT !["enqueue"] = 4, !["age"] = 1],
   [None0 EXCEPT !["scheduler"] = 1, !["enqueue"] = 3, !["age"] = 2]}

InteropBudgets ==
  {[None0 EXCEPT !["share"] = 1, !["update"] = 2, !["cleanup"] = 1, !["hostcrash"] = 1],
   [None0 EXCEPT !["share"] = 2, !["readmail"] = 2],
   [None0 EXCEPT !["share"] = 2, !["cleanup"] = 2],
   [None0 EXCEPT !["share"] = 1, !["readmail"] = 2, !["cleanup"] = 1, !["hostcrash"] = 1],
   [None0 EXCEPT !["omx"] = 2, !["hostcrash"] = 1]}

CatalogBudgets ==
  {[None0 EXCEPT !["refresh"] = 2, !["status"] = 1, !["rollback"] = 1, !["iofault"] = 1],
   [None0 EXCEPT !["refresh"] = 2, !["status"] = 1, !["rollback"] = 1, !["kill"] = 1]}

MCBudgets ==
  MailBudgets \cup PoolBudgets \cup SwarmBudgets \cup GraphBudgets
    \cup SchedulerBudgets \cup InteropBudgets \cup CatalogBudgets

\* c2 may follow every catalog, c1 only itself and the bundled one.
MCCompatible == ({Bundled, c1} \X {c1, c2}) \cup {<<c2, c2>>}

MCWeightSets == {[l \in 0 .. 3 |-> 4 - l]}
=============================================================================
