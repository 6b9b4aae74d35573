------------------------- MODULE TaskGraphProperties ------------------------
(***************************************************************************)
(* What a caller of execute may rely on, for every graph.                  *)
(***************************************************************************)
EXTENDS TaskGraph

Runs == {"none", "validate", "cycle", "wave", "running", "ok", "deadlock", "failed"}

\* Every variable has its type.
GraphTypeOK ==
  /\ InGraph \subseteq GraphTasks
  /\ dependencies \in [InGraph -> SUBSET GraphTasks]
  /\ run \in Runs
  /\ visited \subseteq GraphTasks
  /\ stack \in Seq([task : GraphTasks, left : SUBSET GraphTasks])
  /\ completed \subseteq InGraph
  /\ running \subseteq InGraph
  /\ finished \subseteq InGraph

\* No two tasks wait for each other when each non-empty set of tasks in the
\* graph has one that depends on none of them.
Acyclic ==
  \A ts \in (SUBSET InGraph) \ {{}} :
    \E t \in ts : dependencies[t] \cap ts = {}

\* Whatever the order of the search, a cycle is reported for exactly the
\* graphs that have one, before any task runs; a task runs only once all it
\* depends on have finished; and the execution succeeds with every task run,
\* or ends because a task failed or because some dependency is not in the
\* graph, which validation does not look for.
GraphRun ==
  /\ run = "cycle" => ~ Acyclic
  /\ run \in {"wave", "running", "ok", "deadlock", "failed"} => Acyclic
  /\ \A t \in running \cup finished \cup completed : dependencies[t] \subseteq completed
  /\ run = "ok" => completed = InGraph
  /\ run = "deadlock" =>
       \E t \in InGraph \ completed : ~ (dependencies[t] \subseteq InGraph)

-----------------------------------------------------------------------------
(* Why: the inductive invariant of GraphRun.                               *)

DependenciesOf(t) == Frame(t).left

\* The tasks whose search has returned.
Returned == visited \ InStack

\* The stack is a path, and what the call of a task has passed is the task of
\* the next call or has returned.
OnPath(i) ==
  /\ stack[i].left \subseteq DependenciesOf(stack[i].task)
  /\ DependenciesOf(stack[i].task) \ stack[i].left
       \subseteq Returned \cup {stack[j].task : j \in {i + 1} \cap DOMAIN stack}
  /\ i + 1 \in DOMAIN stack => stack[i + 1].task \in DependenciesOf(stack[i].task)

\* The search returns from a task after all that it depends on, so no cycle
\* runs through what has returned.
SearchInv ==
  /\ run = "none" => visited = {} /\ stack = <<>>
  /\ run \notin {"none", "validate", "cycle"} => stack = <<>> /\ InGraph \subseteq visited
  /\ InStack \subseteq visited
  /\ \A i, j \in DOMAIN stack : stack[i].task = stack[j].task => i = j
  /\ \A i \in DOMAIN stack : OnPath(i)
  /\ \A t \in Returned : DependenciesOf(t) \subseteq Returned
  /\ \A ts \in (SUBSET (Returned \cap InGraph)) \ {{}} :
       \E t \in ts : dependencies[t] \cap ts = {}

WaveInv ==
  /\ run \in {"none", "validate", "cycle"} => running \cup finished \cup completed = {}
  /\ run = "wave" => running \cup finished = {}
  /\ GraphRun
=============================================================================
