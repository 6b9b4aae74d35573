------------------------------ MODULE TaskGraph -----------------------------
(***************************************************************************)
(* A graph of tasks: the search for a cycle, and the execution in waves    *)
(* (TaskGraph in omc-team/src/task_graph.rs).                              *)
(*                                                                         *)
(* The search is recursive in the code; here its stack is a variable, and  *)
(* each call and return an action, because the order in which hash maps    *)
(* give tasks and dependencies is arbitrary.  The tasks of a wave run      *)
(* concurrently, and the first error drops the others.                     *)
(***************************************************************************)
EXTENDS TeamBounds, Integers, Sequences, FiniteSets

CONSTANT GraphTasks  \* ids, of tasks in the graph or only depended upon

ASSUME GraphAssumption == IsFiniteSet(GraphTasks) /\ "graph" \in Kinds

VARIABLES
  dependencies,  \* the dependencies of each task in the graph
  run,           \* where the execution is, or how it ended
  visited,       \* visited, of the search
  stack,         \* the calls of has_cycle under way: in_stack and what is left
  completed,     \* completed: the tasks of finished waves
  running,       \* the tasks of this wave that run
  finished       \* those that have answered

graphVars == <<dependencies, run, visited, stack, completed, running, finished>>

InGraph == DOMAIN dependencies
NoGraph == [t \in {} |-> {}]

GraphInit ==
  /\ dependencies = NoGraph
  /\ run = "none"
  /\ visited = {}
  /\ stack = <<>>
  /\ completed = {} /\ running = {} /\ finished = {}

\* Tasks are added to a new graph, and it is executed.
Execute ==
  /\ run = "none"
  /\ Spend("graph")
  /\ \E ids \in SUBSET GraphTasks :
       dependencies' \in [ids -> SUBSET GraphTasks]
  /\ run' = "validate"
  /\ UNCHANGED <<visited, stack, completed, running, finished>>

InStack == {stack[i].task : i \in 1 .. Len(stack)}

\* A call of has_cycle; an id that is no task has no dependencies.
Frame(t) ==
  [task |-> t, left |-> IF t \in InGraph THEN dependencies[t] ELSE {}]

Root(t) ==
  /\ run = "validate" /\ stack = <<>>
  /\ t \in InGraph \ visited
  /\ visited' = visited \cup {t}
  /\ stack' = Append(stack, Frame(t))
  /\ UNCHANGED <<dependencies, run, completed, running, finished, budget>>

Top == stack[Len(stack)]
Pass(d) == [stack EXCEPT ![Len(stack)].left = @ \ {d}]

\* Faulty: whatever was visited before counts as a cycle.
FollowVisited(d) ==
  /\ run = "validate" /\ stack # <<>>
  /\ d \in Top.left
  /\ IF d \in visited
     THEN run' = "cycle" /\ UNCHANGED <<visited, stack>>
     ELSE /\ visited' = visited \cup {d}
          /\ stack' = Append(Pass(d), Frame(d))
          /\ UNCHANGED run
  /\ UNCHANGED <<dependencies, completed, running, finished, budget>>

Follow(d) ==
  /\ run = "validate" /\ stack # <<>>
  /\ d \in Top.left
  /\ \/ /\ d \notin visited
        /\ visited' = visited \cup {d}
        /\ stack' = Append(Pass(d), Frame(d))
        /\ UNCHANGED run
     \/ /\ d \in visited
        /\ IF d \in InStack
           THEN run' = "cycle" /\ UNCHANGED stack
           ELSE stack' = Pass(d) /\ UNCHANGED run
        /\ UNCHANGED visited
  /\ UNCHANGED <<dependencies, completed, running, finished, budget>>

Return ==
  /\ run = "validate" /\ stack # <<>>
  /\ Top.left = {}
  /\ stack' = SubSeq(stack, 1, Len(stack) - 1)
  /\ UNCHANGED <<dependencies, run, visited, completed, running, finished, budget>>

Valid ==
  /\ run = "validate" /\ stack = <<>> /\ InGraph \subseteq visited
  /\ run' = "wave"
  /\ UNCHANGED <<dependencies, visited, stack, completed, running, finished, budget>>

Ready == {t \in InGraph \ completed : dependencies[t] \subseteq completed}

Wave ==
  /\ run = "wave"
  /\ running' = Ready
  /\ run' = IF Ready # {} THEN "running"
            ELSE IF Cardinality(completed) = Cardinality(InGraph) THEN "ok"
            ELSE "deadlock"
  /\ UNCHANGED <<dependencies, visited, stack, completed, finished, budget>>

Answer(t) ==
  /\ run = "running" /\ t \in running
  /\ running' = running \ {t}
  /\ finished' = finished \cup {t}
  /\ UNCHANGED <<dependencies, run, visited, stack, completed, budget>>

Fail(t) ==
  /\ run = "running" /\ t \in running
  /\ running' = {}
  /\ run' = "failed"
  /\ UNCHANGED <<dependencies, visited, stack, completed, finished, budget>>

WaveDone ==
  /\ run = "running" /\ running = {}
  /\ completed' = completed \cup finished
  /\ finished' = {}
  /\ run' = "wave"
  /\ UNCHANGED <<dependencies, visited, stack, running, budget>>

GraphNext ==
  \/ Execute \/ Return \/ Valid \/ Wave \/ WaveDone
  \/ \E t \in GraphTasks : Root(t) \/ Follow(t) \/ Answer(t) \/ Fail(t)

GraphSpec ==
  GraphInit /\ budget \in Budgets /\ [][GraphNext]_<<graphVars, budget>>
=============================================================================
