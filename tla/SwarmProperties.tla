--------------------------- MODULE SwarmProperties --------------------------
(***************************************************************************)
(* No failure loses a task.                                                *)
(***************************************************************************)
EXTENDS Swarm

\* Every variable has its type.
SwarmTypeOK ==
  /\ strategy \in Strategies \cup {NoStrategy}
  /\ members \subseteq Agents
  /\ activeTasks \in [Agents -> Seq(Jobs)]
  /\ failureCounts \in [Agents -> Nat]
  /\ quarantine \subseteq Agents
  /\ given \subseteq Jobs
  /\ stranded \subseteq Agents

\* However agents fail, join and are quarantined, each task handed out is in
\* the list of exactly one agent, once; and that agent is a member, unless it
\* failed with no one to take over (nobody else there, or itself the heir).
TasksSurvive ==
  /\ \A j \in given : \E a \in Agents : \E i \in 1 .. Len(activeTasks[a]) : activeTasks[a][i] = j
  /\ \A a, b \in Agents : \A i \in 1 .. Len(activeTasks[a]), k \in 1 .. Len(activeTasks[b]) :
       activeTasks[a][i] = activeTasks[b][k] => a = b /\ i = k
  /\ \A a \in Agents \ (members \cup stranded) : activeTasks[a] = <<>>
=============================================================================
