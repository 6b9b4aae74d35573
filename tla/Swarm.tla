------------------------------- MODULE Swarm --------------------------------
(***************************************************************************)
(* What happens to the tasks of an agent that fails                        *)
(* (omc-team/src/fault_tolerance.rs).                                      *)
(*                                                                         *)
(* One owner calls on_agent_failure; the order of agents joining, tasks    *)
(* being handed out and agents failing, the same one again and again       *)
(* perhaps, is arbitrary.  Delays, error texts and the topology, which     *)
(* nothing here reads, are left out.                                       *)
(***************************************************************************)
EXTENDS TeamBounds, Integers, Sequences, FiniteSets

CONSTANTS
  Agents,        \* agent ids
  Jobs,          \* task names
  MaxFailures,   \* max_failures
  MaxAttempts,   \* max_attempts of Retry
  Nobody         \* no agent: of the strategies that name none

ASSUME SwarmAssumption ==
  /\ IsFiniteSet(Agents) /\ Nobody \notin Agents
  /\ MaxFailures \in 0 .. 255 /\ MaxAttempts \in 0 .. 255
  /\ {"strategy", "join", "job", "failure"} \subseteq Kinds

Strategies ==
  [type : {"Retry", "Degrade"}, agent : {Nobody}]
    \cup [type : {"Failover", "Succession"}, agent : Agents]

NoStrategy == [type |-> "none", agent |-> Nobody]

VARIABLES
  strategy,       \* the recovery strategy, "none" before it is chosen
  members,        \* agents: the members of the swarm
  activeTasks,    \* active_tasks: the tasks of each agent
  failureCounts,  \* failure_counts
  quarantine,     \* quarantine
  given,          \* history: the jobs handed out
  stranded        \* history: the agents that failed with nobody to take over

swarmVars == <<strategy, members, activeTasks, failureCounts, quarantine, given,
               stranded>>

SwarmInit ==
  /\ strategy = NoStrategy
  /\ members = {}
  /\ activeTasks = [a \in Agents |-> <<>>]
  /\ failureCounts = [a \in Agents |-> 0]
  /\ quarantine = {}
  /\ given = {}
  /\ stranded = {}

\* FaultTolerance::new; nothing reads the strategy before an agent joins.
ChooseStrategy ==
  /\ strategy = NoStrategy
  /\ Spend("strategy")
  /\ strategy' \in Strategies
  /\ UNCHANGED <<members, activeTasks, failureCounts, quarantine, given, stranded>>

Join(a) ==
  /\ strategy # NoStrategy
  /\ Spend("join")
  /\ a \notin members
  /\ members' = members \cup {a}
  /\ UNCHANGED <<strategy, activeTasks, failureCounts, quarantine, given, stranded>>

\* The caller gives a member a new task.
GiveJob(a, j) ==
  /\ Spend("job")
  /\ a \in members /\ j \notin given
  /\ activeTasks' = [activeTasks EXCEPT ![a] = Append(@, j)]
  /\ given' = given \cup {j}
  /\ UNCHANGED <<strategy, members, failureCounts, quarantine, stranded>>

\* Faulty: the tasks that are left over after equal shares are dropped.
ShareEqually(s, k, n) == [i \in 1 .. Len(s) \div n |-> s[k + (i - 1) * n]]

\* The k-th of n recipients gets every n-th task, from the k-th on.
Share(s, k, n) == [i \in 1 .. (Len(s) - k + n) \div n |-> s[k + (i - 1) * n]]

\* Round-robin over the other members, in the order of a hash map; quarantined
\* ones are not left out.  With no other member the tasks stay.
Redistribute(a) ==
  LET recipients == members \ {a}
      n == Cardinality(recipients)
  IN  IF recipients = {} THEN UNCHANGED activeTasks
      ELSE \E place \in [recipients -> 1 .. n] :
             /\ \A x, y \in recipients : x # y => place[x] # place[y]
             /\ activeTasks' = [x \in Agents |->
                  IF x = a THEN <<>>
                  ELSE IF x \in recipients
                  THEN activeTasks[x] \o Share(activeTasks[a], place[x], n)
                  ELSE activeTasks[x]]

Alone(a) == members \ {a} = {}

Quarantine(a) ==
  /\ quarantine' = quarantine \cup {a}
  /\ Redistribute(a)
  /\ UNCHANGED members

\* The tasks go to the heir's list, which may be the one just removed.
Inherit(a, heir) ==
  activeTasks' = [[activeTasks EXCEPT ![a] = <<>>] EXCEPT
                    ![heir] = @ \o activeTasks[a]]

Recover(a) ==
  CASE strategy.type = "Retry" -> UNCHANGED <<members, activeTasks, stranded>>
    [] strategy.type \in {"Failover", "Degrade"} ->
         /\ Redistribute(a)
         /\ members' = members \ {a}
         /\ stranded' = IF Alone(a) THEN stranded \cup {a} ELSE stranded
    [] strategy.type = "Succession" ->
         /\ Inherit(a, strategy.agent)
         /\ members' = members \ {a}
         /\ stranded' = IF a = strategy.agent THEN stranded \cup {a} ELSE stranded

\* on_agent_failure of an agent that need not be a member any more.  Without
\* its backup or heir it fails, having counted the failure.
OnAgentFailure(a) ==
  /\ strategy # NoStrategy
  /\ Spend("failure")
  /\ a \notin quarantine
  /\ failureCounts' = [failureCounts EXCEPT ![a] = @ + 1]
  /\ LET count == failureCounts[a] + 1
         exceeded == \/ count > MaxFailures
                     \/ strategy.type = "Retry" /\ count > MaxAttempts
         missing == strategy.agent # Nobody /\ strategy.agent \notin members
     IN  \/ exceeded /\ Quarantine(a) /\ UNCHANGED stranded
         \/ /\ ~ exceeded
            /\ missing
            /\ UNCHANGED <<members, activeTasks, quarantine, stranded>>
         \/ ~ exceeded /\ ~ missing /\ Recover(a) /\ UNCHANGED quarantine
  /\ UNCHANGED <<strategy, given>>

SwarmNext ==
  \/ ChooseStrategy
  \/ \E a \in Agents :
       \/ Join(a) \/ OnAgentFailure(a)
       \/ \E j \in Jobs : GiveJob(a, j)

SwarmSpec ==
  SwarmInit /\ budget \in Budgets /\ [][SwarmNext]_<<swarmVars, budget>>
=============================================================================
