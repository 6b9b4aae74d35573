-------------------------------- MODULE Team --------------------------------
(***************************************************************************)
(* What the lead of a team and its tools run side by side: the mailboxes,  *)
(* the pool of workers, the recovery of failed agents, a graph of tasks,   *)
(* the priority scheduler, the files shared with omx, and the catalog of   *)
(* profiles.                                                               *)
(*                                                                         *)
(* None of the seven calls another or reads its state in the code, so each *)
(* step of the team is a step of one of them; the budget of operations is  *)
(* what they share.                                                        *)
(***************************************************************************)
EXTENDS TeamMailboxesProperties, WorkerPoolProperties, SwarmProperties,
        TaskGraphProperties, PrioritySchedulerProperties, InteropProperties,
        CatalogProperties

teamVars == <<mailVars, poolVars, swarmVars, graphVars, schedulerVars, interopVars,
              catalogVars, budget>>

TeamInit ==
  /\ budget \in Budgets
  /\ MailInit /\ PoolInit /\ SwarmInit /\ GraphInit /\ SchedulerInit /\ InteropInit
  /\ CatalogInit

TeamNext ==
  \/ /\ MailNext
     /\ UNCHANGED <<poolVars, swarmVars, graphVars, schedulerVars,
                    interopVars, catalogVars>>
  \/ /\ PoolNext
     /\ UNCHANGED <<mailVars, swarmVars, graphVars, schedulerVars,
                    interopVars, catalogVars>>
  \/ /\ SwarmNext
     /\ UNCHANGED <<mailVars, poolVars, graphVars, schedulerVars,
                    interopVars, catalogVars>>
  \/ /\ GraphNext
     /\ UNCHANGED <<mailVars, poolVars, swarmVars, schedulerVars,
                    interopVars, catalogVars>>
  \/ /\ SchedulerNext
     /\ UNCHANGED <<mailVars, poolVars, swarmVars, graphVars,
                    interopVars, catalogVars>>
  \/ /\ InteropNext
     /\ UNCHANGED <<mailVars, poolVars, swarmVars, graphVars,
                    schedulerVars, catalogVars>>
  \/ /\ CatalogNext
     /\ UNCHANGED <<mailVars, poolVars, swarmVars, graphVars,
                    schedulerVars, interopVars>>

TeamSpec == TeamInit /\ [][TeamNext]_teamVars
FairTeamSpec == TeamSpec /\ PoolFairness

\* Every variable has its type.
TypeOK ==
  /\ budget \in [Kinds -> Nat]
  /\ MailTypeOK /\ PoolTypeOK /\ SwarmTypeOK /\ GraphTypeOK
  /\ SchedulerTypeOK /\ InteropTypeOK /\ CatalogTypeOK
=============================================================================
