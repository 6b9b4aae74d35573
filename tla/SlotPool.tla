------------------------------ MODULE SlotPool ------------------------------
(***************************************************************************)
(* What the concurrency limits of the background manager promise, with no  *)
(* semaphore, counter or thread in sight: every task asks for a slot of    *)
(* its key once, is granted one when fewer than Limit[key] tasks of that   *)
(* key hold one, and gives it back once.  A limit of 0 means unlimited.    *)
(***************************************************************************)
EXTENDS Integers, FiniteSets

CONSTANTS
  Tasks,    \* the tasks that compete for slots
  Keys,     \* the concurrency keys
  KeyOf,    \* the key of each task
  Limit     \* the number of slots of each key, 0 for no limit

VARIABLE slot   \* how far each task is with its slot

SlotStates == {"none", "waiting", "held", "returned"}

Holding(k) == {t \in Tasks : KeyOf[t] = k /\ slot[t] = "held"}

Init == slot = [t \in Tasks |-> "none"]

Request(t) ==
  /\ slot[t] = "none"
  /\ slot' = [slot EXCEPT ![t] = "waiting"]

Grant(t) ==
  /\ slot[t] = "waiting"
  /\ Limit[KeyOf[t]] # 0 => Cardinality(Holding(KeyOf[t])) < Limit[KeyOf[t]]
  /\ slot' = [slot EXCEPT ![t] = "held"]

Return(t) ==
  /\ slot[t] = "held"
  /\ slot' = [slot EXCEPT ![t] = "returned"]

Next == \E t \in Tasks : Request(t) \/ Grant(t) \/ Return(t)

SafeSpec == Init /\ [][Next]_slot

\* A task that finds a free slot again and again is granted one: the queue of
\* the semaphore is first come, first served.
Spec == SafeSpec /\ \A t \in Tasks : SF_slot(Grant(t))
=============================================================================
