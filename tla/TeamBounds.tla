----------------------------- MODULE TeamBounds -----------------------------
(***************************************************************************)
(* The bounds of a team's behaviours: how many operations of each kind     *)
(* there are.  Not part of the code.                                       *)
(***************************************************************************)
EXTENDS Naturals

CONSTANTS
  Kinds,     \* the kinds of operations that are bounded
  Budgets    \* how many there may be of each: one of these functions

ASSUME BudgetsAssumption == Budgets \subseteq [Kinds -> Nat]

VARIABLE budget   \* how many are left

Spend(kind) ==
  budget[kind] > 0 /\ budget' = [budget EXCEPT ![kind] = @ - 1]
=============================================================================
