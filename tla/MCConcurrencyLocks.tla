------------------------- MODULE MCConcurrencyLocks -------------------------
(***************************************************************************)
(* The mutexes of the concurrency manager for TLC.                         *)
(***************************************************************************)
EXTENDS ConcurrencyLocks, TLC

MCSymmetry == Permutations(Threads) \cup Permutations(Keys)
=============================================================================
