---------------------- MODULE CircuitBreakerProperties ----------------------
(***************************************************************************)
(* What callers of the circuit breaker rely on.                            *)
(***************************************************************************)
EXTENDS CircuitBreaker

\* Without the mutex nobody sees a state that is not the breaker's: the fast
\* path of state() answers as the slow path would, unless somebody is in the
\* middle of a change.
MirrorAgrees == ~ locked => mirror = state

Tripping(c) == trips[c] /\ at[c] \in {"counted", "timed", "opening"}

\* Failures are not lost, whichever threads record them: when as many as the
\* threshold were recorded after the last success was over, the circuit is
\* not Closed, once the thread that reached the threshold is through.
Trips ==
  sure = FailureThreshold /\ state = "Closed" => \E c \in Callers : Tripping(c)

\* An Open circuit lets a call through again, although late failures keep
\* stamping the clock and calls that are turned away keep asking.
Recovers == state = "Open" ~> state # "Open"

-----------------------------------------------------------------------------
\* Why: the threads between setting the state and publishing it hold the
\* mutex, one at a time.
Publishing(c) == at[c] \in {"probing", "closed", "opened"}

MutexInv ==
  /\ \A c \in Callers : Publishing(c) => locked
  /\ \A c, d \in Callers : Publishing(c) /\ Publishing(d) => c = d

\* The counter is ahead of the failures that are sure to count.
CountInv ==
  /\ sure <= count
  /\ \A c \in Callers : Succeeding(c) => sure = 0
=============================================================================
