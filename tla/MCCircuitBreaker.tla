-------------------------- MODULE MCCircuitBreaker --------------------------
(***************************************************************************)
(* The circuit breaker for TLC.                                            *)
(***************************************************************************)
EXTENDS CircuitBreakerProperties

CONSTANTS c1, c2, c3

MCThree == {c1, c2, c3}
=============================================================================
