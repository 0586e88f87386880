-------------------------- MODULE MCCircuitBreaker --------------------------
(***************************************************************************)
(* TLC instances of CircuitBreaker.  Two nodes, one called in the gather   *)
(* and one outside it, and two overlapping calls: with a threshold of 2    *)
(* one call's failure can trip a breaker while the other is in flight.     *)
(***************************************************************************)
EXTENDS CircuitBreaker

CONSTANTS brain, shadowglass, c1, c2

TwoNodes == {brain, shadowglass}
OneNode  == {shadowglass}
TwoCalls == {c1, c2}
=============================================================================
