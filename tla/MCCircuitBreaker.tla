-------------------------- MODULE MCCircuitBreaker --------------------------
(***************************************************************************)
(* CircuitBreaker with three callers.                                      *)
(***************************************************************************)
EXTENDS CircuitBreaker

CONSTANTS a, b, c

MCCaller == {a, b, c}

=============================================================================
