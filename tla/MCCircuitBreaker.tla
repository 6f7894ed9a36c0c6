-------------------------- MODULE MCCircuitBreaker --------------------------
(***************************************************************************)
(* Small instances of CircuitBreaker for TLC.                              *)
(***************************************************************************)
EXTENDS CircuitBreaker, TLC

\* Requests are interchangeable.
Interchangeable == Permutations(Request)
=============================================================================
