------------------------ MODULE MCConcurrencyGovernor ------------------------
(* A run with two request slots beside one with a single slot. *)
EXTENDS ConcurrencyGovernor, TLC

CONSTANTS a1, a2, b1, runA, runB

MCRunOf == (a1 :> runA) @@ (a2 :> runA) @@ (b1 :> runB)
=============================================================================
