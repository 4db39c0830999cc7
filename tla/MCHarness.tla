----------------------------- MODULE MCHarness -----------------------------
(* Harness with a script of two subagents, one refused, and three requests. *)
EXTENDS Harness

CONSTANTS h1, h2, q1, q2, q3
MCHandleOf == [r \in Requests |-> CASE r = q1 -> h1 [] r = q2 -> h2 [] OTHER -> None]
=============================================================================
