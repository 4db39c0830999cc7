--------------------------- MODULE MCAdmissionGate ---------------------------
(* AdmissionGate on a small bucket; the slots of a kind are interchangeable. *)
EXTENDS AdmissionGate, TLC

Symmetry == Permutations(Clients) \cup Permutations(Observers)
=============================================================================
