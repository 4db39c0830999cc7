--------------------------- MODULE MCOffPeakTask ---------------------------
(* OffPeakTask with tickets enough for every process to hold one. *)
EXTENDS OffPeakTask, TLC

CONSTANTS t1, t2, t3, h1, h2
Alike == Permutations(Tickets)
=============================================================================
