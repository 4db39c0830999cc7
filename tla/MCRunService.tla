---------------------------- MODULE MCRunService ----------------------------
(* RunService on a small session: two minted ids and the revision of either. *)
EXTENDS RunService

CONSTANTS r1, r2, v1
MCRevisionOf == [r \in Minted |-> IF r = r1 THEN v1 ELSE None]
MCLaunches == 1..3
MCTwoLaunches == 1..2
MCFourLaunches == 1..4
=============================================================================
