------------------------------ MODULE RunRows ------------------------------
(***************************************************************************)
(* What the journal row of a workflow run promises its readers, whoever    *)
(* writes it (bootstrap/src/app/dynamic-workflow-run-service.ts, the       *)
(* invariants in its header; the resume gate isResumableRecord): a run     *)
(* that completed, failed or was superseded never runs again; one that was *)
(* stopped may.  RunService implements it.                                 *)
(***************************************************************************)
CONSTANTS
    Runs,      \* run ids
    Reasons    \* why a run that may be resumed was stopped

VARIABLE row

Final == {"completed", "errored", "superseded"}
RowStatus == {"none", "running"} \cup Final \cup Reasons

RowsInit == row = [r \in Runs |-> "none"]

\* A run begins for the first time, or again from a stop.
Begin(r) ==
    /\ row[r] \in {"none"} \cup Reasons
    /\ row' = [row EXCEPT ![r] = "running"]

\* Some running runs are settled, each its own way.
Settle(S) ==
    \E v \in [S -> Final \cup Reasons] :
        /\ \A r \in S : row[r] = "running"
        /\ row' = [r \in Runs |-> IF r \in S THEN v[r] ELSE row[r]]

\* A run stopped before its sandbox was started: begun and settled at once.
Stillborn(r) ==
    /\ row[r] \in {"none"} \cup Reasons
    /\ \E v \in Reasons \cup {"superseded"} : row' = [row EXCEPT ![r] = v]

RowsNext ==
    \/ \E r \in Runs : Begin(r)
    \/ \E S \in SUBSET Runs : Settle(S)
    \/ \E r \in Runs : Stillborn(r)

RowsSpec == RowsInit /\ [][RowsNext]_row
=============================================================================
