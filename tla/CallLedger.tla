------------------------------ MODULE CallLedger ------------------------------
(***************************************************************************)
(* What the engine promises a workflow script about its host calls,        *)
(* whatever stops and resumes of the run lie between: a call is answered   *)
(* once and for all, the answer is on the ledger before the script sees    *)
(* it, and a resumed script is told again what it was told before          *)
(* (dynamic-workflow/src/engine/engine.ts, the invariants in its header).  *)
(* AskScheduler and ArtifactPublisher implement it.                        *)
(***************************************************************************)
EXTENDS HostCalls

VARIABLES
    run,       \* the run's status
    answered,  \* what the present life of the script was told
    ledger     \* what was ever decided

ledgerVars == <<run, answered, ledger>>

LedgerInit == run = "running" /\ answered = Nothing /\ ledger = Nothing

Waiting == {c \in Calls : answered[c] = None /\ \A p \in After[c] : answered[p] # None}

\* Some calls the script is waiting for are answered: from the ledger where it
\* has the answer, and onto the ledger where it has not.
Answer(D, good) ==
    LET answer(c) == [by |-> c, ok |-> good[c]]
    IN  /\ run = "running"
        /\ \A c \in D : ledger[c] \in {None, answer(c)}
        /\ answered' = [c \in Calls |-> IF c \in D THEN answer(c) ELSE answered[c]]
        /\ ledger' = [c \in Calls |-> IF c \in D THEN answer(c) ELSE ledger[c]]
        /\ UNCHANGED run

Finish ==
    /\ run = "running"
    /\ \A c \in Returns : answered[c] # None
    /\ run' = "completed"
    /\ UNCHANGED <<answered, ledger>>

Break(status) == run = "running" /\ run' = status /\ UNCHANGED <<answered, ledger>>

Restart == run = "stopped" /\ run' = "running" /\ answered' = Nothing /\ UNCHANGED ledger

LedgerNext ==
    \/ \E D \in SUBSET Waiting : \E good \in [D -> BOOLEAN] : Answer(D, good)
    \/ Finish
    \/ Break("stopped")
    \/ Break("errored")
    \/ Restart

LedgerSpec == LedgerInit /\ [][LedgerNext]_ledgerVars
=============================================================================
