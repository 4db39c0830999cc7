----------------------------- MODULE RunService -----------------------------
(***************************************************************************)
(* The run service of a session (bootstrap/src/app/dynamic-workflow-run-   *)
(* {service,submit,launch,lifecycle,reconcile,revision}.ts): it starts,    *)
(* amends, resumes, revises, cancels and closes workflow runs.  A run is a *)
(* row of the journal; each launch of it is an engine of its own.  Several *)
(* services may share the journal: one per process, one after another.     *)
(*                                                                         *)
(* Between its awaits an operation runs to completion, so the part of it   *)
(* before an await and the part after are two actions; what is known       *)
(* between them is op[c], c being the caller that waits.                   *)
(***************************************************************************)
EXTENDS Naturals, FiniteSets

CONSTANTS
    Minted,       \* ids of runs that are submitted or amend another
    Revised,      \* ids of revisions: the hash of run and ask
    RevisionOf,   \* the revision a run has
    Launches,     \* 1..n: how many engines are ever launched
    Leases,       \* those of them that have a lineage lease to release
    Services,     \* processes that may open the session
    Callers,      \* who may be inside an operation at a time
    Endings,      \* how a service may end: "close", "crash"
    StartsFail,   \* a launch may fail before it has an engine
    None

ASSUME RunServiceAssumption ==
    /\ IsFiniteSet(Minted) /\ IsFiniteSet(Revised) /\ Minted \cap Revised = {}
    /\ RevisionOf \in [Minted -> Revised \cup {None}]
    /\ \A p, q \in Minted : RevisionOf[p] = RevisionOf[q] /\ RevisionOf[p] # None => p = q
    /\ IsFiniteSet(Launches) /\ Launches = 1..Cardinality(Launches)
    /\ Leases \subseteq Launches /\ StartsFail \in BOOLEAN
    /\ Endings \subseteq {"close", "crash"}
    /\ None \notin Minted \cup Revised \cup Services

VARIABLES
    row,        \* dwf_run.status, with the reason of a stop
    from,       \* dwf_run.resumed_from
    life,       \* every launch so far
    registry,   \* runs: the launch a service holds for a run, 0 for none
    op,         \* the operation a caller is inside of, between two awaits
    service,    \* what each service is at
    closing,    \* the launches, or their cleanups, a closing service waits for
    cleanups,   \* pendingCleanups: the launches whose lineage lease is not released
    retries     \* the cleanups that wait for the timer of their next attempt

cleaning == <<cleanups, retries>>
vars == <<row, from, life, registry, op, service, closing, cleaning>>

Runs == Minted \cup Revised

\* Why a run that may be resumed was stopped: on request (by the user or the
\* model), or by its surroundings (interrupted, or the provider gave up).
Reasons == {"user", "interrupted"}
Final == {"completed", "errored", "superseded"}
Terminal == Final \cup Reasons

Life == [run : Runs, after : Runs \cup {None}, by : Services, abort : {None, "superseded"} \cup Reasons,
         phase : {"starting", "alive", "ended", "settled", "gone"}]

\* An operation waits for the images of a request to be verified, for its
\* predecessor to settle, or for the import from it to be read.
Op == [stage : {"verify", "settle", "import"}, by : Services, held : BOOLEAN,
       after : Runs \cup {None}, id : Runs, waits : {0} \cup Launches]

TypeOK ==
    /\ row \in [Runs -> {"none", "running"} \cup Terminal]
    /\ from \in [Runs -> Runs \cup {None}]
    /\ DOMAIN life \subseteq Launches /\ \A i \in DOMAIN life : life[i] \in Life
    /\ registry \in [Services -> [Runs -> {0} \cup Launches]]
    /\ op \in [Callers -> Op \cup {None}]
    /\ service \in [Services -> {"open", "closing", "cleaning", "closed", "dead"}]
    /\ closing \in [Services -> SUBSET Launches]
    /\ cleanups \in [Services -> SUBSET Launches] /\ retries \subseteq Launches

Init ==
    /\ row = [r \in Runs |-> "none"]
    /\ from = [r \in Runs |-> None]
    /\ life = <<>>
    /\ registry = [s \in Services |-> [r \in Runs |-> 0]]
    /\ op = [c \in Callers |-> None]
    /\ service = [s \in Services |-> IF s = CHOOSE o \in Services : TRUE THEN "open" ELSE "dead"]
    /\ closing = [s \in Services |-> {}]
    /\ cleanups = [s \in Services |-> {}] /\ retries = {}

-----------------------------------------------------------------------------
Phase(i) == life[i].phase
Alive == {i \in DOMAIN life : Phase(i) = "alive"}
Unsettled(s) == {i \in DOMAIN life : i \in {registry[s][r] : r \in Runs} /\ Phase(i) # "settled"}

\* runs.get(runId) is there and has no terminal.
Live(s, r) == registry[s][r] # 0 /\ Phase(registry[s][r]) # "settled"

\* Mutant: any run that is over may be resumed.
ResumableWhenOver(r) == row[r] \in Terminal

Resumable(r) == row[r] \in Reasons

Inside == {c \in Callers : op[c] # None}

\* A caller whose call can begin: it is not inside another.
Idle(c) == c \notin Inside

\* A lone caller is also the one that closes, and only between its calls.
Undisturbed == Cardinality(Callers) = 1 => Inside = {}

\* AbortController.abort on the launches in L: a running engine is stopped in
\* the same step, one that still waits for its leases remembers the reason.
Aborted(L, reason) ==
    [i \in DOMAIN life |->
        IF i \notin L \/ life[i].abort # None THEN life[i]
        ELSE IF Phase(i) = "alive"
             THEN [life[i] EXCEPT !.abort = reason, !.phase = "ended"]
             ELSE [life[i] EXCEPT !.abort = reason]]

RowsAfterAbort(L, reason) ==
    [r \in Runs |-> IF \E i \in L : life[i].run = r /\ life[i].abort = None /\ Phase(i) = "alive"
                    THEN reason ELSE row[r]]

Abort(L, reason) == life' = Aborted(L, reason) /\ row' = RowsAfterAbort(L, reason)

Room == Cardinality(DOMAIN life) < Cardinality(Launches)

\* The registry entry comes first, then the launch, which waits for its leases, and
\* the cleanup, which waits for the settlement and outlives the entry.
\* held: the service is still the one the session has.
Enter(s, r, p, held) ==
    LET i == Cardinality(DOMAIN life) + 1
    IN  /\ Room
        /\ life' = [j \in DOMAIN life \cup {i} |->
                        IF j \in DOMAIN life THEN life[j]
                        ELSE [run |-> r, after |-> p, by |-> s, abort |-> None,
                              phase |-> "starting"]]
        /\ registry' = IF held THEN [registry EXCEPT ![s][r] = i] ELSE registry
        /\ cleanups' = IF held THEN [cleanups EXCEPT ![s] = @ \cup {i}] ELSE cleanups
        /\ UNCHANGED retries

Used == {life[i].run : i \in DOMAIN life} \cup {op[c].id : c \in Inside}

\* mintRunId: an id nobody has; which of them makes no difference.
Fresh(r) == Minted \ Used # {} /\ r = CHOOSE n \in Minted \ Used : TRUE

-----------------------------------------------------------------------------
\* submit: a new run, entered and launched in the step of the call.
Submit(s, r) ==
    /\ service[s] = "open" /\ (\E c \in Callers : Idle(c)) /\ Fresh(r)
    /\ Enter(s, r, None, TRUE)
    /\ UNCHANGED <<row, from, op, service, closing>>

\* The engine is constructed: it creates the row, or sets the row it finds to
\* running, and an abort that came during the wait stops it at once.
Launch(i) ==
    /\ Phase(i) = "starting"
    /\ LET a == life[i].abort
       IN  /\ row' = [row EXCEPT ![life[i].run] = IF a = None THEN "running" ELSE a]
           /\ life' = [life EXCEPT ![i].phase = IF a = None THEN "alive" ELSE "ended"]
    /\ from' = IF row[life[i].run] = "none" THEN [from EXCEPT ![life[i].run] = life[i].after]
               ELSE from
    /\ UNCHANGED <<registry, op, service, closing, cleaning>>

\* The launch fails before there is an engine, as when acquireCheckoutWriterLease
\* finds the signal aborted; trackSettlement records it as errored, the row does not.
StartFails(i) ==
    /\ StartsFail /\ Phase(i) = "starting"
    /\ life' = [life EXCEPT ![i].phase = "ended"]
    /\ UNCHANGED <<row, from, registry, op, service, closing, cleaning>>

\* The script, a failure or the provider ends the run; the engine writes the row.
End(i, v) ==
    /\ i \in Alive
    /\ row' = [row EXCEPT ![life[i].run] = v]
    /\ life' = [life EXCEPT ![i].phase = "ended"]
    /\ UNCHANGED <<from, registry, op, service, closing, cleaning>>

\* trackSettlement: the entry learns the result; without a lease the cleanup is over.
Track(i) ==
    /\ Phase(i) = "ended"
    /\ life' = [life EXCEPT ![i].phase = "settled", ![i].abort = None]
    /\ cleanups' = IF i \in Leases THEN cleanups
                   ELSE [s \in Services |-> cleanups[s] \ {i}]
    /\ UNCHANGED <<row, from, registry, op, service, closing, retries>>

\* Mutant: the oldest entry goes, settled or not.
ForgetOldest(s, r) ==
    /\ registry[s][r] # 0
    /\ registry' = [registry EXCEPT ![s][r] = 0]
    /\ UNCHANGED <<row, from, life, op, service, closing, cleaning>>

\* rememberTerminal forgets settled entries past its limit.
Forget(s, r) ==
    /\ registry[s][r] # 0 /\ ~Live(s, r)
    /\ registry' = [registry EXCEPT ![s][r] = 0]
    /\ UNCHANGED <<row, from, life, op, service, closing, cleaning>>

\* cancel: only what the registry holds and has not settled can be cancelled.
Cancel(s, r) ==
    /\ service[s] \in {"open", "closing", "cleaning"} /\ Live(s, r)
    /\ Abort({registry[s][r]}, "user")
    /\ UNCHANGED <<from, registry, op, service, closing, cleaning>>

-----------------------------------------------------------------------------
(* releaseLineageLeaseAfterSettlement *)

\* An attempt to release the lease of a launch that has settled.
Attempted(s, i) == i \in cleanups[s] \ retries /\ Phase(i) = "settled"

\* It is released, or was never acquired.
Release(s, i) ==
    /\ Attempted(s, i)
    /\ cleanups' = [cleanups EXCEPT ![s] = @ \ {i}]
    /\ UNCHANGED <<row, from, life, registry, op, service, closing, retries>>

ReleaseFails(s, i) ==
    /\ Attempted(s, i)
    /\ retries' = retries \cup {i}
    /\ UNCHANGED <<row, from, life, registry, op, service, closing, cleanups>>

\* Mutant: the timer does not outlive the service.
RetryWhileOpen(s, i) ==
    /\ i \in cleanups[s] \cap retries /\ service[s] = "open"
    /\ retries' = retries \ {i}
    /\ UNCHANGED <<row, from, life, registry, op, service, closing, cleanups>>

\* The timer: the same handle is tried again, however often it has failed.
Retry(s, i) ==
    /\ i \in cleanups[s] \cap retries
    /\ retries' = retries \ {i}
    /\ UNCHANGED <<row, from, life, registry, op, service, closing, cleanups>>

Cleanup(s, i) == Release(s, i) \/ ReleaseFails(s, i) \/ Retry(s, i)

-----------------------------------------------------------------------------
\* resume of a run with no predecessor: the checks and the launch in one step.
Resume(s, r) ==
    /\ service[s] = "open" /\ (\E c \in Callers : Idle(c))
    /\ ~Live(s, r) /\ Resumable(r) /\ from[r] = None
    /\ Enter(s, r, None, TRUE)
    /\ UNCHANGED <<row, from, op, service, closing>>

Ask(c, stage, s, p, r, i) ==
    /\ Room
    /\ op' = [op EXCEPT ![c] = [stage |-> stage, by |-> s, held |-> TRUE, after |-> p,
                                id |-> r, waits |-> i]]

\* resume of a revision: after the checks it awaits the rebuilt import.
ResumeAsks(c, s, r) ==
    /\ service[s] = "open" /\ Idle(c)
    /\ ~Live(s, r) /\ Resumable(r) /\ from[r] # None
    /\ Ask(c, "import", s, None, r, 0)
    /\ UNCHANGED <<row, from, life, registry, service, closing, cleaning>>

\* Mutant: the predecessor is waited for and not stopped.
AmendWaits(c, s, p, r) ==
    /\ service[s] = "open" /\ Idle(c) /\ Fresh(r)
    /\ row[p] # "none" /\ Live(s, p)
    /\ Ask(c, "settle", s, p, r, registry[s][p])
    /\ UNCHANGED <<row, from, life, registry, service, closing, cleaning>>

\* amend of a live run: it is superseded and waited for.
AmendAsks(c, s, p, r) ==
    /\ service[s] = "open" /\ Idle(c) /\ Fresh(r)
    /\ row[p] # "none" /\ Live(s, p)
    /\ Abort({registry[s][p]}, "superseded")
    /\ Ask(c, "settle", s, p, r, registry[s][p])
    /\ UNCHANGED <<from, registry, service, closing, cleaning>>

\* amend of any other run: it must be settled on the journal.
AmendSettledRun(c, s, p, r) ==
    /\ service[s] = "open" /\ Idle(c) /\ Fresh(r)
    /\ row[p] \in Terminal /\ ~Live(s, p)
    /\ Ask(c, "import", s, p, r, 0)
    /\ UNCHANGED <<row, from, life, registry, service, closing, cleaning>>

\* reviseAsk: the id is a hash, so a revision asked for twice is one run, and
\* revisionAdmissions joins a request to the one under way.
ReviseAsks(c, s, p) ==
    /\ service[s] = "open" /\ Idle(c)
    /\ p \in Minted /\ RevisionOf[p] # None
    /\ row[p] \in Terminal /\ ~Live(s, p)
    /\ ~\E d \in Inside : /\ op[d].by = s /\ op[d].held
                         /\ op[d].id = RevisionOf[p] /\ op[d].after = p
    /\ Ask(c, "verify", s, p, RevisionOf[p], 0)
    /\ UNCHANGED <<row, from, life, registry, service, closing, cleaning>>

\* Mutant: the import does not wait for the settlement of the predecessor.
ImportAtOnce(c) ==
    /\ op[c].stage \in {"settle", "verify"}
    /\ op' = [op EXCEPT ![c] = IF row[op[c].after] \in Terminal
                               THEN [op[c] EXCEPT !.stage = "import", !.waits = 0] ELSE None]
    /\ UNCHANGED <<row, from, life, registry, service, closing, cleaning>>

\* buildImportedCache: refused unless the journal says that the predecessor has
\* settled; a revision that exists is answered with its id.
Import(c) ==
    LET o == op[c]
        known == o.stage = "verify" /\ (registry[o.by][o.id] # 0 \/ row[o.id] # "none")
    IN  /\ \/ o.stage = "settle" /\ Phase(o.waits) = "settled"
           \/ o.stage = "verify"
        /\ op' = [op EXCEPT ![c] = IF row[o.after] \in Terminal /\ ~known
                                   THEN [o EXCEPT !.stage = "import", !.waits = 0] ELSE None]
        /\ UNCHANGED <<row, from, life, registry, service, closing, cleaning>>

\* The import is there: the entry and the launch, with no second look at the
\* registry, at the row or at whether the service is still open.
GoOn(c) ==
    /\ op[c].stage = "import"
    /\ Enter(op[c].by, op[c].id, op[c].after, op[c].held)
    /\ op' = [op EXCEPT ![c] = None]
    /\ UNCHANGED <<row, from, service, closing>>

-----------------------------------------------------------------------------
\* close: no more launches, every unsettled entry is interrupted and waited for.
Close(s) ==
    /\ "close" \in Endings /\ service[s] = "open" /\ Undisturbed
    /\ service' = [service EXCEPT ![s] = "closing"]
    /\ closing' = [closing EXCEPT ![s] = Unsettled(s)]
    /\ Abort(Unsettled(s), "interrupted")
    /\ UNCHANGED <<from, registry, op, cleaning>>

\* They have settled; now it waits for the cleanups there are, of earlier launches too.
Settled(s) ==
    /\ service[s] = "closing"
    /\ \A i \in closing[s] : Phase(i) = "settled"
    /\ service' = [service EXCEPT ![s] = "cleaning"]
    /\ closing' = [closing EXCEPT ![s] = cleanups[s]]
    /\ UNCHANGED <<row, from, life, registry, op, cleaning>>

Closed(s) ==
    /\ service[s] = "cleaning" /\ closing[s] \cap cleanups[s] = {}
    /\ service' = [service EXCEPT ![s] = "closed"]
    /\ closing' = [closing EXCEPT ![s] = {}]
    /\ UNCHANGED <<row, from, life, registry, op, cleaning>>

\* The process of a service dies, with its engines and operations.
Crash(s) ==
    /\ "crash" \in Endings /\ service[s] # "dead"
    /\ service' = [service EXCEPT ![s] = "dead"]
    /\ closing' = [closing EXCEPT ![s] = {}]
    /\ registry' = [registry EXCEPT ![s] = [r \in Runs |-> 0]]
    /\ life' = [i \in DOMAIN life |->
                    IF life[i].by = s THEN [life[i] EXCEPT !.phase = "gone", !.abort = None]
                    ELSE life[i]]
    /\ op' = [c \in Callers |-> IF op[c] # None /\ op[c].by = s THEN None ELSE op[c]]
    /\ cleanups' = [cleanups EXCEPT ![s] = {}] /\ retries' = retries \ cleanups[s]
    /\ UNCHANGED <<row, from>>

\* Mutant: the rows of the session are left as the dead process left them.
Unreconciled == row

\* reconcileOrphanRuns: every row that still runs is taken for an orphan.
Reconciled == [r \in Runs |-> IF row[r] = "running" THEN "interrupted" ELSE row[r]]

\* A new service for the session, in the same process or in another one.
Open(s) ==
    /\ service[s] \in {"closed", "dead"}
    /\ service' = [service EXCEPT ![s] = "open"]
    /\ registry' = [registry EXCEPT ![s] = [r \in Runs |-> 0]]
    /\ row' = Reconciled
    /\ op' = [c \in Callers |-> IF op[c] # None /\ op[c].by = s
                               THEN [op[c] EXCEPT !.held = FALSE] ELSE op[c]]
    /\ cleanups' = [cleanups EXCEPT ![s] = {}] /\ retries' = retries \ cleanups[s]
    /\ UNCHANGED <<from, life, closing>>

-----------------------------------------------------------------------------
\* How a run ends on its own: for good ("completed" stands for "errored" too: no
\* guard tells them apart), or so that it may be resumed.
Outcomes == {"completed", "interrupted"}

\* What goes on by itself once it has begun.
Progress ==
    \/ \E i \in DOMAIN life : Launch(i)
    \/ \E i \in DOMAIN life : StartFails(i)
    \/ \E i \in DOMAIN life : Track(i)
    \/ \E c \in Inside : Import(c)
    \/ \E c \in Inside : GoOn(c)
    \/ \E s \in Services : Settled(s)
    \/ \E s \in Services : Closed(s)

Next ==
    \/ Progress
    \/ \E s \in Services : \E i \in Leases : Cleanup(s, i)
    \/ \E s \in Services : \E r \in Minted : Submit(s, r)
    \/ \E i \in DOMAIN life : \E v \in Outcomes : End(i, v)
    \/ \E s \in Services : \E r \in Runs : Forget(s, r)
    \/ \E s \in Services : \E r \in Runs : Cancel(s, r)
    \/ \E s \in Services : \E r \in Runs : Resume(s, r)
    \/ \E c \in Callers : \E s \in Services : \E r \in Runs : ResumeAsks(c, s, r)
    \/ \E c \in Callers : \E s \in Services : \E p \in Runs : \E r \in Minted : AmendAsks(c, s, p, r)
    \/ \E c \in Callers : \E s \in Services : \E p \in Runs : \E r \in Minted : AmendSettledRun(c, s, p, r)
    \/ \E c \in Callers : \E s \in Services : \E p \in Minted : ReviseAsks(c, s, p)
    \/ \E s \in Services : Close(s)
    \/ \E s \in Services : Crash(s)
    \/ \E s \in Services : Open(s)

Spec == Init /\ [][Next]_vars

\* A release is attempted, and attempted again; whether it ever succeeds is open.
FairSpec ==
    /\ Spec /\ WF_vars(Progress)
    /\ \A s \in Services : \A i \in Leases :
          /\ WF_vars(Release(s, i) \/ ReleaseFails(s, i))
          /\ WF_vars(Retry(s, i))

-----------------------------------------------------------------------------
\* Every engine is held by the service that launched it, under its run, while
\* that service is open: cancel and close can always reach it.
Owned ==
    \A i \in Alive : /\ service[life[i].by] \in {"open", "closing"}
                     /\ registry[life[i].by][life[i].run] = i

\* Once a service of the only process is open, a row that says running has an
\* engine behind it, whatever crashes came before (invariant 4 of the header).
RunningIsTrue ==
    \A r \in Runs : row[r] = "running" /\ (\E s \in Services : service[s] = "open") =>
        \E i \in Alive : life[i].run = r

\* A predecessor that was stopped for an amendment is never stopped in vain: when
\* its settlement is in, the journal lets the successor import from it.
AmendNeverRefused ==
    \A c \in Inside : op[c].stage = "settle" /\ Phase(op[c].waits) = "settled" =>
        row[op[c].after] \in Terminal

\* A successor is launched after its predecessor has settled, never beside it
\* (amend, step 3: it awaits the settlement itself, no timer, no polling).
AfterSettlement ==
    [][\A i \in DOMAIN life' \ DOMAIN life : life'[i].after # None =>
           /\ row[life'[i].after] \in Terminal
           /\ \A j \in DOMAIN life : life[j].run = life'[i].after =>
                 Phase(j) \in {"settled", "gone"}]_vars

\* The row of a run is what RunRows promises, through resumes, amendments,
\* closing, crashes and reconciliation.
Rows == INSTANCE RunRows
ImplementsRows == Rows!RowsSpec

\* A close waits without a timeout, for the runs it interrupts and for the leases of
\* all that have settled (close, Promise.all(pendingCleanups)), and ends; unless the
\* release of a lease fails for ever, which nothing bounds.
CloseEnds ==
    <>[][\A s \in Services : \A i \in Leases : ~ReleaseFails(s, i)]_vars =>
        \A s \in Services :
            service[s] \in {"closing", "cleaning"} ~> service[s] \in {"closed", "dead"}

\* Every amendment, revision and resume that is under way comes to an end.
OperationsEnd == \A c \in Callers : op[c] # None ~> op[c] = None

\* "already_running": a run has one engine (resume-workflow-run.ts).
OneEngine == \A i, j \in Alive : life[i].run = life[j].run => i = j

\* "A launch that arrives during close would slip in and make an engine nobody
\* owns" (close): once closed, a service has no engine.
ClosedIsQuiet == \A i \in Alive : service[life[i].by] # "closed"

\* Only rows of dead processes are reconciled: a running engine's row says so.
OrphansOnly == \A i \in Alive : row[life[i].run] = "running"

\* "abort is the true stop: the engine settles stopped" (cancel): a run that was
\* cancelled ends, and its row says who stopped it.
CancelStops ==
    [][\A i \in DOMAIN life :
           life[i].abort = "user" /\ Phase(i) = "starting" /\ life'[i].phase = "ended" =>
               row'[life[i].run] = "user"]_vars
=============================================================================
