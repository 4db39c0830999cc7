-------------------------- MODULE ArtifactPublisher --------------------------
(***************************************************************************)
(* The artifacts a workflow run publishes                                  *)
(* (dynamic-workflow/src/engine/engine-artifacts.ts): files and documents  *)
(* that the driver stores in versions, presets that are declared on the    *)
(* spot, one primary artifact per run, and the caps; with the journal rows *)
(* from which a resumed engine recovers what it knew.                      *)
(*                                                                         *)
(* A publication waits for the driver between its admission and its        *)
(* settlement; several may.  Each call has a site of its own.              *)
(***************************************************************************)
EXTENDS HostCalls, Integers, SequencesExt

CONSTANTS
    Script,        \* the calls in program order
    IdOf, KindOf,  \* of a call: the artifact id, the operation
    Presets,       \* the operations that declare
    SpecOf,        \* the spec a declaration gives, None for the others
    Primary,       \* the calls that ask for the primary flag
    MaxIds,        \* maxArtifactsPerRun
    MaxVersions,   \* maxVersionsPerArtifact
    LateFailures,  \* whether the driver may report a failure once the run has settled
    MaxLives       \* bound: times the run is started

ASSUME PublisherAssumption ==
    /\ Script \in Seq(Calls) /\ Range(Script) = Calls /\ IsInjective(Script)
    /\ DOMAIN IdOf = Calls /\ DOMAIN KindOf = Calls /\ DOMAIN SpecOf = Calls
    /\ Primary \subseteq Calls
    /\ \A c \in Calls : KindOf[c] \notin Presets => SpecOf[c] = None
    /\ \A c \in Calls : KindOf[c] \in Presets => c \notin Returns \cup UNION Range(After)
    /\ {MaxIds, MaxVersions, MaxLives} \subseteq Nat \ {0}
    /\ LateFailures \in BOOLEAN

VARIABLES
    run,      \* the run's status
    known,    \* state.artifacts, by id
    rows,     \* the dwf_node rows of kind artifact, by call
    issued,   \* publications at the driver, those of earlier lives included
    outcome,  \* the settled promises, by call
    ready,    \* requests the script has sent and the engine not handled
    lives,    \* times the run has been started
    tail      \* whether an event was recorded while the run was settled

vars == <<run, known, rows, issued, outcome, ready, lives, tail>>

Ids == Range(IdOf)
Contents == {c \in Calls : KindOf[c] \notin Presets}

Known ==
    [kind : Range(KindOf), spec : Range(SpecOf), versions : 1..MaxVersions, primary : BOOLEAN]

Row == [status : {"running", "completed", "failed"}, version : 0..MaxVersions, primary : BOOLEAN]

Publication == [call : Contents, version : 1..MaxVersions, primary : BOOLEAN, life : 1..MaxLives]

TypeOK ==
    /\ run \in Statuses
    /\ known \in [Ids -> Opt(Known)]
    /\ rows \in [Calls -> Opt(Row)]
    /\ issued \subseteq Publication
    /\ outcome \in [Calls -> Opt(Answers)]
    /\ ready \in Seq(Calls)
    /\ lives \in 1..MaxLives
    /\ tail \in BOOLEAN

FirstCalls == Among(Script, {c \in Calls : After[c] = {}})

Init ==
    /\ run = "running" /\ lives = 1 /\ tail = FALSE
    /\ known = [i \in Ids |-> None]
    /\ rows = Nothing
    /\ issued = {}
    /\ outcome = Nothing
    /\ ready = FirstCalls

-----------------------------------------------------------------------------
\* Mutant: failed publications claim the id as well.
CompletedOrFailed(R, i) == {c \in Calls : IdOf[c] = i /\ R[c] # None /\ R[c].status # "running"}

Completed(R, i) == {c \in Calls : IdOf[c] = i /\ R[c] # None /\ R[c].status = "completed"}

\* What rows R say of an id: only completed rows claim it, each is a version,
\* the kind is that of the last one, and one primary version is enough.
Remembered(R, i) ==
    LET done == Completed(R, i)
        last == Last(Among(Script, done))
    IN  IF done = {} THEN None
        ELSE [kind |-> KindOf[last], spec |-> SpecOf[last], versions |-> Cardinality(done),
              primary |-> \E c \in done : R[c].primary]

\* The primary artifact is another one (primaryConflict).
Taken(i) == \E j \in Ids \ {i} : known[j] # None /\ known[j].primary

IsFull == Cardinality({i \in Ids : known[i] # None}) >= MaxIds

\* admitArtifact: the reasons to refuse a publication.
Refused(c, primary) ==
    LET k == known[IdOf[c]]
    IN  \/ k # None /\ k.kind # KindOf[c]
        \/ primary /\ Taken(IdOf[c])
        \/ k = None /\ IsFull
        \/ k # None /\ k.versions >= MaxVersions

\* The next version of an id, settled before the driver is called.
NextVersion(i) == IF known[i] = None THEN 1 ELSE known[i].versions + 1

\* The flag sticks to an id that has it.
WantsPrimary(c) == c \in Primary \/ (known[IdOf[c]] # None /\ known[IdOf[c]].primary)

Running == [status |-> "running", version |-> 0, primary |-> FALSE]
Failed == [status |-> "failed", version |-> 0, primary |-> FALSE]

\* The calls the answer to c lets the script make.
Woken(c) ==
    Among(Script, {d \in Calls : c \in After[d] /\ \A p \in After[d] \ {c} : outcome[p] # None})

\* The promise of c settles; R is what is left of the requests.
Deliver(c, good, R) ==
    /\ outcome' = [outcome EXCEPT ![c] = [by |-> c, ok |-> good]]
    /\ ready' = R \o Woken(c)

-----------------------------------------------------------------------------
(* publishContentArtifact *)

\* A recorded publication is answered as recorded, failures too.
Retell(c) ==
    /\ rows[c] # None /\ rows[c].status # "running"
    /\ Deliver(c, rows[c].status = "completed", Tail(ready))
    /\ UNCHANGED <<run, known, rows, issued, lives, tail>>

Unsettled(c) == rows[c] \in {None, Running}

\* Mutant: a refusal leaves no row.
RefuseUnwritten(c) ==
    /\ Unsettled(c) /\ Refused(c, WantsPrimary(c))
    /\ Deliver(c, FALSE, Tail(ready))
    /\ UNCHANGED <<run, known, rows, issued, lives, tail>>

Refuse(c) ==
    /\ Unsettled(c) /\ Refused(c, WantsPrimary(c))
    /\ rows' = [rows EXCEPT ![c] = Failed]
    /\ Deliver(c, FALSE, Tail(ready))
    /\ UNCHANGED <<run, known, issued, lives, tail>>

\* Mutant: a row left running counts as under way.
DispatchNew(c) ==
    /\ rows[c] = None /\ ~Refused(c, WantsPrimary(c))
    /\ rows' = [rows EXCEPT ![c] = Running]
    /\ issued' = issued \cup {[call |-> c, version |-> NextVersion(IdOf[c]),
                               primary |-> WantsPrimary(c), life |-> lives]}
    /\ ready' = Tail(ready)
    /\ UNCHANGED <<run, known, outcome, lives, tail>>

\* A row left running by an earlier life is published again.
Dispatch(c) ==
    /\ Unsettled(c) /\ ~Refused(c, WantsPrimary(c))
    /\ rows' = [rows EXCEPT ![c] = Running]
    /\ issued' = issued \cup {[call |-> c, version |-> NextVersion(IdOf[c]),
                               primary |-> WantsPrimary(c), life |-> lives]}
    /\ ready' = Tail(ready)
    /\ UNCHANGED <<run, known, outcome, lives, tail>>

-----------------------------------------------------------------------------
(* declarePresetArtifact *)

\* Recorded before, or declared already with the same spec.
Redundant(c) ==
    \/ rows[c] # None
    \/ known[IdOf[c]] # None /\ known[IdOf[c]].kind = KindOf[c] /\ known[IdOf[c]].spec = SpecOf[c]

Clashes(c) ==
    \/ known[IdOf[c]] # None
    \/ c \in Primary /\ Taken(IdOf[c])
    \/ IsFull

Skip(c) ==
    /\ Redundant(c)
    /\ ready' = Tail(ready)
    /\ UNCHANGED <<run, known, rows, issued, outcome, lives, tail>>

Declare(c) ==
    /\ ~Redundant(c) /\ ~Clashes(c)
    /\ known' = [known EXCEPT ![IdOf[c]] = [kind |-> KindOf[c], spec |-> SpecOf[c], versions |-> 1,
                                            primary |-> c \in Primary]]
    /\ rows' = [rows EXCEPT ![c] = [status |-> "completed", version |-> 1, primary |-> c \in Primary]]
    /\ ready' = Tail(ready)
    /\ UNCHANGED <<run, issued, outcome, lives, tail>>

\* The run settles.  The driver finishes what it has; when the process dies with the
\* run nothing is heard of it again.
Close(status) ==
    /\ run' = status
    /\ UNCHANGED <<known, rows, issued, outcome, ready, lives, tail>>

\* A declaration has no promise to reject: the run fails.
FailRun(c) == ~Redundant(c) /\ Clashes(c) /\ Close("errored")

\* The engine handles the next request of the script.
Call(c) ==
    /\ run = "running" /\ ready # <<>> /\ c = Head(ready)
    /\ IF c \in Contents THEN Retell(c) \/ Refuse(c) \/ Dispatch(c)
                         ELSE Skip(c) \/ Declare(c) \/ FailRun(c)

-----------------------------------------------------------------------------
(* The driver answers. *)

\* The run, or the life of it that made this publication, is settled.
Settled(p) == run # "running" \/ p.life # lives

Deaf == UNCHANGED <<outcome, ready>>

\* settleArtifactFailure: row and event are written whatever the run's status.
JournalFailure(p) ==
    /\ rows' = [rows EXCEPT ![p.call] = Failed]
    /\ tail' = (tail \/ run # "running")
    /\ IF Settled(p) THEN Deaf ELSE Deliver(p.call, FALSE, ready)
    /\ UNCHANGED <<run, known, lives>>

\* Mutant: the flag is not looked at again.
NeverLost(p) == FALSE

\* Another publication became primary while this one was at the driver.
LostRace(p) == p.primary /\ Taken(IdOf[p.call])

\* settleArtifactPublish.
Publish(p) ==
    /\ rows' = [rows EXCEPT ![p.call] = [status |-> "completed", version |-> p.version,
                                         primary |-> p.primary]]
    /\ known' = [known EXCEPT ![IdOf[p.call]] = [kind |-> KindOf[p.call], spec |-> None,
                                                 versions |-> p.version, primary |-> p.primary]]
    /\ Deliver(p.call, TRUE, ready)
    /\ UNCHANGED <<run, lives, tail>>

Stored(p) ==
    /\ issued' = issued \ {p}
    /\ IF Settled(p) THEN UNCHANGED <<run, known, rows, outcome, ready, lives, tail>>
       ELSE IF LostRace(p) THEN JournalFailure(p)
       ELSE Publish(p)

NotStored(p) ==
    /\ Settled(p) => LateFailures
    /\ issued' = issued \ {p} /\ JournalFailure(p)

-----------------------------------------------------------------------------
Complete ==
    /\ run = "running" /\ \A c \in Returns : outcome[c] # None
    /\ Close("completed")

Halt == run = "running" /\ Close("stopped")

\* A new engine on the rows of the run.
Resume ==
    /\ run = "stopped" /\ lives < MaxLives
    /\ run' = "running" /\ lives' = lives + 1
    /\ known' = [i \in Ids |-> Remembered(rows, i)]
    /\ outcome' = Nothing
    /\ ready' = FirstCalls
    /\ UNCHANGED <<rows, issued, tail>>

Over == run # "running" /\ UNCHANGED vars

Progress ==
    \/ \E c \in Calls : Call(c)
    \/ \E p \in issued : Stored(p) \/ NotStored(p)
    \/ Complete

Next ==
    \/ Progress
    \/ Halt
    \/ Resume
    \/ Over

Spec == Init /\ [][Next]_vars

\* Requests are handled, the driver answers, the script returns.
FairSpec == Spec /\ WF_vars(Progress)

-----------------------------------------------------------------------------
\* The answer to d is awaited, through whatever other calls, before c is made: d is
\* in every set that has what c and its members wait for.
Follows(c, d) ==
    \A S \in SUBSET Calls : After[c] \subseteq S /\ (\A e \in S : After[e] \subseteq S) => d \in S

\* A script that waits for a publication before it touches the id again.
OneAtATime ==
    \A c, d \in Calls : c # d /\ IdOf[c] = IdOf[d] /\ d \in Contents =>
        Follows(c, d) \/ (c \in Contents /\ Follows(d, c))

\* "The journal never holds two completed primaries" (engine-artifacts.ts, at the
\* check settleArtifactPublish makes).
OnePrimary ==
    \A c, d \in Calls :
        (rows[c] # None /\ rows[c].primary /\ rows[d] # None /\ rows[d].primary) => IdOf[c] = IdOf[d]

\* A crash at any moment loses nothing: what a new engine would recover from the
\* rows is what the running one knows (kinds, versions, the primary flag).
SameAfterCrash == run = "running" => \A i \in Ids : known[i] = Remembered(rows, i)

\* The versions of an artifact are 1, 2, ... across lives, failed publications
\* and publications repeated after a crash.
VersionsContiguous ==
    \A i \in Ids : {rows[c].version : c \in Completed(rows, i)} = 1..Cardinality(Completed(rows, i))

\* What was decided about a publication.
Decided ==
    [c \in Calls |->
        IF c \in Contents /\ rows[c] # None /\ rows[c].status # "running"
          THEN [by |-> c, ok |-> rows[c].status = "completed"]
          ELSE None]

Ledger == INSTANCE CallLedger WITH answered <- outcome, ledger <- Decided

\* A publication is answered once, on the ledger first, and a resumed script is
\* told the same: a failure it has caught is not tried again.
KeepsLedger == Ledger!LedgerSpec

\* A run ends: no publication stays unanswered, those cut short by a crash included.
Ends == <>[](run # "running")

\* "run-settled must be the last of the event stream" (engine.ts, askStats).
RunSettledIsLast == ~tail
=============================================================================
