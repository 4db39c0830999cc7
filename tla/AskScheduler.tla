---------------------------- MODULE AskScheduler ----------------------------
(***************************************************************************)
(* The asks of one workflow run: journal replay with the hold rule, one    *)
(* FIFO per actor, the run's bound on asks in flight, the repair and nudge *)
(* budgets, stop and retry of a single ask, and the stop and resume of the *)
(* run (dynamic-workflow/src/engine/scheduler*.ts and the parts of         *)
(* engine.ts that they call).                                              *)
(*                                                                         *)
(* JavaScript runs a handler to completion, the microtasks it starts       *)
(* included, so a handler is one action.  The handlers share synchronous   *)
(* code, which is written here as operators from one state of the engine   *)
(* to the next; an action applies them to Now and assigns the result.      *)
(*                                                                         *)
(* The script is external: deterministic, single threaded, it makes the    *)
(* calls whose awaited answers have come, in the order they came.          *)
(***************************************************************************)
EXTENDS HostCalls, Integers, SequencesExt

CONSTANTS
    Script,          \* the calls in program order
    Actors,          \* the subagents in order of creation (actorOrder)
    ActorOf, SiteOf, TextOf,  \* of a call: subagent, ask site, instructions
    Typed,           \* the calls whose site has a schema
    Controllable,    \* the calls the user stops or retries
    MaxConcurrency,  \* caps.maxConcurrency
    RepairAttempts, NudgeAttempts,
    MaxAttempt,      \* bound: attempts of a call
    MaxLives         \* bound: times the run is started

ASSUME SchedulerAssumption ==
    /\ Script \in Seq(Calls) /\ Range(Script) = Calls /\ IsInjective(Script)
    /\ DOMAIN ActorOf = Calls /\ Range(ActorOf) \subseteq Range(Actors)
    /\ Actors \in Seq(Range(Actors)) /\ IsInjective(Actors)
    /\ DOMAIN SiteOf = Calls /\ DOMAIN TextOf = Calls
    /\ Typed \subseteq Calls /\ Controllable \subseteq Calls
    /\ {MaxConcurrency, RepairAttempts, NudgeAttempts, MaxAttempt, MaxLives} \subseteq Nat \ {0}

VARIABLES
    run,      \* the run's status
    actors,   \* Actor, by actor
    nodes,    \* liveNodes
    active,   \* activeAsks
    session,  \* actor.sessionPromise
    inst,     \* the ordinal under which a call was admitted, 0 before
    journal,  \* the dwf_node rows, by instance
    control,  \* the last node-paused or node-retried event, by instance
    outcome,  \* the settled promises, by call
    ready,    \* requests the script has sent and the engine not handled
    turns,    \* attempts running at the driver, superseded ones included
    lives     \* times the run has been started

vars == <<run, actors, nodes, active, session, inst, journal, control, outcome,
          ready, turns, lives>>

ActorSet == Range(Actors)
Sites == Range(SiteOf)
Instances == Sites \X (1..Cardinality(Calls))
Attempts == 1..MaxAttempt

Actor ==
    [next     : Nat,                    \* nextAdmitSeq
     recorded : Nat,                    \* recordedCount
     held     : SUBSET (Nat \X Calls),  \* pendingRecorded
     fresh    : Seq(Calls),             \* pendingLive
     queue    : Seq(Calls),             \* liveQueue
     cur      : Opt(Calls),
     paused   : Opt(Calls)]

Node ==
    [seq : Nat, attempt : Attempts, paused : BOOLEAN,
     repairs : 0..RepairAttempts, nudges : 0..NudgeAttempts]

\* A row also says, as history, which call's execution wrote it and on which
\* attempt.
Row ==
    [actor : ActorSet, seq : Nat, text : Range(TextOf),
     status : {"running", "completed", "failed"}, by : Calls, attempt : Attempts]

Control == [attempt : Attempts, paused : BOOLEAN]

ASSUME RecordAssumption == None \notin Node \cup Row \cup Control

TypeOK ==
    /\ run \in Statuses
    /\ actors \in [ActorSet -> Actor]
    /\ nodes \in [Calls -> Opt(Node)]
    /\ active \in 0..MaxConcurrency
    /\ session \in [ActorSet -> {"none", "opening", "open", "failed"}]
    /\ inst \in [Calls -> 0..Cardinality(Calls)]
    /\ journal \in [Instances -> Opt(Row)]
    /\ control \in [Instances -> Opt(Control)]
    /\ outcome \in [Calls -> Opt(Answers)]
    /\ ready \in Seq(Calls)
    /\ turns \subseteq Calls \X Attempts
    /\ lives \in 1..MaxLives

\* The rows a resumed engine finds for an actor (registerActor).
RowsOf(rows, a) == {i \in Instances : rows[i] # None /\ rows[i].actor = a}

NewActor(rows, a) ==
    [next |-> 0, recorded |-> Cardinality(RowsOf(rows, a)), held |-> {},
     fresh |-> <<>>, queue |-> <<>>, cur |-> None, paused |-> None]

FirstCalls == Among(Script, {c \in Calls : After[c] = {}})

\* A life of the run begins on the rows the journal holds.
Begin(rows) ==
    /\ actors' = [a \in ActorSet |-> NewActor(rows, a)]
    /\ nodes' = Nothing
    /\ active' = 0
    /\ session' = [a \in ActorSet |-> "none"]
    /\ inst' = [c \in Calls |-> 0]
    /\ outcome' = Nothing
    /\ ready' = FirstCalls
    /\ turns' = {}

Init ==
    /\ run = "running" /\ lives = 1
    /\ journal = [i \in Instances |-> None]
    /\ control = [i \in Instances |-> None]
    /\ actors = [a \in ActorSet |-> NewActor(journal, a)]
    /\ nodes = Nothing
    /\ active = 0
    /\ session = [a \in ActorSet |-> "none"]
    /\ inst = [c \in Calls |-> 0]
    /\ outcome = Nothing
    /\ ready = FirstCalls
    /\ turns = {}

-----------------------------------------------------------------------------
(* The synchronous code, from one state s of the engine to the next. *)

Now == [actors |-> actors, nodes |-> nodes, active |-> active, inst |-> inst,
        journal |-> journal, outcome |-> outcome, ready |-> ready]

\* The sessions asked for and the turns started once the handler's microtasks
\* have run: an actor's session is created once, and its current ask is sent
\* to the driver as soon as there is a session (dispatchAsk).  Of the turns at
\* the driver those `running' go on.
Opened(s) ==
    [a \in ActorSet |->
        IF session[a] = "none" /\ s.actors[a].cur # None THEN "opening" ELSE session[a]]

Sent(s) ==
    {<<s.actors[a].cur, s.nodes[s.actors[a].cur].attempt>> :
        a \in {b \in ActorSet : session[b] = "open" /\ s.actors[b].cur # None}}

Become(next, running) ==
    \E s \in {next} :
        /\ actors' = s.actors /\ nodes' = s.nodes /\ active' = s.active
        /\ inst' = s.inst /\ journal' = s.journal
        /\ outcome' = s.outcome /\ ready' = s.ready
        /\ session' = Opened(s)
        /\ turns' = running \cup Sent(s)

InstanceIn(s, c) == <<SiteOf[c], s.inst[c]>>

\* The promise of c settles, and the script goes on to the calls it held up.
Deliver(s, c, answer) ==
    LET o     == [s.outcome EXCEPT ![c] = answer]
        woken == {d \in Calls : c \in After[d] /\ \A p \in After[d] : o[p] # None}
    IN  [s EXCEPT !.outcome = o, !.ready = @ \o Among(Script, woken)]

Idle(s, a) == s.actors[a].paused = None /\ s.actors[a].cur = None /\ s.actors[a].queue # <<>>

\* The slots the run has left.
Room(s) == MaxConcurrency - s.active

\* The actor is given a slot and starts the head of its queue.
Started(r) == [r EXCEPT !.cur = Head(r.queue), !.queue = Tail(@)]

Start(s, a) ==
    [s EXCEPT !.actors[a] = Started(@), !.active = @ + 1]

\* pumpActor.
Pump(s, a) == IF Idle(s, a) /\ Room(s) > 0 THEN Start(s, a) ELSE s

\* pumpAll: pumpActor on each in order of creation, so the first idle actors get
\* the slots.  (Pumped[i] is the singleton of the state after i of them.)
PumpAll(s) ==
    LET Pumped[i \in 0..Len(Actors)] ==
            IF i = 0 THEN {s} ELSE {Pump(t, Actors[i]) : t \in Pumped[i - 1]}
    IN  CHOOSE t \in Pumped[Len(Actors)] : TRUE

Queued(r, c) == [r EXCEPT !.queue = Append(@, c)]

\* admitLive: the row is written before anything runs.
AdmitLive(s, c, seq, k, isPaused) ==
    LET a == ActorOf[c]
    IN  [s EXCEPT
           !.nodes[c] = [seq |-> seq, attempt |-> k, paused |-> isPaused,
                         repairs |-> RepairAttempts, nudges |-> NudgeAttempts],
           !.journal[InstanceIn(s, c)] =
                [actor |-> a, seq |-> seq, text |-> TextOf[c], status |-> "running",
                 by |-> c, attempt |-> k],
           !.actors[a] = IF isPaused THEN [@ EXCEPT !.paused = c] ELSE Queued(@, c)]

\* What was decided in an earlier life is told again, without the driver; what
\* was running is run again, on the attempt and in the state the user left it.
Release(s, c) ==
    LET row   == s.journal[InstanceIn(s, c)]
        saved == control[InstanceIn(s, c)]
    IN  IF row.status = "running"
          THEN AdmitLive(s, c, row.seq, IF saved = None THEN 1 ELSE saved.attempt,
                         saved # None /\ saved.paused)
          ELSE Deliver(s, c, [by |-> row.by, ok |-> row.status = "completed"])

\* One round of drainAdmission: the recorded call whose turn it is, or, once
\* every recorded one is in, the next fresh call.
AdmitNext(s, a) ==
    LET r   == s.actors[a]
        due == {c \in Calls : <<r.next, c>> \in r.held}
        t   == [s EXCEPT !.actors[a].next = @ + 1]
    IN  IF due # {}
          THEN LET c == CHOOSE x \in due : TRUE
               IN  Release([t EXCEPT !.actors[a].held = @ \ {<<r.next, c>>}], c)
          ELSE IF r.next >= r.recorded /\ r.fresh # <<>>
          THEN AdmitLive([t EXCEPT !.actors[a].fresh = Tail(@)], Head(r.fresh), r.next, 1, FALSE)
          ELSE s

\* drainAdmission: rounds until one does nothing; each admits a call.  (Rounds[i]
\* is the singleton of the state after i rounds.)
DrainAdmission(s, a) ==
    LET most == Cardinality(s.actors[a].held) + Len(s.actors[a].fresh)
        Rounds[i \in 0..most] ==
            IF i = 0 THEN {s} ELSE {AdmitNext(t, a) : t \in Rounds[i - 1]}
    IN  Pump(CHOOSE t \in Rounds[most] : TRUE, a)

Ended(row, k, good) ==
    [row EXCEPT !.status = IF good THEN "completed" ELSE "failed", !.attempt = k]

\* Mutant: a failure is not journalled.
SettledUnwritten(s, c, k, good) ==
    LET a == ActorOf[c]
        t == [s EXCEPT
                !.journal[InstanceIn(s, c)] = IF good THEN Ended(@, k, good) ELSE @,
                !.nodes[c] = None,
                !.actors[a].cur = IF @ = c THEN None ELSE @,
                !.active = IF s.actors[a].cur = c THEN @ - 1 ELSE @]
    IN  Deliver(PumpAll(t), c, [by |-> c, ok |-> good])

\* settleOk and settleFailed: the row before the promise, the pump in between.
Settled(s, c, k, good) ==
    LET a == ActorOf[c]
        t == [s EXCEPT
                !.journal[InstanceIn(s, c)] = Ended(@, k, good),
                !.nodes[c] = None,
                !.actors[a].cur = IF @ = c THEN None ELSE @,
                !.active = IF s.actors[a].cur = c THEN @ - 1 ELSE @]
    IN  Deliver(PumpAll(t), c, [by |-> c, ok |-> good])

StoppedAt(r, c) ==
    [r EXCEPT !.cur = IF @ = c THEN None ELSE @, !.queue = Among(@, Calls \ {c}), !.paused = c]

\* Mutant: stopping an ask pumps its own actor only.
PausedPumpingOwn(s, c) ==
    LET a == ActorOf[c]
    IN  Pump([s EXCEPT
                !.nodes[c].paused = TRUE,
                !.active = IF s.actors[a].cur = c THEN @ - 1 ELSE @,
                !.actors[a] = StoppedAt(@, c)], a)

\* Mutant: a stopped ask keeps its slot.
PausedKeepingSlot(s, c) ==
    LET a == ActorOf[c]
    IN  PumpAll([s EXCEPT
                   !.nodes[c].paused = TRUE,
                   !.actors[a] = StoppedAt(@, c)])

\* pauseAsk: the slot goes to whoever is next; the promise stays open.
Paused(s, c) ==
    LET a == ActorOf[c]
    IN  PumpAll([s EXCEPT
                   !.nodes[c].paused = TRUE,
                   !.active = IF s.actors[a].cur = c THEN @ - 1 ELSE @,
                   !.actors[a] = StoppedAt(@, c)])

Again(n) ==
    [n EXCEPT !.attempt = @ + 1, !.paused = FALSE,
              !.repairs = RepairAttempts, !.nudges = NudgeAttempts]

QueuedFirst(r, c) == [r EXCEPT !.queue = <<c>> \o @, !.paused = None]

\* Mutant: the retried ask goes to the end of the queue.
RetriedBehind(s, c) ==
    LET a == ActorOf[c]
    IN  Pump([s EXCEPT
                !.nodes[c] = Again(@),
                !.actors[a] = [Queued(@, c) EXCEPT !.paused = None]], a)

\* retryAsk: another attempt behind the same promise, at the head of the queue.
Retried(s, c) ==
    LET a == ActorOf[c]
    IN  Pump([s EXCEPT
                !.nodes[c] = Again(@),
                !.actors[a] = QueuedFirst(@, c)], a)

-----------------------------------------------------------------------------
(* The script's requests. *)

\* The instance the next call of a site gets (nextOrdinal).
NextInstance(c) == <<SiteOf[c], 1 + Cardinality({d \in Calls : SiteOf[d] = SiteOf[c] /\ inst[d] # 0})>>

\* The request of call c is taken from the pipe and gets instance i.
Taken(c, i) == [Now EXCEPT !.inst[c] = i[2], !.ready = Tail(@)]

AskFresh(c) ==
    LET a == ActorOf[c]
        t == [Taken(c, NextInstance(c)) EXCEPT !.actors[a].fresh = Append(@, c)]
    IN  /\ journal[NextInstance(c)] = None
        /\ Become(PumpAll(DrainAdmission(t, a)), turns)
        /\ UNCHANGED <<run, control, lives>>

\* A hit is held until its recorded turn among the actor's asks.
AskRecorded(c) ==
    LET a   == ActorOf[c]
        row == journal[NextInstance(c)]
        t   == [Taken(c, NextInstance(c)) EXCEPT
                  !.actors[a].held = {h \in @ : h[1] # row.seq} \cup {<<row.seq, c>>}]
    IN  /\ row # None /\ row.text = TextOf[c]
        /\ Become(DrainAdmission(t, a), turns)
        /\ UNCHANGED <<run, control, lives>>

\* abortInFlight, and the engine deaf from then on.
Close(status) ==
    /\ run' = status
    /\ nodes' = Nothing /\ active' = 0
    /\ actors' = [a \in ActorSet |-> [actors[a] EXCEPT !.paused = None]]
    /\ UNCHANGED <<session, inst, journal, control, outcome, ready, turns, lives>>

\* The hit is for other instructions: the run fails (hashMismatch).
AskMismatch(c) ==
    /\ journal[NextInstance(c)] # None
    /\ journal[NextInstance(c)].text # TextOf[c]
    /\ Close("errored")

Ask ==
    /\ run = "running" /\ ready # <<>>
    /\ AskFresh(Head(ready)) \/ AskRecorded(Head(ready)) \/ AskMismatch(Head(ready))

-----------------------------------------------------------------------------
(* Reports of the driver.  Those of superseded or stopped attempts are dropped. *)

\* Mutant: a report is taken for the call, whatever its attempt.
AnyAttempt(c, k) == nodes[c] # None /\ k \in Attempts

CurrentAttempt(c, k) == nodes[c] # None /\ nodes[c].attempt = k

Live(c, k) == CurrentAttempt(c, k) /\ ~nodes[c].paused

Settle(c, k, good) ==
    /\ Become(Settled(Now, c, k, good), turns \ {<<c, k>>})
    /\ UNCHANGED <<run, control, lives>>

\* A valid submit, or the end of the turn where there is no schema.
Accept(c, k) == Live(c, k) /\ Settle(c, k, TRUE)

\* An invalid submit the model may repair, a turn without one it is nudged about.
SendBack(c, k) ==
    /\ Live(c, k) /\ c \in Typed
    /\ \/ nodes[c].repairs > 0 /\ nodes' = [nodes EXCEPT ![c].repairs = @ - 1]
       \/ nodes[c].nudges > 0 /\ nodes' = [nodes EXCEPT ![c].nudges = @ - 1]
    /\ UNCHANGED <<run, actors, active, session, inst, journal, control, outcome, ready,
                   turns, lives>>

\* The budget is spent, or the driver reports a failure.
Fail(c, k) == Live(c, k) /\ Settle(c, k, FALSE)

Drop(c, k) ==
    /\ ~Live(c, k)
    /\ turns' = turns \ {<<c, k>>}
    /\ UNCHANGED <<run, actors, nodes, active, session, inst, journal, control, outcome, ready,
                   lives>>

Report(c, k) ==
    /\ run = "running" /\ <<c, k>> \in turns
    /\ Accept(c, k) \/ SendBack(c, k) \/ Fail(c, k) \/ Drop(c, k)

\* Mutant: the ask that waited for the session is not sent.
OpenSessionQuietly(a) ==
    /\ run = "running" /\ session[a] = "opening"
    /\ session' = [session EXCEPT ![a] = "open"]
    /\ UNCHANGED <<run, actors, nodes, active, inst, journal, control, outcome, ready, lives, turns>>

\* createActorSession answers: the current ask, if any, has been waiting for it.
OpenSession(a) ==
    /\ run = "running" /\ session[a] = "opening"
    /\ session' = [session EXCEPT ![a] = "open"]
    /\ turns' = turns \cup {<<c, nodes[c].attempt>> : c \in {actors[a].cur} \ {None}}
    /\ UNCHANGED <<run, actors, nodes, active, inst, journal, control, outcome, ready, lives>>

FailSession(a) ==
    /\ run = "running" /\ session[a] = "opening"
    /\ session' = [session EXCEPT ![a] = "failed"]
    /\ UNCHANGED <<run, actors, nodes, active, inst, journal, control, outcome, ready,
                   turns, lives>>

\* The rejected promise is kept: every ask the actor comes to fails.
FailDispatch(a) ==
    /\ run = "running" /\ session[a] = "failed" /\ actors[a].cur # None
    /\ Settle(actors[a].cur, nodes[actors[a].cur].attempt, FALSE)

-----------------------------------------------------------------------------
(* The user's control of a single ask (controlAsk). *)

Marked(c, k, isPaused) ==
    control' = [control EXCEPT ![InstanceIn(Now, c)] = [attempt |-> k, paused |-> isPaused]]

Stoppable(c) ==
    /\ run = "running" /\ c \in Controllable
    /\ nodes[c] # None /\ nodes[c].attempt < MaxAttempt

Pause(c) ==
    /\ Stoppable(c) /\ ~nodes[c].paused
    /\ Become(Paused(Now, c), turns)
    /\ Marked(c, nodes[c].attempt, TRUE)
    /\ UNCHANGED <<run, lives>>

\* Retry stops a live attempt first, in the same synchronous slice.
Retry(c) ==
    /\ Stoppable(c)
    /\ Become(Retried(IF nodes[c].paused THEN Now ELSE Paused(Now, c), c), turns)
    /\ Marked(c, nodes[c].attempt + 1, FALSE)
    /\ UNCHANGED <<run, lives>>

-----------------------------------------------------------------------------
(* The run. *)

\* The script returns; asks it did not wait for are abandoned.
Complete ==
    /\ run = "running" /\ \A c \in Returns : outcome[c] # None
    /\ Close("completed")

\* The run is stopped, or its process dies: only the journal is left, and a row
\* that was running stays so.
Halt == run = "running" /\ Close("stopped")

\* Only a stopped run can be resumed.
Resume ==
    /\ run = "stopped" /\ lives < MaxLives
    /\ run' = "running"
    /\ lives' = lives + 1
    /\ Begin(journal)
    /\ UNCHANGED <<journal, control>>

Over == run # "running" /\ UNCHANGED vars

\* The pipe is read, sessions answer, turns end and the script returns: as long as
\* one of these can happen, one does.  Nobody has to stop, retry or resume anything.
Progress ==
    \/ Complete
    \/ \E a \in ActorSet : OpenSession(a) \/ FailSession(a) \/ FailDispatch(a)
    \/ Ask
    \/ \E c \in Calls, k \in Attempts : Report(c, k)

Next ==
    \/ Progress
    \/ \E c \in Calls : Pause(c) \/ Retry(c)
    \/ Halt
    \/ Resume
    \/ Over

Fairness == WF_vars(Progress)

Spec == Init /\ [][Next]_vars
FairSpec == Spec /\ Fairness

-----------------------------------------------------------------------------
\* A live ask is in one place: its actor's current ask, once in the queue, or
\* stopped and in neither; the slots taken are the current asks.
Placement ==
    run = "running" =>
      /\ active = Cardinality({a \in ActorSet : actors[a].cur # None})
      /\ \A c \in Calls : nodes[c] # None =>
            LET r == actors[ActorOf[c]]
                n == Cardinality({j \in DOMAIN r.queue : r.queue[j] = c})
            IN  n + (IF r.cur = c THEN 1 ELSE 0) = IF nodes[c].paused THEN 0 ELSE 1

\* No slot is left free while an actor has an ask it may run: every handler that
\* frees a slot or unblocks an actor pumps whoever can use it.
WorkConserving == run = "running" => \A a \in ActorSet : ~(Idle(Now, a) /\ Room(Now) > 0)

\* The rows of an actor keep the seqs 0, 1, ... apart across resumes: a fresh ask
\* never takes the place of a recorded one that has not come yet (hold rule).
SeqsContiguous ==
    \A a \in ActorSet :
        {journal[i].seq : i \in RowsOf(journal, a)} = 0..(Cardinality(RowsOf(journal, a)) - 1)

\* A stopped ask is not settled, and one that was retried is settled by its last
\* attempt only, across resumes too: late reports of the others are dropped.
LateReportsDropped ==
    \A i \in Instances : control[i] # None =>
        /\ control[i].paused => journal[i].status = "running"
        /\ journal[i].status # "running" => journal[i].attempt = control[i].attempt

\* An actor takes its asks in the order of their admission (actorSeq), the order
\* of earlier lives included; only an ask the user retries goes ahead of others,
\* and none goes ahead of it.
InOrder ==
    [][\A a \in ActorSet, c \in Calls :
          /\ actors'[a].cur = c /\ actors[a].cur # c
          /\ nodes'[c].attempt = 1
          => \A d \in Calls : nodes'[d] # None /\ ActorOf[d] = a => nodes'[c].seq <= nodes'[d].seq]_vars

\* "A stopped current ask keeps its FIFO position; later asks of the actor do not
\* overtake it" (scheduler-types.ts, Actor.paused).
HeldPlace ==
    [][\A c, d \in Calls :
          /\ nodes[c] # None /\ nodes[c].paused
          /\ nodes'[c] # None /\ nodes'[c].paused
          /\ actors'[ActorOf[c]].cur = d /\ nodes'[d].seq > nodes'[c].seq
          => actors[ActorOf[c]].cur = d]_vars

\* What was decided: the settled rows, by the call whose execution wrote them.
Decided ==
    [c \in Calls |->
        IF \E i \in Instances : journal[i] # None /\ journal[i].by = c /\ journal[i].status # "running"
          THEN LET i == CHOOSE j \in Instances : journal[j] # None /\ journal[j].by = c
               IN  [by |-> c, ok |-> journal[i].status = "completed"]
          ELSE None]

Ledger == INSTANCE CallLedger WITH answered <- outcome, ledger <- Decided

\* The engine keeps the ledger's promise: answers are journalled before they are
\* told, told again after a resume, and never another call's.
KeepsLedger == Ledger!LedgerSpec

\* A run does not hang: it ends, or waits for the user to retry an ask.
NoHang == <>[](run = "running" => \E c \in Calls : nodes[c] # None /\ nodes[c].paused)

\* A replay never drifts in silence (engine.ts, header): an ask is told what its
\* own execution answered, never what another ask of the script was told.
NoSilentDrift == \A c \in Calls : outcome[c] # None => outcome[c].by = c

\* "First execution and replay are the same, word for word" (engine.ts, header):
\* the run of a deterministic script does not fail on a hit.
ReplayMatches == run # "errored"
=============================================================================
