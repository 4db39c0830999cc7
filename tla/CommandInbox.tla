---------------------------- MODULE CommandInbox ----------------------------
(***************************************************************************)
(* The input commands of one session on their way from a client to a turn: *)
(* CommandInbox, which answers a command it has seen before and lets the   *)
(* others run one at a time; v4-gateway-commands.ts, which runs them;      *)
(* PersistentCommandIndex and loadPersistentCommandFacts, the memory that  *)
(* outlives the inbox; and v4-gateway-ingest.ts, which tells the inbox     *)
(* what the turn has done with an input (bootstrap/src/lcode-protocol-v4). *)
(*                                                                         *)
(* One process: what lies between two awaits is one step.  A crash leaves  *)
(* the rows of session_input and the transcript.  Of the answers only what *)
(* the tables hold is kept; noop is a failure; of the four sources the     *)
(* transcript stands for timeline and child as well.                       *)
(***************************************************************************)
EXTENDS Naturals, SequencesExt

CONSTANTS
    Commands,     \* the ids of the commands; each is a new input
    Goals,        \* those that set a goal (sendGoalCommand)
    Calls,        \* requests under way at once, each used again and again
    TableSize,    \* idempotencyTablePerSession
    Faults,       \* what may go wrong, below
    None

\* execute: a command is refused, or fails before a turn has its input or, one that
\* sets a goal, when its input is written already.  turn: a turn ends before it has
\* written its input.  resume: calls and the resuming of the session overlap; READY
\* holds back only the calls that come after it, and session/resume has none.
ASSUME InboxAssumption ==
    /\ TableSize \in Nat
    /\ Goals \subseteq Commands
    /\ Faults \subseteq {"execute", "turn", "resume"}
    /\ None \notin Calls \cup {"accepted", "failed"}

VARIABLES
    session,      \* the record of the session in this process
    row,          \* session_input; "promoted" is written with the transcript
    turn,         \* what the turn has done with an input it was given
    inFlight,     \* the call that executes a command
    live,         \* liveInputs: the pinned answer
    settled,      \* the settled answers, the least recently used first
    index,        \* the cached promise of the persistent command index
    loads,        \* the loads not done yet, by the call that began them
    keyGate,      \* per command, the calls that wait; the first one is inside
    sessionGate,  \* the same for the session
    call,         \* what a call is at
    handed,       \* history: how often a turn got an input in this process
    written       \* history: how often an input got into the transcript

memory == <<session, turn, inFlight, live, settled, index, loads, keyGate, sessionGate>>
vars == <<memory, row, call, handed, written>>

Final == {"accepted", "failed"}
Fact == {"transcript", "discarded", "absent"}

\* fact: what the load it waited for says of its command.
Call == [at : {"done", "key", "final", "load", "fact", "session", "admit", "execute", "handed",
               "wrote", "goal"},
         cmd : Commands \cup {None}, via : Calls \cup {None}, fact : Fact \cup {"error"},
         source : {"transcript", "discarded"}, second : BOOLEAN]

Idle == [at |-> "done", cmd |-> None, via |-> None,
         fact |-> "absent", source |-> "transcript", second |-> FALSE]

NoFacts == [c \in Commands |-> "absent"]
NoLoad == [at |-> "none", facts |-> NoFacts]
NoIndex == [at |-> "none", by |-> None, facts |-> NoFacts]

TypeOK ==
    /\ session \in {"cold", "resuming", "up"}
    /\ row \in [Commands -> {"none", "admitted", "promoted", "cancelled", "discarded"}]
    /\ turn \in [Commands -> {"none", "has", "wrote", "dropped"}]
    /\ inFlight \in [Commands -> Calls \cup {None}]
    /\ live \in [Commands -> Final \cup {None}]
    /\ settled \in Seq([cmd : Commands, ack : Final])
    /\ index \in [at : {"none", "loading", "ready"}, by : Calls \cup {None},
                  facts : [Commands -> Fact]]
    /\ loads \in [Calls -> [at : {"none", "live", "cold", "read"}, facts : [Commands -> Fact]]]
    /\ keyGate \in [Commands -> Seq(Calls)] /\ sessionGate \in Seq(Calls)
    /\ call \in [Calls -> Call]
    /\ handed \in [Commands -> 0..2] /\ written \in [Commands -> 0..2]

\* What a new process starts with.
Fresh(s, t, f, l, m, i, p, g, q) ==
    /\ s = "cold" /\ t = [c \in Commands |-> "none"] /\ f = [c \in Commands |-> None]
    /\ l = [c \in Commands |-> None] /\ m = <<>> /\ i = NoIndex
    /\ p = [k \in Calls |-> NoLoad] /\ g = [c \in Commands |-> <<>>] /\ q = <<>>

Init ==
    /\ Fresh(session, turn, inFlight, live, settled, index, loads, keyGate, sessionGate)
    /\ row = [c \in Commands |-> "none"]
    /\ call = [k \in Calls |-> Idle]
    /\ handed = [c \in Commands |-> 0] /\ written = [c \in Commands |-> 0]

-----------------------------------------------------------------------------
(* The table of settled answers. *)

\* Each command has one answer at most.
Without(c) ==
    IF \E i \in DOMAIN settled : settled[i].cmd = c
    THEN RemoveAt(settled, CHOOSE i \in DOMAIN settled : settled[i].cmd = c)
    ELSE settled

\* rememberSettled: as the newest; the oldest goes when there are too many.
Remember(c, a) ==
    LET kept == Append(Without(c), [cmd |-> c, ack |-> a])
    IN  IF Len(kept) > TableSize THEN Tail(kept) ELSE kept

-----------------------------------------------------------------------------
(* The way of a call: key gate, lookup, session gate, lookup again. *)

Leave(gate, k) == IF gate # <<>> /\ Head(gate) = k THEN Tail(gate) ELSE gate

\* The call returns, which releases the gates it is inside of.
Answer(k) ==
    LET c == call[k].cmd
    IN  /\ call' = [call EXCEPT ![k] = Idle]
        /\ keyGate' = [keyGate EXCEPT ![c] = Leave(@, k)]
        /\ sessionGate' = Leave(sessionGate, k)

\* lookup and ensureSession: the load that is cached, or a new one.
Ask(k, source) ==
    LET c == call[k].cmd
    IN  IF index.at = "ready"
        THEN /\ call' = [call EXCEPT ![k].at = "fact", ![k].source = source,
                                     ![k].fact = index.facts[c], ![k].via = None]
             /\ UNCHANGED <<index, loads>>
        ELSE LET by == IF index.at = "loading" THEN index.by ELSE k
             IN  /\ call' = [call EXCEPT ![k].at = "load", ![k].source = source, ![k].via = by,
                                         ![k].fact = "absent"]
                 /\ IF by = k
                    THEN /\ index' = [NoIndex EXCEPT !.at = "loading", !.by = k]
                         /\ loads' = [loads EXCEPT ![k].at =
                                          IF session = "cold" THEN "cold" ELSE "live"]
                    ELSE UNCHANGED <<index, loads>>

\* A command or a query comes in; which of the two shows when no source knows it.
Arrive(k) ==
    /\ call[k].at = "done"
    /\ session = "resuming" => "resume" \in Faults
    /\ \E c \in Commands :
        /\ call' = [call EXCEPT ![k] = [Idle EXCEPT !.at = "key", !.cmd = c]]
        /\ keyGate' = [keyGate EXCEPT ![c] = Append(@, k)]
    /\ UNCHANGED <<session, turn, inFlight, live, settled, index, loads, sessionGate,
                   row, handed, written>>

\* It is inside, of the key gate or then of the session gate as well.
Inside(k) ==
    \/ /\ call[k].at = "key" /\ keyGate[call[k].cmd] # <<>>
       /\ Head(keyGate[call[k].cmd]) = k
    \/ call[k].at = "session" /\ Head(sessionGate) = k

\* Its command executes: it waits for the outcome, inside the gate.
AwaitFinal(k) ==
    /\ Inside(k) /\ inFlight[call[k].cmd] # None
    /\ call' = [call EXCEPT ![k].at = "final", ![k].second = FALSE]
    /\ UNCHANGED <<memory, row, handed, written>>

AnswerLive(k) ==
    LET c == call[k].cmd
    IN  /\ Inside(k) /\ inFlight[c] = None /\ live[c] # None
        /\ Answer(k)
        /\ UNCHANGED <<session, turn, inFlight, live, settled, index, loads, row, handed, written>>

\* A hit makes the answer the newest of the table.
AnswerSettled(k) ==
    LET c == call[k].cmd
    IN  /\ Inside(k) /\ inFlight[c] = None /\ live[c] = None
        /\ \E i \in DOMAIN settled :
            /\ settled[i].cmd = c
            /\ Answer(k)
            /\ settled' = Append(Without(c), settled[i])
        /\ UNCHANGED <<session, turn, inFlight, live, index, loads, row, handed, written>>

AskIndex(k) ==
    LET c == call[k].cmd
    IN  /\ Inside(k) /\ inFlight[c] = None /\ live[c] = None
        /\ \A i \in DOMAIN settled : settled[i].cmd # c
        /\ Ask(k, "transcript")
        /\ UNCHANGED <<session, turn, inFlight, live, settled, keyGate, sessionGate,
                       row, handed, written>>

\* What the rows say; a session that was not there when the load began has its
\* admitted rows discarded by it.
FactOf(r, how) ==
    CASE r = "promoted" -> "transcript"
      [] r \in {"cancelled", "discarded"} \/ (r = "admitted" /\ how = "cold") -> "discarded"
      [] OTHER -> "absent"

Heard(k, fact) ==
    [w \in Calls |-> IF call[w].at = "load" /\ call[w].via = k
                     THEN [call[w] EXCEPT !.at = "fact", !.via = None, !.fact = fact[call[w].cmd]]
                     ELSE call[w]]

\* The transcript and the rows are read for the load that k began.
Read(k) ==
    /\ loads[k].at \in {"live", "cold"}
    /\ loads' = [loads EXCEPT ![k] =
           [at |-> "read", facts |-> [c \in Commands |-> FactOf(row[c], loads[k].at)]]]
    /\ row' = IF loads[k].at = "cold"
              THEN [c \in Commands |-> IF row[c] = "admitted" THEN "discarded" ELSE row[c]]
              ELSE row
    /\ UNCHANGED <<session, turn, inFlight, live, settled, index, keyGate, sessionGate,
                   call, handed, written>>

LoadFor(k, cached) ==
    /\ loads[k].at = "read"
    /\ call' = Heard(k, loads[k].facts)
    /\ index' = IF cached THEN [at |-> "ready", by |-> None, facts |-> loads[k].facts] ELSE index
    /\ loads' = [loads EXCEPT ![k] = NoLoad]
    /\ UNCHANGED <<session, turn, inFlight, live, settled, keyGate, sessionGate,
                   row, handed, written>>

\* Mutant: the result is cached when it is there, not the promise of it.
LoadAndCache(k) == LoadFor(k, TRUE)

\* Whoever waits for the load gets what was read, also when the load is the
\* cached one no more.
Load(k) == LoadFor(k, index.at = "loading" /\ index.by = k)

\* A failed load is not cached.
LoadFails(k) ==
    /\ loads[k].at \in {"live", "cold"}
    /\ call' = Heard(k, [c \in Commands |-> "error"])
    /\ index' = IF index.at = "loading" /\ index.by = k THEN NoIndex ELSE index
    /\ loads' = [loads EXCEPT ![k] = NoLoad]
    /\ UNCHANGED <<session, turn, inFlight, live, settled, keyGate, sessionGate,
                   row, handed, written>>

AnswerError(k) ==
    /\ call[k].at = "fact" /\ call[k].fact = "error"
    /\ Answer(k)
    /\ UNCHANGED <<session, turn, inFlight, live, settled, index, loads, row, handed, written>>

AnswerFact(k) ==
    /\ call[k].at = "fact" /\ call[k].fact = call[k].source
    /\ Answer(k)
    /\ UNCHANGED <<session, turn, inFlight, live, settled, index, loads, row, handed, written>>

AskNext(k) ==
    /\ call[k].at = "fact" /\ call[k].source = "transcript"
    /\ call[k].fact \in {"absent", "discarded"}
    /\ Ask(k, "discarded")
    /\ UNCHANGED <<session, turn, inFlight, live, settled, keyGate, sessionGate,
                   row, handed, written>>

\* No source knows the command.  A query is told so.
NotFound(k) ==
    call[k].at = "fact" /\ call[k].source = "discarded" /\ call[k].fact \in {"absent", "transcript"}

AnswerUnknown(k) ==
    /\ NotFound(k) /\ ~call[k].second
    /\ Answer(k)
    /\ UNCHANGED <<session, turn, inFlight, live, settled, index, loads, row, handed, written>>

QueueForSession(k) ==
    /\ NotFound(k) /\ ~call[k].second
    /\ call' = [call EXCEPT ![k] = [Idle EXCEPT !.at = "session", !.cmd = call[k].cmd,
                                                !.second = TRUE]]
    /\ sessionGate' = Append(sessionGate, k)
    /\ UNCHANGED <<session, turn, inFlight, live, settled, index, loads, keyGate,
                   row, handed, written>>

\* decideCommand: no session, or the target is stale.  Not remembered.
Reject(k) ==
    /\ NotFound(k) /\ call[k].second
    /\ Answer(k)
    /\ UNCHANGED <<session, turn, inFlight, live, settled, index, loads, row, handed, written>>

\* The command is in flight, the key gate free, the session gate kept.
Execute(k) ==
    LET c == call[k].cmd
    IN  /\ NotFound(k) /\ call[k].second /\ session # "cold"
        /\ inFlight' = [inFlight EXCEPT ![c] = k]
        /\ call' = [call EXCEPT ![k] = [Idle EXCEPT !.at = "admit", !.cmd = c]]
        /\ keyGate' = [keyGate EXCEPT ![c] = Leave(@, k)]
        /\ UNCHANGED <<session, turn, live, settled, index, loads, sessionGate,
                       row, handed, written>>

-----------------------------------------------------------------------------
(* The execution of a command (handleCommand). *)

\* The call returns with the outcome, and so does the one that waits for it.
SettleInto(k, gate) ==
    LET c == call[k].cmd
        Same(w) == call[w].at = "final" /\ call[w].cmd = c
    IN  /\ inFlight' = [inFlight EXCEPT ![c] = None]
        /\ call' = [w \in Calls |-> IF w = k \/ Same(w) THEN Idle ELSE call[w]]
        /\ keyGate' = [keyGate EXCEPT ![c] = IF \E w \in Calls : Same(w) THEN Tail(@) ELSE @]
        /\ sessionGate' = gate

\* Mutant: the session gate is not released.
SettleInside(k) == SettleInto(k, sessionGate)

Settle(k) == SettleInto(k, Leave(sessionGate, k))

\* The durable row, which an earlier one of the id survives, and the pin.
Admit(k) ==
    LET c == call[k].cmd
    IN  /\ call[k].at = "admit"
        /\ row' = [row EXCEPT ![c] = IF @ = "none" THEN "admitted" ELSE @]
        /\ live' = [live EXCEPT ![c] = "accepted"]
        /\ settled' = Without(c)
        /\ call' = [call EXCEPT ![k].at = "execute"]
        /\ UNCHANGED <<session, turn, inFlight, index, loads, keyGate, sessionGate,
                       handed, written>>

\* Too large, or no row; or admitCommandInput throws with the row written: nothing
\* was pinned, so nothing is cancelled or released.
RefuseAdmission(k) ==
    LET c == call[k].cmd
    IN  /\ "execute" \in Faults /\ call[k].at = "admit"
        /\ row' \in {row, [row EXCEPT ![c] = IF @ = "none" THEN "admitted" ELSE @]}
        /\ settled' = Remember(c, "failed")
        /\ Settle(k)
        /\ UNCHANGED <<session, turn, live, index, loads, handed, written>>

\* The input is queued, or a turn is started with it.
HandOver(k) ==
    LET c == call[k].cmd
    IN  /\ call[k].at = "execute"
        /\ turn' = [turn EXCEPT ![c] = "has"]
        /\ handed' = [handed EXCEPT ![c] = IF @ = 2 THEN 2 ELSE @ + 1]
        /\ call' = [call EXCEPT ![k].at = "handed"]
        /\ UNCHANGED <<session, inFlight, live, settled, index, loads, keyGate, sessionGate,
                       row, written>>

\* A goal in an idle session is set inside of the execution: recordExternalUserPrompt
\* writes the message and the row in one transaction.
GoalWrites(k) ==
    LET c == call[k].cmd
    IN  /\ c \in Goals /\ call[k].at = "execute"
        /\ row' = [row EXCEPT ![c] = "promoted"]
        /\ handed' = [handed EXCEPT ![c] = IF @ = 2 THEN 2 ELSE @ + 1]
        /\ written' = [written EXCEPT ![c] = IF @ = 2 THEN 2 ELSE @ + 1]
        /\ call' = [call EXCEPT ![k].at = "wrote"]
        /\ UNCHANGED memory

\* SessionInputPromoted, which the write waits for: as Ingest, below.
GoalIngested(k) ==
    LET c == call[k].cmd
    IN  /\ call[k].at = "wrote"
        /\ index' = NoIndex
        /\ live' = [live EXCEPT ![c] = None]
        /\ settled' = IF live[c] # None THEN Remember(c, live[c]) ELSE settled
        /\ call' = [call EXCEPT ![k].at = "goal"]
        /\ UNCHANGED <<session, turn, inFlight, loads, keyGate, sessionGate,
                       row, handed, written>>

Return(k) ==
    LET c == call[k].cmd
    IN  /\ call[k].at \in {"handed", "goal"}
        /\ Settle(k)
        /\ IF live[c] # None
           THEN live' = [live EXCEPT ![c] = "accepted"] /\ settled' = settled
           ELSE settled' = Remember(c, "accepted") /\ live' = live
        /\ UNCHANGED <<session, turn, index, loads, row, handed, written>>

\* The row is cancelled, if it is admitted still and that can be written, and the
\* pin released.  A goal that is set fails too, when no model is ready to go on with it.
ExecuteFails(k) ==
    LET c == call[k].cmd
    IN  /\ "execute" \in Faults /\ call[k].at \in {"execute", "goal"}
        /\ row' \in {row, [row EXCEPT ![c] = IF @ = "admitted" THEN "cancelled" ELSE @]}
        /\ live' = [live EXCEPT ![c] = None]
        /\ settled' = Remember(c, "failed")
        /\ Settle(k)
        /\ UNCHANGED <<session, turn, index, loads, handed, written>>

-----------------------------------------------------------------------------
(* What becomes of the input: the turn, its events, and the session. *)

\* persistUserPrompt: the message and the row, in one transaction.
Write(c) ==
    /\ turn[c] = "has"
    /\ turn' = [turn EXCEPT ![c] = "wrote"]
    /\ row' = [row EXCEPT ![c] = "promoted"]
    /\ written' = [written EXCEPT ![c] = IF @ = 2 THEN 2 ELSE @ + 1]
    /\ UNCHANGED <<session, inFlight, live, settled, index, loads, keyGate, sessionGate,
                   call, handed>>

\* The user deletes it, or the turn it waits for is cancelled.
Drop(c) ==
    /\ turn[c] = "has"
    /\ turn' = [turn EXCEPT ![c] = "dropped"]
    /\ row' = [row EXCEPT ![c] = IF @ = "admitted" THEN "cancelled" ELSE @]
    /\ UNCHANGED <<session, inFlight, live, settled, index, loads, keyGate, sessionGate,
                   call, handed, written>>

\* The turn ends before the write and says nothing of its input.
Lose(c) ==
    /\ "turn" \in Faults /\ turn[c] = "has"
    /\ turn' = [turn EXCEPT ![c] = "none"]
    /\ UNCHANGED <<session, inFlight, live, settled, index, loads, keyGate, sessionGate,
                   row, call, handed, written>>

\* SessionInputPromoted, or the item gone from the queue: first the index is
\* forgotten, then the pin released.
IngestWith(c, cached) ==
    /\ turn[c] \in {"wrote", "dropped"}
    /\ turn' = [turn EXCEPT ![c] = "none"]
    /\ index' = cached
    /\ live' = [live EXCEPT ![c] = None]
    /\ settled' = IF live[c] # None THEN Remember(c, live[c]) ELSE settled
    /\ UNCHANGED <<session, inFlight, loads, keyGate, sessionGate,
                   row, call, handed, written>>

\* Mutant: the index is kept.
IngestQuietly(c) == IngestWith(c, index)

Ingest(c) == IngestWith(c, NoIndex)

\* The record first; the rows of the dead process are discarded at the end.
Resume ==
    /\ session = "cold" /\ session' = "resuming"
    /\ "resume" \in Faults \/ \A k \in Calls : call[k].at = "done"
    /\ UNCHANGED <<turn, inFlight, live, settled, index, loads, keyGate, sessionGate,
                   row, call, handed, written>>

Sweep ==
    /\ session = "resuming" /\ session' = "up"
    /\ row' = [c \in Commands |-> IF row[c] = "admitted" THEN "discarded" ELSE row[c]]
    /\ UNCHANGED <<turn, inFlight, live, settled, index, loads, keyGate, sessionGate,
                   call, handed, written>>

\* A resident session with nothing pinned is unloaded.  The index stays.
Deactivate ==
    /\ session = "up" /\ session' = "cold"
    /\ \A c \in Commands : turn[c] = "none" /\ inFlight[c] = None /\ live[c] = None
    /\ settled' = <<>>
    /\ UNCHANGED <<turn, inFlight, live, index, loads, keyGate, sessionGate,
                   row, call, handed, written>>

Crash ==
    /\ Fresh(session', turn', inFlight', live', settled', index', loads', keyGate', sessionGate')
    /\ call' = [k \in Calls |-> Idle]
    /\ handed' = [c \in Commands |-> 0]
    /\ UNCHANGED <<row, written>>

\* The gates and the awaits of a call.
Proceed(k) ==
    \/ AwaitFinal(k) \/ AnswerLive(k) \/ AnswerSettled(k) \/ AskIndex(k)
    \/ AnswerError(k) \/ AnswerFact(k) \/ AskNext(k)
    \/ AnswerUnknown(k) \/ QueueForSession(k) \/ Reject(k) \/ Execute(k)
    \/ Admit(k) \/ RefuseAdmission(k) \/ HandOver(k)
    \/ GoalWrites(k) \/ GoalIngested(k) \/ Return(k) \/ ExecuteFails(k)

Loaded(k) == Read(k) \/ Load(k) \/ LoadFails(k)

Next ==
    \/ \E k \in Calls : Arrive(k) \/ Proceed(k) \/ Loaded(k)
    \/ \E c \in Commands : Write(c) \/ Drop(c) \/ Lose(c) \/ Ingest(c)
    \/ Resume \/ Sweep \/ Deactivate \/ Crash

Spec == Init /\ [][Next]_vars

\* The event loop goes on, and the store and the handlers of commands answer.
\* Turns and sessions may do what they like.
FairSpec == Spec /\ \A k \in Calls : WF_vars(Proceed(k)) /\ WF_vars(Loaded(k))

-----------------------------------------------------------------------------
\* An input gets into the transcript once, and to a turn once in a process,
\* however often its command is sent again, whatever the table has forgotten,
\* and across crashes and reloads (command-inbox.ts:149).
OnceEach == \A c \in Commands : handed[c] <= 1 /\ written[c] <= 1

\* An input that is in the transcript is known ever after: no answer about it is
\* that nobody knows it or that it was discarded, and it is not run again, whatever
\* the table and the index have forgotten or not heard of yet
\* (persistent-command-index.ts:90).  Nor is one that it failed, but for the goal
\* whose execution fails when it is set (goal-continuation.ts:25).
WrittenIsKnown ==
    \A c \in Commands : written[c] > 0 =>
        /\ live[c] # "failed"
        /\ \A i \in DOMAIN settled :
              settled[i].cmd = c /\ settled[i].ack = "failed" => c \in Goals
        /\ \A k \in Calls : call[k].cmd = c =>
              /\ ~NotFound(k)
              /\ call[k].at = "fact" /\ call[k].source = "discarded"
                    => call[k].fact # "discarded"

\* Every call is answered: nobody waits for a gate, a load or an outcome that
\* never comes (v4-gateway-commands.ts:191).
Answered == \A k \in Calls : call[k].at # "done" ~> call[k].at = "done"

\* An input with a row is known.  Not so after a failed admission or execution, of
\* which the cached index does not hear, nor when calls and a resume overlap.
AdmittedIsKnown == \A k \in Calls : NotFound(k) => row[call[k].cmd] = "none"
=============================================================================
