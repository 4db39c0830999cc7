----------------------------- MODULE OffPeakTask -----------------------------
(***************************************************************************)
(* One off-peak task of the desktop app: its row of off_peak_tasks         *)
(* (services/src/session/offPeakTaskRepo.ts) as the scheduler process      *)
(* (desktop/src/scheduler/index.ts, offPeakDispatchSettlement.ts), the     *)
(* hosts of the windows (desktop/src/host/index.ts) and the task service   *)
(* in each host (offPeakTaskService.ts) read and write it, each a process  *)
(* of its own, and the queue of tickets of the server.                     *)
(*                                                                         *)
(* Every write of the row is one transaction; between the awaits of an     *)
(* operation the others may act, so each part is an action.                *)
(***************************************************************************)
EXTENDS Naturals, Sequences

CONSTANTS
    Tickets,    \* the server's tickets of the task; an unused one may come back
    Segments,   \* how many dispatches there may be
    Hosts,      \* the windows, each with a task service that polls
    Faults,     \* what may go wrong, below
    None

\* slow: a dispatch lasts longer than OFF_PEAK_CLAIM_STALE_MS.  overtake: a run
\* ends before the result of its dispatch is settled.  forgets: the server no
\* longer knows a ticket.  restart: the app is quit or dies, and starts again.
ASSUME OffPeakAssumption ==
    /\ Segments \in Nat
    /\ Faults \subseteq {"slow", "overtake", "forgets", "restart"}
    /\ None \notin Tickets \cup Hosts
    /\ {"expiry", "user"} \cap Hosts = {}

VARIABLES
    row,      \* the row of the task
    seg,      \* the dispatches, oldest first
    server,   \* what the server holds of each ticket
    poll,     \* what the sync cycle of each host is at
    retake    \* the takeTicket calls under way, by who made them

vars == <<row, seg, server, poll, retake>>

Terminal == {"completed", "failed", "cancelled"}
Status == {"none", "queued", "paused", "running", "deleted"} \cup Terminal

\* status, claim_running, schedulable, server_ticket_id, conversation_id (the
\* dispatch that created it, 0 for none), settled_at.
Row == [status : Status, claimed : BOOLEAN, schedulable : BOOLEAN,
        ticket : Tickets \cup {None}, conversation : 0..Segments, settled : BOOLEAN]

\* at: where the dispatch is, from the request to the settled result.
\* loop: the agent loop it started, or how that ended; closed when written back.
Segment == [at : {"asked", "admitted", "transient", "permanent", "settled"},
            ticket : Tickets, conversation : 0..Segments,
            loop : {"none", "running", "succeeded", "failed", "stopped", "expired", "closed"}]

Alive == {"waiting", "ready", "active"}
\* dead: expired, or replaced by another.  gone: settled, or not known any more.
TicketState == {"none", "dead", "gone"} \cup Alive

Asked == [at |-> "asked", ticket |-> None, ready |-> FALSE]
ASSUME NoneIsNoTake == None # Asked

Retakers == Hosts \cup {"expiry", "user"}

TypeOK ==
    /\ row \in Row /\ (row.ticket = None <=> row.status = "none")
    /\ seg \in Seq(Segment) /\ Len(seg) <= Segments
    /\ server \in [Tickets -> TicketState]
    /\ poll \in [Hosts -> {None} \cup
            [ticket : Tickets, queued : BOOLEAN, state : {None, "taking"} \cup TicketState]]
    /\ retake \in [Retakers -> {None} \cup [at : {"looking", "looked", "asked", "taken"},
                                         ticket : Tickets \cup {None}, ready : BOOLEAN]]

Init ==
    /\ row = [status |-> "none", claimed |-> FALSE, schedulable |-> FALSE, ticket |-> None,
              conversation |-> 0, settled |-> FALSE]
    /\ seg = <<>>
    /\ server = [t \in Tickets |-> "none"]
    /\ poll = [h \in Hosts |-> None]
    /\ retake = [o \in Retakers |-> None]

-----------------------------------------------------------------------------
\* The server.  A ticket nothing refers to any more is as good as a new one.
Polled == {poll[h].ticket : h \in {g \in Hosts : poll[g] # None /\ poll[g].state # "taking"}}
Issued == {retake[o].ticket : o \in {p \in Retakers : retake[p] # None}}
Used == {row.ticket} \cup Polled \cup Issued \cup
        {seg[i].ticket : i \in {j \in DOMAIN seg : seg[j].loop # "closed"}}
Fresh(t) == t \notin Used

\* A task has one live ticket: taking another one ends the last.
Take(t, state) ==
    /\ Fresh(t)
    /\ server' = [u \in Tickets |-> IF u = t THEN state
                                    ELSE IF server[u] \in Alive THEN "dead" ELSE server[u]]

BecomeReady(t) ==
    /\ server[t] = "waiting"
    /\ server' = [server EXCEPT ![t] = "ready"]
    /\ UNCHANGED <<row, seg, poll, retake>>

\* Ready for too long, or active for three hours.
Expire(t) ==
    /\ server[t] \in {"ready", "active"}
    /\ server' = [server EXCEPT ![t] = "dead"]
    /\ UNCHANGED <<row, seg, poll, retake>>

Forgotten(t) ==
    /\ "forgets" \in Faults /\ server[t] = "dead"
    /\ server' = [server EXCEPT ![t] = "gone"]
    /\ UNCHANGED <<row, seg, poll, retake>>

-----------------------------------------------------------------------------
\* createTask: the ticket is taken first, then the row is inserted.
Create(t, state) ==
    /\ row.status = "none"
    /\ Take(t, state)
    /\ row' = [row EXCEPT !.status = "queued", !.ticket = t, !.schedulable = (state = "ready")]
    /\ UNCHANGED <<seg, poll, retake>>

\* A dispatch whose result the scheduler does not have.
Underway(i) == seg[i].at # "settled"

\* claimed_at is ten minutes old: the holder is gone, or slow.
Stale == "slow" \in Faults \/ \A i \in DOMAIN seg : ~Underway(i)

\* Mutant: a claim of another tick does not keep the task from being claimed.
ClaimAnyway ==
    /\ row.status = "queued" /\ row.schedulable
    /\ Len(seg) < Segments
    /\ seg' = Append(seg, [at |-> "asked", ticket |-> row.ticket,
                           conversation |-> row.conversation, loop |-> "none"])
    /\ row' = [row EXCEPT !.claimed = TRUE]
    /\ UNCHANGED <<server, poll, retake>>

\* Mutant: claims never get stale.
ClaimUnclaimed ==
    /\ ~row.claimed /\ row.status = "queued" /\ row.schedulable /\ Len(seg) < Segments
    /\ seg' = Append(seg, [at |-> "asked", ticket |-> row.ticket,
                           conversation |-> row.conversation, loop |-> "none"])
    /\ row' = [row EXCEPT !.claimed = TRUE]
    /\ UNCHANGED <<server, poll, retake>>

\* claimDue and handleOffPeakClaimed: stale claims are released, a due task is
\* claimed and a dispatch of it asked for, or released at once as it backs off.
ClaimDue ==
    /\ row.claimed => Stale
    /\ IF row.status = "queued" /\ row.schedulable /\ Len(seg) < Segments
       THEN /\ seg' = Append(seg, [at |-> "asked", ticket |-> row.ticket,
                                   conversation |-> row.conversation, loop |-> "none"])
            /\ row' = [row EXCEPT !.claimed = TRUE]
       ELSE row' = [row EXCEPT !.claimed = FALSE] /\ UNCHANGED seg
    /\ UNCHANGED <<server, poll, retake>>

\* dispatchOffPeakRun: it resumes the conversation or creates one and prompts it;
\* or is refused, for good (no such model) or for now (no host, session busy).
Admit(i) ==
    /\ seg[i].at = "asked"
    /\ seg' = [seg EXCEPT ![i].at = "admitted", ![i].loop = "running",
                          ![i].conversation = IF @ = 0 THEN i ELSE @]
    /\ server' = [server EXCEPT ![seg[i].ticket] = IF @ = "ready" THEN "active" ELSE @]
    /\ UNCHANGED <<row, poll, retake>>

Refuse(i, kind) ==
    /\ seg[i].at = "asked"
    /\ seg' = [seg EXCEPT ![i].at = kind]
    /\ UNCHANGED <<row, server, poll, retake>>

\* Mutant: no look at whether the task is still queued.
MarkRunningBlindly(i) ==
    [row EXCEPT !.status = "running", !.claimed = FALSE, !.conversation = seg[i].conversation]

\* markRunning: only a queued task; otherwise the claim is released.
MarkRunning(i) ==
    IF row.status = "queued"
    THEN [row EXCEPT !.status = "running", !.claimed = FALSE,
                     !.conversation = seg[i].conversation]
    ELSE [row EXCEPT !.claimed = FALSE]

\* Mutant: the state that is final is not looked at.
MarkTerminalAgain(status) ==
    [row EXCEPT !.status = status, !.schedulable = FALSE, !.claimed = FALSE]

\* markTerminal: a final state is never left.
MarkTerminal(status) ==
    IF row.status \in Terminal \cup {"deleted"} THEN row
    ELSE [row EXCEPT !.status = status, !.schedulable = FALSE, !.claimed = FALSE]

\* settleOffPeakDispatchResult, of whichever claim the task has by now.
SettleDispatch(i) ==
    /\ seg[i].at \in {"admitted", "transient", "permanent"}
    /\ row' = CASE seg[i].at = "admitted" -> MarkRunning(i)
                [] seg[i].at = "permanent" -> [MarkTerminal("failed") EXCEPT !.claimed = FALSE]
                [] OTHER -> [row EXCEPT !.claimed = FALSE]
    /\ seg' = [seg EXCEPT ![i].at = "settled",
                          ![i].loop = IF @ = "none" THEN "closed" ELSE @]
    /\ UNCHANGED <<server, poll, retake>>

\* The agent loop ends; without a live ticket it can only end so.
LoopEnds(i, outcome) ==
    /\ seg[i].loop = "running"
    /\ outcome = "expired" => server[seg[i].ticket] \notin Alive
    /\ seg' = [seg EXCEPT ![i].loop = outcome]
    /\ UNCHANGED <<row, server, poll, retake>>

\* finalizeOffPeakRun: the final state; or, the ticket having expired, back to
\* the queue (requeueForContinuation) with a new ticket to be taken.
WriteBack(i) ==
    /\ seg[i].loop \in {"succeeded", "failed", "stopped", "expired"}
    /\ "overtake" \in Faults \/ ~Underway(i)
    /\ seg' = [seg EXCEPT ![i].loop = "closed"]
    /\ IF seg[i].loop # "expired"
       THEN /\ row' = MarkTerminal(CASE seg[i].loop = "succeeded" -> "completed"
                                     [] seg[i].loop = "stopped" -> "cancelled"
                                     [] OTHER -> "failed")
            /\ UNCHANGED retake
       ELSE IF row.status = "running"
       THEN /\ retake["expiry"] = None
            /\ row' = [row EXCEPT !.status = "queued", !.schedulable = FALSE, !.claimed = FALSE]
            /\ retake' = [retake EXCEPT !["expiry"] = Asked]
       ELSE UNCHANGED <<row, retake>>
    /\ UNCHANGED <<server, poll>>

-----------------------------------------------------------------------------
\* The loop of the conversation the row knows is stopped (stopGeneration).
StopLoop(s) ==
    [i \in DOMAIN s |-> IF s[i].loop = "running" /\ s[i].conversation = row.conversation
                        THEN [s[i] EXCEPT !.loop = "stopped"] ELSE s[i]]

\* cancelTask: the row, then the loop.
Cancel ==
    /\ row.status \in {"queued", "paused", "running"}
    /\ row' = MarkTerminal("cancelled")
    /\ seg' = IF row.status = "running" THEN StopLoop(seg) ELSE seg
    /\ UNCHANGED <<server, poll, retake>>

\* deleteTask, which cancels first.
Delete ==
    /\ row.status \in Terminal
    /\ row' = [row EXCEPT !.status = "deleted"]
    /\ UNCHANGED <<seg, server, poll, retake>>

\* setPaused: not while it is claimed.
Pause ==
    /\ row.status = "queued" /\ ~row.claimed
    /\ row' = [row EXCEPT !.status = "paused"]
    /\ UNCHANGED <<seg, server, poll, retake>>

\* continueTask: queued again, then its ticket is looked at, and replaced if dead;
\* without an answer it is taken to be alive.
Continue ==
    /\ row.status = "paused" /\ ~row.claimed /\ retake["user"] = None
    /\ row' = [row EXCEPT !.status = "queued"]
    /\ retake' = [retake EXCEPT !["user"] = [at |-> "looking", ticket |-> row.ticket,
                                             ready |-> FALSE]]
    /\ UNCHANGED <<seg, server, poll>>

Look ==
    /\ retake["user"] # None /\ retake["user"].at = "looking"
    /\ LET state == server[retake["user"].ticket]
       IN  retake' = [retake EXCEPT !["user"] =
               IF state \in Alive THEN [@ EXCEPT !.at = "looked", !.ready = (state = "ready")]
               ELSE Asked]
    /\ UNCHANGED <<row, seg, server, poll>>

LookFails ==
    /\ retake["user"] # None /\ retake["user"].at = "looking"
    /\ retake' = [retake EXCEPT !["user"] = None]
    /\ UNCHANGED <<row, seg, server, poll>>

-----------------------------------------------------------------------------
\* runSyncCycle: the task is read and the state of its ticket asked for.
PollBegins(h) ==
    /\ poll[h] = None
    /\ row.status \in {"queued", "paused", "running"}
    /\ poll' = [poll EXCEPT ![h] = [ticket |-> row.ticket, queued |-> row.status = "queued",
                                   state |-> None]]
    /\ UNCHANGED <<row, seg, server, retake>>

PollAnswered(h) ==
    /\ poll[h] # None /\ poll[h].state = None
    /\ poll' = [poll EXCEPT ![h].state = server[poll[h].ticket]]
    /\ UNCHANGED <<row, seg, server, retake>>

PollFails(h) ==
    /\ poll[h] # None /\ poll[h].state = None
    /\ poll' = [poll EXCEPT ![h] = None]
    /\ UNCHANGED <<row, seg, server, retake>>

\* updateSchedulingSnapshot of a row that is there, whatever its status.
Snapshot(t, schedulable) ==
    IF row.status = "deleted" THEN row
    ELSE [row EXCEPT !.ticket = t, !.schedulable = schedulable]

\* Mutant: an expired ticket is kept until the run finds out.
PollIgnoresExpiry(h) ==
    /\ poll[h] # None /\ poll[h].state \in TicketState
    /\ row' = IF poll[h].state \in {"ready", "waiting"}
              THEN Snapshot(row.ticket, poll[h].state = "ready") ELSE row
    /\ poll' = [poll EXCEPT ![h] = None]
    /\ UNCHANGED <<seg, server, retake>>

\* applyTicketStatus, by the status and the ticket the cycle read when it began.
PollApplies(h) ==
    /\ poll[h] # None /\ poll[h].state \in TicketState
    /\ LET expired == poll[h].state = "dead" /\ poll[h].queued
       IN  /\ row' = CASE poll[h].state \in {"ready", "waiting"} ->
                              Snapshot(row.ticket, poll[h].state = "ready")
                       [] expired -> Snapshot(row.ticket, FALSE)
                       [] OTHER -> row
           /\ poll' = IF expired THEN [poll EXCEPT ![h].state = "taking"]
                       ELSE [poll EXCEPT ![h] = None]
           /\ retake' = IF expired THEN [retake EXCEPT ![h] = Asked] ELSE retake
    /\ UNCHANGED <<seg, server>>

\* retakeTicket: taken at the server, then written to the row; or it fails, and
\* the next cycle is to take it.
RetakeTakes(o, t, state) ==
    /\ retake[o] = Asked
    /\ Take(t, state)
    /\ retake' = [retake EXCEPT ![o] = [at |-> "taken", ticket |-> t, ready |-> state = "ready"]]
    /\ UNCHANGED <<row, seg, poll>>

Done(o) == poll' = IF o \in Hosts THEN [poll EXCEPT ![o] = None] ELSE poll

\* What was taken, or seen of the ticket that was looked at, is written.
RetakeWrites(o) ==
    /\ retake[o] # None /\ retake[o].at \in {"looked", "taken"}
    /\ row' = Snapshot(IF retake[o].at = "taken" THEN retake[o].ticket ELSE row.ticket,
                       retake[o].ready)
    /\ retake' = [retake EXCEPT ![o] = None]
    /\ Done(o)
    /\ UNCHANGED <<seg, server>>

RetakeFails(o) ==
    /\ retake[o] = Asked
    /\ retake' = [retake EXCEPT ![o] = None]
    /\ Done(o)
    /\ UNCHANGED <<row, seg, server>>

\* Mutant: failed tasks are not reported.
SettleUnlessFailed ==
    /\ row.status \in Terminal \ {"failed"} /\ ~row.settled
    /\ row' = [row EXCEPT !.settled = TRUE]
    /\ server' = [server EXCEPT ![row.ticket] = "gone"]
    /\ UNCHANGED <<seg, poll, retake>>

\* settleOne, after a cancellation and for what flushSettleOutbox finds.
Settle ==
    /\ row.status \in Terminal /\ ~row.settled
    /\ row' = [row EXCEPT !.settled = TRUE]
    /\ server' = [server EXCEPT ![row.ticket] = "gone"]
    /\ UNCHANGED <<seg, poll, retake>>

-----------------------------------------------------------------------------
\* Mutant: what ran when the app died is left as it is.
LeaveInterrupted == row

\* recoverInterrupted: what ran when the app died is queued again.
RecoverInterrupted ==
    IF row.status = "running" THEN [row EXCEPT !.status = "queued", !.claimed = FALSE] ELSE row

\* The app ends, its loops, polls and messages with it, and starts again; the
\* scheduler may have had the time to release its claims (dispose).
Restart ==
    /\ "restart" \in Faults /\ row.status # "none"
    /\ \E kept \in BOOLEAN :
           row' = [RecoverInterrupted EXCEPT !.claimed = RecoverInterrupted.claimed /\ kept]
    /\ seg' = [i \in DOMAIN seg |-> [seg[i] EXCEPT !.at = "settled", !.loop = "closed"]]
    /\ poll' = [h \in Hosts |-> None]
    /\ retake' = [o \in Retakers |-> None]
    /\ UNCHANGED server

-----------------------------------------------------------------------------
\* What the processes do by themselves.  The user, the outcome of a run and the
\* server's queue are not among it.
Sync(h) == PollBegins(h) \/ PollAnswered(h) \/ PollApplies(h)
Retake(o) == (\E t \in Tickets : \E state \in {"waiting", "ready"} : RetakeTakes(o, t, state))
             \/ RetakeWrites(o)

Progress ==
    \/ ClaimDue
    \/ \E i \in DOMAIN seg : Admit(i) \/ SettleDispatch(i) \/ WriteBack(i)
    \/ \E o \in Retakers \ Hosts : Retake(o)
    \/ Look \/ Settle

Next ==
    \/ Progress
    \/ \E h \in Hosts : Sync(h) \/ Retake(h) \/ PollFails(h)
    \/ \E o \in Retakers : RetakeFails(o)
    \/ \E t \in Tickets : \E state \in {"waiting", "ready"} : Create(t, state)
    \/ \E t \in Tickets : BecomeReady(t) \/ Expire(t) \/ Forgotten(t)
    \/ \E i \in DOMAIN seg : \E kind \in {"transient", "permanent"} : Refuse(i, kind)
    \/ \E i \in DOMAIN seg :
           \E outcome \in {"succeeded", "failed", "stopped", "expired"} : LoopEnds(i, outcome)
    \/ Cancel \/ Delete \/ Pause \/ Continue \/ LookFails
    \/ Restart

Spec == Init /\ [][Next]_vars

\* The processes go on; a poll that is tried again and again, through failed
\* requests and restarts, succeeds, and so does the take it makes.
FairSpec ==
    /\ Spec /\ WF_vars(Progress)
    /\ \A h \in Hosts :
           WF_vars(Sync(h)) /\ SF_vars(PollAnswered(h)) /\ SF_vars(PollApplies(h)) /\ SF_vars(Retake(h))

-----------------------------------------------------------------------------
\* A final state is never left, however late a result, an outcome or a restart
\* comes (the guard of markTerminal; cancelTask relies on it).
TerminalStays ==
    [][row.status \in Terminal => row'.status \in {row.status, "deleted"}]_vars

Running(i) == seg[i].loop = "running"

\* A task has at most one agent loop, through retries, restarts and new segments
\* (claim_running is the single-flight lock).
OneLoop == \A i, j \in DOMAIN seg : Running(i) /\ Running(j) => i = j

\* A task that is shown as running is: its loop runs, or its outcome is about to
\* be written back.
RunningIsReal ==
    row.status = "running" =>
        \E i \in DOMAIN seg : seg[i].loop \notin {"none", "closed"}

\* Cancelling stops the loop (cancelTask: first the row, then the loop), that of a
\* dispatch still under way once its result is there.
CancelledIsStopped ==
    row.status \in {"cancelled", "deleted"} /\ (\A i \in DOMAIN seg : ~Underway(i))
    => \A i \in DOMAIN seg : ~Running(i)

\* A task that is marked as schedulable has reached the head of the queue.
SchedulableIsReady ==
    row.status = "queued" /\ row.schedulable => server[row.ticket] # "waiting"

\* That several windows poll costs requests only: a ticket that the poll of one
\* has just taken is not ended by the poll of another (the comment at the start
\* of the sync cycle in desktop/src/host/index.ts).
Took(h) == retake[h] # None /\ retake[h].at = "taken"
RetakeHarmless ==
    [][\A g, h \in Hosts :
           Took(h) /\ ~Took(g) /\ Took(g)' /\ server[retake[h].ticket] \in Alive
           => server'[retake[h].ticket] \in Alive]_vars

\* A claim is given back, by the result of its dispatch or once it is stale.
ClaimEnds == row.claimed ~> ~row.claimed

\* The server is told of every task that has ended (the outbox).
Settles == row.status \in Terminal ~> row.settled \/ row.status = "deleted"

Stuck == row.status = "queued" /\ server[row.ticket] \notin Alive

\* A task that waits with a ticket that is no good gets another one taken for it
\* (retakeTicket leaves a take that failed to the next cycle).
TicketHeals == Stuck ~> ~Stuck \/ \E o \in Retakers : Took(o)
=============================================================================
