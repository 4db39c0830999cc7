---------------------------- MODULE AdmissionGate ----------------------------
(***************************************************************************)
(* What the process-wide governor of one provider key promises             *)
(* (bootstrap/src/app/workflow-concurrency-governor.ts, one Bucket), with  *)
(* the order among waiters left open: whenever the gate has room the drain *)
(* loop serves some set of waiters of the size the gate allows.            *)
(* ConcurrencyGovernor adds the queues and the rotation and implements it. *)
(*                                                                         *)
(* A client is one request slot of a workflow run (a subagent has one      *)
(* attempt in flight at a time); an observer is one of the main agent.     *)
(* JavaScript runs each handler to completion, so a handler is one action. *)
(***************************************************************************)
EXTENDS ConcurrencyController, FiniteSets

CONSTANTS
    Clients,    \* request slots of workflow runs
    Observers,  \* request slots of the main agent
    Abortable   \* the clients whose wait may be aborted

ASSUME GateAssumption ==
    /\ IsFiniteSet(Clients) /\ IsFiniteSet(Observers)
    /\ Clients \cap Observers = {}
    /\ Abortable \subseteq Clients

VARIABLES
    ctl,       \* bucket.controller
    waiting,   \* the clients in bucket.queues
    tickets,   \* unsettled tickets, by their holder
    current,   \* the tickets admitted under the present epoch
    issuedAt,  \* history: the cap each ticket was admitted under
    wake       \* ticks until the cooldown timer fires, None when none is set

vars == <<ctl, waiting, tickets, current, issuedAt, wake>>

Slots == Clients \cup Observers

TypeOK ==
    /\ ctl \in Controller
    /\ waiting \subseteq Clients
    /\ tickets \subseteq Slots
    /\ current \subseteq tickets
    /\ issuedAt \in [Slots -> 0..Ceiling]
    /\ wake \in Opt(Nat)

Init ==
    /\ ctl = NewController
    /\ waiting = {}
    /\ tickets = {}
    /\ current = {}
    /\ issuedAt = [c \in Slots |-> 0]
    /\ wake = None

-----------------------------------------------------------------------------

\* Mutant: the old timer is cancelled and none is set.
AlarmCancelled(d, W) == None

\* armCooldownWake: a timer for the end of the cooldown, while somebody waits.
Alarm(d, W) == IF W = {} THEN None ELSE d.cooldown

\* How many of n waiters the drain loop lets through.
Room(d, n) ==
    IF ~CanAdmit(d) THEN 0 ELSE IF n <= d.cap - d.inFlight THEN n ELSE d.cap - d.inFlight

Choices(d, W) == {G \in SUBSET W : Cardinality(G) = Room(Observe(d), Cardinality(W))}

\* The controller once g of n waiters have been granted and the rest fed to it.
Served(o, g, n) ==
    [o EXCEPT !.inFlight = @ + g, !.age = IF g = 0 THEN @ ELSE 0, !.waiters = n - g]

\* drain(bucket), from controller d with W waiting, T in flight and the tickets
\* F current; G are the waiters it grants.
Drain(d, W, T, F, G) ==
    LET o == Observe(d)
    IN  /\ ctl' = Served(o, Cardinality(G), Cardinality(W))
        /\ waiting' = W \ G
        /\ tickets' = T \cup G
        /\ current' = F \cup G
        /\ issuedAt' = [c \in Slots |-> IF c \in G THEN o.cap
                                        ELSE IF c \in T THEN issuedAt[c] ELSE 0]
        /\ wake' = Alarm(ctl', W \ G)

\* grant(bucket, run) outside the drain loop.
Grant(c) ==
    LET o == Observe(ctl)
    IN  /\ ctl' = Admitted(o)
        /\ tickets' = tickets \cup {c}
        /\ current' = current \cup {c}
        /\ issuedAt' = [issuedAt EXCEPT ![c] = o.cap]
        /\ UNCHANGED <<waiting, wake>>

IsIdle(c) == c \notin waiting \cup tickets

-----------------------------------------------------------------------------
\* tryAdmit, hit: the gate is open and nobody waits.
FastPath(c) ==
    /\ IsIdle(c)
    /\ waiting = {}
    /\ CanAdmit(Observe(ctl))
    /\ Grant(c)

\* tryAdmit, miss: nothing but the observation.  The caller reports that it is
\* queued, asynchronously, and only then calls admit.
FastPathMiss(c) ==
    /\ IsIdle(c)
    /\ waiting # {} \/ ~CanAdmit(Observe(ctl))
    /\ ctl' = Observe(ctl)
    /\ UNCHANGED <<waiting, tickets, current, issuedAt, wake>>

\* admit: enqueue, then drain.
Admit(c, G) == IsIdle(c) /\ Drain(ctl, waiting \cup {c}, tickets, current, G)

\* Mutant: the aborted waiter leaves the queue without telling the controller.
AbortSilently(c) ==
    /\ c \in waiting \cap Abortable
    /\ waiting' = waiting \ {c}
    /\ ctl' = Observe(ctl)
    /\ wake' = Alarm(ctl', waiting')
    /\ UNCHANGED <<tickets, current, issuedAt>>

\* waiter.onAbort: leave the queue, feed the count, re-arm; no drain.
Abort(c) ==
    /\ c \in waiting \cap Abortable
    /\ waiting' = waiting \ {c}
    /\ ctl' = Waiting(ctl, Cardinality(waiting'))
    /\ wake' = Alarm(ctl', waiting')
    /\ UNCHANGED <<tickets, current, issuedAt>>

\* The main agent is let through at once and still counted.
ObserverGrant(c) == c \notin tickets /\ Grant(c)

\* settle: the signal has turned the controller into d; F are still current.
Settle(c, d, F, G) == Drain(d, waiting, tickets \ {c}, F \ {c}, G)

\* A current ticket that is throttled turns the epoch: no ticket stays current.
AfterVerdict(c) == IF c \in current THEN {} ELSE current

WakeUp(G) == wake = 0 /\ Drain(ctl, waiting, tickets, current, G)

Tick ==
    /\ ctl' = Elapse(ctl)
    /\ wake' = CountDown(wake)
    /\ UNCHANGED <<waiting, tickets, current, issuedAt>>

Success(c) == Succeeded(ctl, c \in current)
Throttle(c, ra) == Throttled(ctl, c \in current, ra)

SettleSome(c) ==
    \/ \E G \in Choices(Success(c), waiting) : Settle(c, Success(c), current, G)
    \/ \E G \in Choices(Ended(ctl), waiting) : Settle(c, Ended(ctl), current, G)
    \/ \E G \in Choices(FailedTransient(ctl), waiting) :
          Settle(c, FailedTransient(ctl), current, G)
    \/ \E ra \in RetryAfters \cup {None} : \E G \in Choices(Throttle(c, ra), waiting) :
          Settle(c, Throttle(c, ra), AfterVerdict(c), G)

Next ==
    \/ \E c \in Clients : FastPath(c)
    \/ \E c \in Clients : FastPathMiss(c)
    \/ \E c \in Clients : \E G \in Choices(ctl, waiting \cup {c}) : Admit(c, G)
    \/ \E c \in Clients : Abort(c)
    \/ \E c \in Observers : ObserverGrant(c)
    \/ \E c \in tickets : SettleSome(c)
    \/ \E G \in Choices(ctl, waiting) : WakeUp(G)
    \/ Tick

Spec == Init /\ [][Next]_vars

-----------------------------------------------------------------------------
\* The counters the controller keeps are the tickets and the waiters there are:
\* every admission settles exactly once, whichever of the outcomes, the fallback
\* release or an abort ends it, and no client both waits and holds a ticket.
TicketAccounting ==
    /\ ctl.inFlight = Cardinality(tickets)
    /\ ctl.waiters = Cardinality(waiting)
    /\ waiting \cap tickets = {}

\* The level a failed probe falls back to is never above the cap and never more
\* than one step below it: a 429 costs a probe one step, not its history.
ProbeIsOneStep ==
    ctl.lastGood # None => ctl.cap \in {ctl.lastGood, ctl.lastGood + 1}

\* While a cooldown is known and somebody waits, the alarm is set for exactly
\* its end, however often throttles moved it (armCooldownWake).
AlarmAtCooldownEnd == waiting # {} /\ ctl.cooldown # None => wake = ctl.cooldown

\* A ticket that may still judge the cap was admitted under no more than it: the
\* cap only rises while an epoch lasts.
IssuedUnderCap == \A c \in current : issuedAt[c] \in 1..ctl.cap

\* A burst cuts once: when a settlement lowers the cap, it lowers it no further
\* than one cut of the cap its own request was admitted under, so the 429s of
\* one batch are one verdict (the epoch of concurrency.ts).
BurstCutsOnce ==
    [][ctl'.cap < ctl.cap =>
          \E c \in tickets \ tickets' : ctl'.cap >= Cut(issuedAt[c])]_vars

\* No workflow request is let through above the cap or before the cooldown the
\* controller knows has passed, though observers may already exceed the cap.
GateHolds ==
    [][(tickets' \ tickets) \cap Clients # {} =>
          ctl'.inFlight <= ctl'.cap /\ ctl'.cooldown \in {None, 0}]_vars

\* Waiters with nothing left to wake them: no ticket to settle, no alarm.
Stranded == waiting # {} /\ tickets = {} /\ wake = None

\* Only the abort of another waiter can leave waiters with nothing to wake them.
StrandedOnlyByAbort ==
    [][~Stranded /\ Stranded' => \E c \in Abortable : waiting' = waiting \ {c} /\ c \in waiting]_vars

\* "Wakes waiters when the cooldown ends" (governor header, lines 14-15): waiters
\* always have a ticket or an alarm that will drain the queue.
NoStrandedWaiter == ~Stranded
=============================================================================
