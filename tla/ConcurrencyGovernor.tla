------------------------- MODULE ConcurrencyGovernor -------------------------
(***************************************************************************)
(* One bucket of the process-wide workflow concurrency governor            *)
(* (bootstrap/src/app/workflow-concurrency-governor.ts): the waiters of    *)
(* each run in a FIFO queue, the runs served in rotation by the drain      *)
(* loop.  It implements AdmissionGate.  Buckets share nothing, so one      *)
(* bucket stands for each.                                                 *)
(***************************************************************************)
EXTENDS ConcurrencyController, FiniteSets, SequencesExt

CONSTANTS
    Clients, Observers, Abortable,  \* as in AdmissionGate
    Runs,                           \* workflow runs
    RunOf,                          \* the run of each client
    MainAgent                       \* OBSERVER_RUN_ID

ASSUME GovernorAssumption ==
    /\ IsFiniteSet(Clients) /\ IsFiniteSet(Observers)
    /\ Clients \cap Observers = {} /\ Abortable \subseteq Clients
    /\ RunOf \in [Clients -> Runs]
    /\ MainAgent \notin Runs \cup {None}

VARIABLES
    ctl, tickets, current, issuedAt, wake,  \* as in AdmissionGate
    queues,  \* bucket.queues: the waiters of each run, oldest first
    order,   \* its key order: the runs with waiters, by when they began to wait
    last     \* bucket.lastGrantedRun, None before the first grant

vars == <<ctl, tickets, current, issuedAt, wake, queues, order, last>>

Slots == Clients \cup Observers

WaitersIn(Q) == UNION {ToSet(Q[r]) : r \in Runs}
Waiters == WaitersIn(queues)
IsIdle(c) == c \notin Waiters \cup tickets

Init ==
    /\ ctl = NewController
    /\ tickets = {} /\ current = {}
    /\ issuedAt = [c \in Slots |-> 0]
    /\ wake = None
    /\ queues = [r \in Runs |-> <<>>]
    /\ order = <<>>
    /\ last = None

-----------------------------------------------------------------------------
Alarm(d, W) == IF W = {} THEN None ELSE d.cooldown

\* Mutant: the cursor stays on the run just served.
NextRunStays(ord, l) ==
    LET i == SelectInSeq(ord, LAMBDA r : r = l) IN ord[IF i = 0 THEN 1 ELSE i]

\* nextRunWithWaiters: the run after the last one served, the first when the
\* last one has no waiters (or is the main agent).
NextRun(ord, l) ==
    LET i == SelectInSeq(ord, LAMBDA r : r = l) IN ord[(i % Len(ord)) + 1]

\* Mutant: the newest waiter of the run is served first.
TakeNewest(Q, r) == [queues |-> [Q EXCEPT ![r] = Front(@)], waiter |-> Last(Q[r])]

TakeOldest(Q, r) == [queues |-> [Q EXCEPT ![r] = Tail(@)], waiter |-> Head(Q[r])]

\* One round of the drain loop.
Turn(s) ==
    IF ~CanAdmit(s.ctl) \/ s.order = <<>> THEN s
    ELSE LET r == NextRun(s.order, s.last)
             t == TakeOldest(s.queues, r)
         IN [ctl    |-> Admitted(Observe(s.ctl)),
             queues |-> t.queues,
             order  |-> IF t.queues[r] = <<>> THEN RemoveFirst(s.order, r) ELSE s.order,
             last   |-> r,
             served |-> s.served \cup {t.waiter}]

\* drain(bucket), from controller d with queues Q in key order ord: `After[i]'
\* holds the one state that i rounds of the loop lead to.
Drain(d, Q, ord, T, F) ==
    LET n == Cardinality(WaitersIn(Q))
        start == [ctl |-> Observe(d), queues |-> Q, order |-> ord, last |-> last, served |-> {}]
        After[i \in 0..n] == IF i = 0 THEN {start} ELSE {Turn(s) : s \in After[i - 1]}
    IN  \E s \in After[n] :
            LET left == WaitersIn(s.queues)
            IN  /\ ctl' = Waiting(s.ctl, Cardinality(left))
                /\ queues' = s.queues /\ order' = s.order /\ last' = s.last
                /\ tickets' = T \cup s.served
                /\ current' = F \cup s.served
                /\ issuedAt' = [c \in Slots |-> IF c \in s.served THEN s.ctl.cap
                                                ELSE IF c \in T THEN issuedAt[c] ELSE 0]
                /\ wake' = Alarm(ctl', left)

Grant(c, run) ==
    LET o == Observe(ctl)
    IN  /\ ctl' = Admitted(o)
        /\ tickets' = tickets \cup {c}
        /\ current' = current \cup {c}
        /\ issuedAt' = [issuedAt EXCEPT ![c] = o.cap]
        /\ last' = run
        /\ UNCHANGED <<queues, order, wake>>

-----------------------------------------------------------------------------
FastPath(c) ==
    /\ IsIdle(c) /\ order = <<>> /\ CanAdmit(Observe(ctl))
    /\ Grant(c, RunOf[c])

FastPathMiss(c) ==
    /\ IsIdle(c)
    /\ order # <<>> \/ ~CanAdmit(Observe(ctl))
    /\ ctl' = Observe(ctl)
    /\ UNCHANGED <<tickets, current, issuedAt, wake, queues, order, last>>

Admit(c) ==
    LET r == RunOf[c]
    IN  /\ IsIdle(c)
        /\ Drain(ctl, [queues EXCEPT ![r] = Append(@, c)],
                 IF queues[r] = <<>> THEN Append(order, r) ELSE order, tickets, current)

Abort(c) ==
    LET r == RunOf[c]
    IN  /\ c \in Waiters \cap Abortable
        /\ queues' = [queues EXCEPT ![r] = RemoveFirst(@, c)]
        /\ order' = IF queues'[r] = <<>> THEN RemoveFirst(order, r) ELSE order
        /\ ctl' = Waiting(ctl, Cardinality(WaitersIn(queues')))
        /\ wake' = Alarm(ctl', WaitersIn(queues'))
        /\ UNCHANGED <<tickets, current, issuedAt, last>>

ObserverGrant(c) == c \notin tickets /\ Grant(c, MainAgent)

Settle(c, d, F) == c \in tickets /\ Drain(d, queues, order, tickets \ {c}, F \ {c})

\* Mutant: a throttle leaves the tickets of its batch current.
AfterVerdictNone(c) == current

AfterVerdict(c) == IF c \in current THEN {} ELSE current

Succeed(c) == Settle(c, Succeeded(ctl, c \in current), current)
EndAttempt(c) == Settle(c, Ended(ctl), current)
FailAttempt(c) == Settle(c, FailedTransient(ctl), current)
Throttle(c, ra) == Settle(c, Throttled(ctl, c \in current, ra), AfterVerdict(c))

SettleSome(c) ==
    \/ Succeed(c)
    \/ EndAttempt(c)
    \/ FailAttempt(c)
    \/ \E ra \in RetryAfters \cup {None} : Throttle(c, ra)

WakeUp == wake = 0 /\ Drain(ctl, queues, order, tickets, current)

Tick ==
    /\ ctl' = Elapse(ctl)
    /\ wake' = CountDown(wake)
    /\ UNCHANGED <<tickets, current, issuedAt, queues, order, last>>

Next ==
    \/ \E c \in Clients : FastPath(c) \/ FastPathMiss(c) \/ Admit(c) \/ Abort(c)
    \/ \E c \in Observers : ObserverGrant(c)
    \/ \E c \in Slots : SettleSome(c)
    \/ WakeUp
    \/ Tick

\* The clock runs, due timers fire, and every request ends (the runner's
\* timeouts and its finally-release see to that).  Nobody is obliged to ask.
Fairness ==
    /\ WF_vars(Tick)
    /\ WF_vars(WakeUp)
    /\ \A c \in Slots : WF_vars(SettleSome(c))

Spec == Init /\ [][Next]_vars /\ Fairness

-----------------------------------------------------------------------------
\* Queue bookkeeping: every waiter is in the queue of its own run, once, and the
\* key order lists exactly the runs that have waiters.
TypeOK ==
    /\ ctl \in Controller
    /\ \A r \in Runs : IsInjective(queues[r]) /\ ToSet(queues[r]) \subseteq {c \in Clients : RunOf[c] = r}
    /\ IsInjective(order) /\ ToSet(order) = {r \in Runs : queues[r] # <<>>}
    /\ last \in Runs \cup {MainAgent, None}

\* The governor implements the gate: the drain loop serves exactly as many
\* waiters as the gate has room for, and feeds and arms what the gate does.
Gate == INSTANCE AdmissionGate WITH waiting <- Waiters
ImplementsGate == Gate!Spec

\* Within a run requests are served in the order in which they began to wait.
FifoWithinRun ==
    [][\A r \in Runs : \A i, j \in DOMAIN queues[r] :
          i < j /\ queues[r][j] \in tickets' => queues[r][i] \in tickets']_vars

\* Two grants in a row (no grant to the main agent between) go to one run only
\* when no other run waits: a large fan-out does not hold the cursor.
RunsAlternate ==
    [][\A c \in Waiters : tickets' \ tickets = {c} /\ last = RunOf[c]
          => \A r \in Runs \ {last} : queues[r] = <<>>]_vars

\* Without main-agent traffic every waiter leaves the queue, unless an abort
\* strands it (AdmissionGate!Stranded).
WaiterLeavesQueue ==
    [](tickets \cap Observers = {}) =>
        \A c \in Clients : (c \in Waiters) ~> (c \notin Waiters \/ Gate!Stranded)

\* "A large fan-out cannot starve a small run that comes later" (Bucket.queues,
\* governor line 97).
NoRunStarves == \A c \in Clients : (c \in Waiters) ~> (c \notin Waiters)
=============================================================================
