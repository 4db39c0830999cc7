------------------------- MODULE AdmissionGateProofs -------------------------
(***************************************************************************)
(* What the runs of AdmissionGate and of ConcurrencyGovernor check on a    *)
(* small bucket, for every number of request slots and of runs, every      *)
(* ceiling, streak length, idle window and set of Retry-After delays.      *)
(*                                                                         *)
(* The gate comes first: one inductive invariant, GateInv, carries all of  *)
(* it.  Then the governor: what one round of its drain loop does to the    *)
(* queues, by induction what all rounds do (DrainServes), and with the     *)
(* invariant GovInv that every handler is a step of the gate.              *)
(***************************************************************************)
EXTENDS AdmissionGate, FiniteSetTheorems, SequenceTheorems, TLAPS

CONSTANTS Runs, RunOf, MainAgent  \* as in ConcurrencyGovernor
VARIABLES queues, order, last     \* as in ConcurrencyGovernor

Gov == INSTANCE ConcurrencyGovernor


ProbeOK(d) == d.lastGood # None => d.cap \in {d.lastGood, d.lastGood + 1}

\* The invariant that is inductive: the accounting bounds what Room lets in, the
\* probe law and the issue law bound what a verdict can do to the cap.
GateInv ==
    /\ TypeOK
    /\ TicketAccounting
    /\ ProbeIsOneStep
    /\ AlarmAtCooldownEnd
    /\ IssuedUnderCap

-----------------------------------------------------------------------------
(* The controller's operators. *)

\* Cutting is monotone and a cut never goes below the floor or above its input.
LEMMA CutFacts ==
    ASSUME NEW m \in Nat \ {0}, NEW n \in Nat \ {0}, m <= n
    PROVE  /\ Cut(n) \in 1..n
           /\ Cut(m) <= Cut(n)
           /\ n > 1 => Cut(n) <= n - 1
  BY DEF Cut, Larger

\* An optional field holds None or a member of its set.
LEMMA OptFacts ==
    ASSUME NEW S
    PROVE  /\ None \in Opt(S)
           /\ \A x \in S : x \in Opt(S)
           /\ \A x \in Opt(S) : x # None => x \in S
  BY DEF Opt

\* The controller's optional fields may be None.
LEMMA NoneIsOptional ==
    None \in Opt(Nat) /\ None \in Opt(1..Ceiling) /\ None \in Opt(0..IdleWindow)
  BY OptFacts

\* An observation forgets what was learnt or changes nothing.
LEMMA ObserveFacts ==
    ASSUME NEW d \in Controller
    PROVE  LET o == Observe(d)
           IN  /\ o \in Controller
               /\ o.inFlight = d.inFlight /\ o.waiters = d.waiters /\ o.age = d.age
               /\ o.cap >= d.cap
               /\ o.cooldown \in {d.cooldown, None}
               /\ ProbeOK(d) => ProbeOK(o)
               /\ d.inFlight # 0 => o = d
  <1>1. CASE Idle(d)
    <2>1. Observe(d) = [d EXCEPT !.cap = Ceiling, !.streak = 0, !.cooldown = None,
                                 !.lastGood = None, !.hasBad = FALSE]
      BY <1>1 DEF Observe
    <2>2. Observe(d) \in Controller
      <3>1. None \in Opt(1..Ceiling) /\ None \in Opt(Nat)
        BY NoneIsOptional
      <3>2. Ceiling \in 1..Ceiling /\ 0 \in 0..IncreaseAfter
        BY ControllerAssumption
      <3>3. QED
        BY <2>1, <3>1, <3>2 DEF Controller
    <2>3. /\ Observe(d).inFlight = d.inFlight /\ Observe(d).waiters = d.waiters
          /\ Observe(d).age = d.age /\ Observe(d).cap = Ceiling
          /\ Observe(d).cooldown = None /\ Observe(d).lastGood = None
      BY <2>1 DEF Controller
    <2>4. d.cap <= Ceiling
      BY ControllerAssumption DEF Controller
    <2>5. ProbeOK(Observe(d))
      BY <2>3 DEF ProbeOK
    <2>6. QED
      BY <1>1, <2>2, <2>3, <2>4, <2>5 DEF Idle
  <1>2. CASE ~Idle(d)
    BY <1>2 DEF Observe, Controller
  <1>3. QED
    BY <1>1, <1>2

\* What every settlement does to the controller of a bucket with a ticket.
Settled(d, e) ==
    /\ e \in Controller
    /\ ProbeOK(e)
    /\ e.inFlight = d.inFlight - 1
    /\ e.waiters = d.waiters

\* A neutral end or a transient failure returns the ticket and leaves the cap.
LEMMA EndedFacts ==
    ASSUME NEW d \in Controller, d.inFlight # 0, ProbeOK(d)
    PROVE  /\ Settled(d, Ended(d)) /\ Ended(d).cap = d.cap
           /\ Settled(d, FailedTransient(d)) /\ FailedTransient(d).cap = d.cap
  <1>1. Ended(d) = [d EXCEPT !.inFlight = d.inFlight - 1]
    BY ObserveFacts DEF Ended, Larger, Controller
  <1>2. Settled(d, Ended(d)) /\ Ended(d).cap = d.cap
    BY <1>1 DEF Settled, Controller, ProbeOK
  <1>3. QED
    <2>1. FailedTransient(d) = [Ended(d) EXCEPT !.streak = 0]
      BY DEF FailedTransient
    <2>2. FailedTransient(d) \in Controller
      BY <1>2, <2>1, ControllerAssumption DEF Settled, Controller
    <2>3. QED
      BY <1>2, <2>1, <2>2 DEF Settled, Controller, ProbeOK

\* A success returns the ticket and never lowers the cap; a raise starts from a
\* cap just proven, so the probe law holds again.
LEMMA SucceededFacts ==
    ASSUME NEW d \in Controller, d.inFlight # 0, ProbeOK(d), NEW isCurrent \in BOOLEAN
    PROVE  /\ Settled(d, Succeeded(d, isCurrent))
           /\ Succeeded(d, isCurrent).cap >= d.cap
  <1> DEFINE e == Counted(Ended(d))
  <1>1. Settled(d, Ended(d)) /\ Ended(d).cap = d.cap
    BY EndedFacts
  <1>2. Settled(d, e) /\ e.cap = d.cap
    <2>1. e = [Ended(d) EXCEPT !.streak = IF Ended(d).streak < IncreaseAfter
                                          THEN Ended(d).streak + 1 ELSE Ended(d).streak]
      BY DEF Counted
    <2>2. e \in Controller
      BY <1>1, <2>1, ControllerAssumption, SMTT(30) DEF Settled, Controller
    <2>3. QED
      BY <1>1, <2>1, <2>2 DEF Settled, Controller, ProbeOK
  <1> HIDE DEF e
  <1>3. Settled(d, Proven(e)) /\ Proven(e).cap = d.cap /\ Proven(e).lastGood = e.cap
    <2>1. e.lastGood \in 1..Ceiling => e.lastGood <= e.cap
      BY <1>2, ControllerAssumption DEF Settled, ProbeOK, Controller
    <2>2. e.lastGood = None \/ e.lastGood \in 1..Ceiling
      BY <1>2, OptFacts DEF Settled, Controller
    <2>3. Proven(e).lastGood = e.cap
      BY <1>2, <2>1, <2>2 DEF Proven, Settled, Controller
    <2>4. Proven(e) = [e EXCEPT !.lastGood = e.cap]
      BY <1>2, <2>1, <2>2 DEF Proven, Settled, Controller
    <2>5. e.cap \in Opt(1..Ceiling)
      BY <1>2, OptFacts DEF Settled, Controller
    <2>6. Proven(e) \in Controller
      BY <1>2, <2>4, <2>5 DEF Settled, Controller
    <2>7. QED
      BY <1>2, <2>4, <2>6 DEF Settled, Controller, ProbeOK
  <1>4. ASSUME e.cap < Ceiling
        PROVE  Settled(d, Raised(Proven(e))) /\ Raised(Proven(e)).cap = d.cap + 1
    <2> DEFINE p == Proven(e)
    <2>1. p \in Controller /\ p.cap = d.cap /\ p.lastGood = d.cap /\ d.cap < Ceiling
      BY <1>2, <1>3, <1>4 DEF Settled
    <2>2. Raised(p) = [p EXCEPT !.cap = d.cap + 1, !.streak = 0]
      BY <2>1 DEF Raised
    <2>3. d.cap \in 1..Ceiling /\ d.cap + 1 \in 1..Ceiling
      BY <2>1, ControllerAssumption DEF Controller
    <2>4. Raised(p) \in Controller
      <3>1. 0 \in 0..IncreaseAfter
        BY ControllerAssumption
      <3> HIDE DEF p
      <3>2. QED
        BY <2>1, <2>2, <2>3, <3>1 DEF Controller
    <2>5. QED
      BY <1>3, <2>1, <2>2, <2>3, <2>4 DEF Settled, Controller, ProbeOK
  <1>5. d.cap \in Nat
    BY ControllerAssumption DEF Controller
  <1>6. e.cap >= Ceiling \/ e.cap < Ceiling
    BY <1>2, ControllerAssumption DEF Settled, Controller
  <1>7. Succeeded(d, isCurrent) \in {Ended(d), e, Proven(e), Raised(Proven(e))}
        /\ (Succeeded(d, isCurrent) = Raised(Proven(e)) => e.cap < Ceiling
            \/ Succeeded(d, isCurrent) \in {Ended(d), e, Proven(e)})
    BY <1>6 DEF Succeeded, e
  <1>8. QED
    BY <1>1, <1>2, <1>3, <1>4, <1>5, <1>7

\* A throttle returns the ticket and lowers the cap by at most one cut, and not
\* at all when its ticket belongs to an earlier epoch.
LEMMA ThrottledFacts ==
    ASSUME NEW d \in Controller, d.inFlight # 0, ProbeOK(d),
           NEW isCurrent \in BOOLEAN, NEW retryAfter \in RetryAfters \cup {None}
    PROVE  /\ Settled(d, Throttled(d, isCurrent, retryAfter))
           /\ Throttled(d, isCurrent, retryAfter).cap >= Cut(d.cap)
           /\ ~isCurrent => Throttled(d, isCurrent, retryAfter).cap = d.cap
  <1> DEFINE e == Cooled(d, retryAfter)
  <1>1. Settled(d, e) /\ e.cap = d.cap
    <2> DEFINE f == FailedTransient(d)
    <2>1. Settled(d, f) /\ f.cap = d.cap
      BY EndedFacts
    <2>2. CASE retryAfter = None
      BY <2>1, <2>2 DEF Cooled
    <2>3. CASE retryAfter # None
      <3> DEFINE until == IF f.cooldown = None THEN retryAfter ELSE Larger(f.cooldown, retryAfter)
      <3>1. e = [f EXCEPT !.cooldown = until]
        BY <2>3 DEF Cooled
      <3>2. retryAfter \in Nat
        BY <2>3, ControllerAssumption
      <3>3. f.cooldown = None \/ f.cooldown \in Nat
        BY <2>1, OptFacts DEF Settled, Controller
      <3>4. until \in Nat
        BY <3>2, <3>3 DEF Larger
      <3>5. until \in Opt(Nat)
        BY <3>4, OptFacts
      <3> HIDE DEF until, f
      <3>6. e \in Controller
        BY <2>1, <3>1, <3>5 DEF Settled, Controller
      <3>7. QED
        BY <2>1, <3>1, <3>6 DEF Settled, Controller, ProbeOK
    <2>4. QED
      BY <2>2, <2>3
  <1> HIDE DEF e
  <1>2. d.cap \in 1..Ceiling /\ Cut(d.cap) \in 1..d.cap /\ (d.cap > 1 => Cut(d.cap) <= d.cap - 1)
    BY CutFacts, ControllerAssumption, SMTT(30) DEF Controller
  <1>3. CASE isCurrent /\ e.lastGood # None /\ e.cap > e.lastGood
    <2>1. e.lastGood \in 1..Ceiling /\ e.cap = e.lastGood + 1
      BY <1>1, <1>3, OptFacts, ControllerAssumption DEF Settled, ProbeOK, Controller
    <2>2. Throttled(d, isCurrent, retryAfter) = [e EXCEPT !.cap = e.lastGood, !.hasBad = TRUE]
      BY <1>3 DEF Throttled, Judged, e
    <2>3. [e EXCEPT !.cap = e.lastGood, !.hasBad = TRUE] \in Controller
      BY <1>1, <2>1 DEF Settled, Controller
    <2>4. e.lastGood >= Cut(d.cap)
      BY <1>1, <1>2, <2>1, ControllerAssumption
    <2>5. QED
      BY <1>1, <1>3, <2>1, <2>2, <2>3, <2>4 DEF Settled, Controller, ProbeOK
  <1>4. CASE isCurrent /\ ~(e.lastGood # None /\ e.cap > e.lastGood)
    <2>1. Throttled(d, isCurrent, retryAfter)
            = [e EXCEPT !.cap = Cut(d.cap), !.lastGood = None, !.hasBad = TRUE]
      BY <1>1, <1>4 DEF Throttled, Judged, e
    <2>2. Cut(d.cap) \in 1..Ceiling
      BY <1>2, ControllerAssumption
    <2>3. [e EXCEPT !.cap = Cut(d.cap), !.lastGood = None, !.hasBad = TRUE] \in Controller
      <3>1. None \in Opt(1..Ceiling)
        BY NoneIsOptional
      <3>2. QED
        BY <1>1, <2>2, <3>1 DEF Settled, Controller
    <2>4. QED
      <3> DEFINE r == [e EXCEPT !.cap = Cut(d.cap), !.lastGood = None, !.hasBad = TRUE]
      <3>1. /\ r.cap = Cut(d.cap) /\ r.lastGood = None
            /\ r.inFlight = e.inFlight /\ r.waiters = e.waiters
        BY <1>1 DEF Settled, Controller
      <3> HIDE DEF r
      <3>2. Cut(d.cap) >= Cut(d.cap)
        BY <1>2
      <3>3. QED
        BY <1>1, <1>4, <2>1, <2>3, <3>1, <3>2 DEF Settled, ProbeOK, r
  <1>5. CASE ~isCurrent
    <2>1. Throttled(d, isCurrent, retryAfter) = e
      BY <1>5 DEF Throttled, e
    <2>2. QED
      BY <1>1, <1>2, <1>5, <2>1, ControllerAssumption
  <1>6. QED
    BY <1>3, <1>4, <1>5

-----------------------------------------------------------------------------
(* The drain loop. *)

\* The slots are finitely many, so tickets and waiters can be counted.
LEMMA SlotsFinite ==
    ASSUME NEW S \in SUBSET Slots
    PROVE  IsFiniteSet(S) /\ Cardinality(S) \in Nat
  BY FS_Subset, FS_Union, FS_CardinalityType, GateAssumption DEF Slots

\* Granting disjoint G out of W moves Cardinality(G) from one count to the other.
LEMMA GrantedCounts ==
    ASSUME NEW W \in SUBSET Clients, NEW T \in SUBSET Slots, W \cap T = {},
           NEW G \in SUBSET W
    PROVE  /\ Cardinality(T \cup G) = Cardinality(T) + Cardinality(G)
           /\ Cardinality(W \ G) = Cardinality(W) - Cardinality(G)
           /\ Cardinality(G) \in Nat /\ Cardinality(W) \in Nat /\ Cardinality(T) \in Nat
           /\ Cardinality(G) = 0 <=> G = {}
           /\ Cardinality(W) = 0 <=> W = {}
  <1>1. W \in SUBSET Slots /\ G \in SUBSET Slots
    BY DEF Slots
  <1>2. /\ IsFiniteSet(W) /\ IsFiniteSet(T) /\ IsFiniteSet(G) /\ IsFiniteSet(W \ G)
        /\ Cardinality(W) \in Nat /\ Cardinality(T) \in Nat /\ Cardinality(G) \in Nat
        /\ Cardinality(W \ G) \in Nat
    BY <1>1, SlotsFinite
  <1>3. Cardinality(T \cup G) = Cardinality(T) + Cardinality(G)
    <2>1. T \cap G = {}
      OBVIOUS
    <2>2. Cardinality(T \cup G) = Cardinality(T) + Cardinality(G) - Cardinality(T \cap G)
      BY <1>2, FS_Union
    <2>3. Cardinality(T \cap G) = 0
      BY <2>1, FS_EmptySet
    <2>4. QED
      BY <1>2, <2>2, <2>3
  <1>4. Cardinality(W \ G) = Cardinality(W) - Cardinality(G)
    <2>1. (W \ G) \cap G = {} /\ (W \ G) \cup G = W
      OBVIOUS
    <2>2. Cardinality(W) = Cardinality(W \ G) + Cardinality(G) - Cardinality({})
      BY <1>2, <2>1, FS_Union
    <2>3. QED
      BY <1>2, <2>2, FS_EmptySet
  <1>5. QED
    BY <1>2, <1>3, <1>4, FS_EmptySet

\* The number the loop lets in leaves the gate respected, and is not zero when
\* the gate is open and somebody waits.
LEMMA RoomFacts ==
    ASSUME NEW o \in Controller, NEW n \in Nat
    PROVE  /\ Room(o, n) \in 0..n
           /\ Room(o, n) # 0 => CanAdmit(o) /\ o.inFlight + Room(o, n) <= o.cap
           /\ CanAdmit(o) /\ n # 0 => Room(o, n) # 0
  BY ControllerAssumption DEF Room, CanAdmit, Controller

\* A drain restores the whole invariant from what its caller establishes, lets
\* workflow requests in only under the gate, and leaves nobody stranded.
LEMMA DrainFacts ==
    ASSUME issuedAt \in [Slots -> 0..Ceiling],
           NEW d \in Controller, ProbeOK(d),
           NEW W \in SUBSET Clients, NEW T \in SUBSET Slots, NEW F \in SUBSET T,
           W \cap T = {}, d.inFlight = Cardinality(T),
           \A c \in F : issuedAt[c] \in 1..d.cap,
           NEW G \in Choices(d, W), Drain(d, W, T, F, G)
    PROVE  /\ GateInv'
           /\ ctl'.cap >= d.cap
           /\ G # {} => ctl'.inFlight <= ctl'.cap /\ ctl'.cooldown \in {None, 0}
           /\ ~Stranded'
  <1> DEFINE o == Observe(d)
             g == Cardinality(G)
             n == Cardinality(W)
  <1>1. /\ o \in Controller /\ o.inFlight = d.inFlight /\ o.cap >= d.cap /\ ProbeOK(o)
    BY ObserveFacts
  <1>2. G \in SUBSET W /\ g = Room(o, n)
    BY DEF Choices
  <1>3. /\ Cardinality(T \cup G) = Cardinality(T) + g
        /\ Cardinality(W \ G) = n - g
        /\ g \in Nat /\ n \in Nat /\ Cardinality(T) \in Nat
        /\ g = 0 <=> G = {}
        /\ n = 0 <=> W = {}
    <2>1. G \in SUBSET W
      BY <1>2
    <2>2. QED
      BY <2>1, GrantedCounts
  <1>4. /\ g \in 0..n
        /\ g # 0 => CanAdmit(o) /\ o.inFlight + g <= o.cap
        /\ CanAdmit(o) /\ n # 0 => g # 0
    BY <1>1, <1>2, <1>3, RoomFacts
  <1>5. /\ waiting' = W \ G /\ tickets' = T \cup G /\ current' = F \cup G
        /\ issuedAt' = [c \in Slots |-> IF c \in G THEN o.cap
                                        ELSE IF c \in T THEN issuedAt[c] ELSE 0]
        /\ wake' = IF W \ G = {} THEN None ELSE ctl'.cooldown
        /\ ctl' = [o EXCEPT !.inFlight = @ + g, !.age = IF g = 0 THEN @ ELSE 0, !.waiters = n - g]
    BY DEF Drain, Served, Alarm
  <1> HIDE DEF g, n, o
  <1>6. /\ ctl'.inFlight = o.inFlight + g /\ ctl'.waiters = n - g
        /\ ctl'.cap = o.cap /\ ctl'.lastGood = o.lastGood /\ ctl'.cooldown = o.cooldown
    BY <1>1, <1>5 DEF Controller
  <1>7. ctl' \in Controller
    <2>1. o.inFlight + g \in Nat /\ n - g \in Nat
      BY <1>1, <1>3, <1>4 DEF Controller
    <2>2. (IF g = 0 THEN o.age ELSE 0) \in Opt(0..IdleWindow)
      BY <1>1, ControllerAssumption, OptFacts DEF Controller
    <2>3. QED
      BY <1>1, <1>5, <2>1, <2>2 DEF Controller
  <1>8. TypeOK'
    <2>1. issuedAt' \in [Slots -> 0..Ceiling]
      <3>1. o.cap \in 0..Ceiling /\ 0 \in 0..Ceiling
        BY <1>1, ControllerAssumption DEF Controller
      <3>2. QED
        BY <1>5, <3>1
    <2>2. wake' \in Opt(Nat)
      BY <1>5, <1>7, OptFacts DEF Controller
    <2>3. waiting' \subseteq Clients /\ tickets' \subseteq Slots /\ current' \subseteq tickets'
      BY <1>2, <1>5 DEF Slots
    <2>4. QED
      BY <1>7, <2>1, <2>2, <2>3 DEF TypeOK
  <1>9. TicketAccounting'
    <2>1. waiting' \cap tickets' = {}
      BY <1>2, <1>5
    <2>2. ctl'.inFlight = Cardinality(tickets')
      BY <1>1, <1>3, <1>5, <1>6
    <2>3. ctl'.waiters = Cardinality(waiting')
      BY <1>3, <1>5, <1>6
    <2>4. QED
      BY <2>1, <2>2, <2>3 DEF TicketAccounting
  <1>10. ProbeIsOneStep'
    BY <1>1, <1>6 DEF ProbeIsOneStep, ProbeOK
  <1>11. AlarmAtCooldownEnd'
    BY <1>5 DEF AlarmAtCooldownEnd
  <1>12. IssuedUnderCap'
    <2>1. o.cap \in 1..o.cap /\ d.cap \in Nat /\ o.cap \in Nat
      BY <1>1, ControllerAssumption DEF Controller
    <2>2. SUFFICES ASSUME NEW c \in F \cup G PROVE issuedAt'[c] \in 1..o.cap
      BY <1>5, <1>6 DEF IssuedUnderCap
    <2>3. c \in Slots
      BY <1>2 DEF Slots
    <2>4. CASE c \in G
      BY <1>5, <2>1, <2>3, <2>4
    <2>5. CASE c \in F /\ c \notin G
      <3>1. issuedAt'[c] = issuedAt[c] /\ issuedAt[c] \in 1..d.cap
        BY <1>5, <2>3, <2>5
      <3>2. QED
        BY <1>1, <2>1, <3>1
    <2>6. QED
      BY <2>4, <2>5
  <1>13. ctl'.cap >= d.cap
    BY <1>1, <1>6
  <1>14. G # {} => ctl'.inFlight <= ctl'.cap /\ ctl'.cooldown \in {None, 0}
    BY <1>3, <1>4, <1>6 DEF CanAdmit
  <1>15. ~Stranded'
    <2>1. SUFFICES ASSUME W \ G # {}, T \cup G = {}, wake' = None PROVE FALSE
      BY <1>5 DEF Stranded
    <2>2. G = {} /\ T = {} /\ W # {} /\ g = 0 /\ n # 0 /\ o.cooldown = None
      BY <1>3, <1>5, <1>6, <2>1
    <2>3. o.inFlight = 0
      BY <1>1, <2>2, FS_EmptySet
    <2>4. CanAdmit(o)
      BY <1>1, <2>2, <2>3, ControllerAssumption DEF CanAdmit, Controller
    <2>5. QED
      BY <1>4, <2>2, <2>4
  <1>16. QED
    BY <1>8, <1>9, <1>10, <1>11, <1>12, <1>13, <1>14, <1>15 DEF GateInv

-----------------------------------------------------------------------------
(* The actions.  Each keeps the invariant and obeys the three step laws. *)

BurstLaw ==
    ctl'.cap < ctl.cap => \E c \in tickets \ tickets' : ctl'.cap >= Cut(issuedAt[c])

GateLaw ==
    (tickets' \ tickets) \cap Clients # {} =>
        ctl'.inFlight <= ctl'.cap /\ ctl'.cooldown \in {None, 0}

StrandLaw ==
    ~Stranded /\ Stranded' => \E c \in Abortable : waiting' = waiting \ {c} /\ c \in waiting

StepLaws == GateInv' /\ BurstLaw /\ GateLaw /\ StrandLaw

\* The gate's state, in the form the lemmas on operators ask for it.
LEMMA InvFacts ==
    ASSUME GateInv
    PROVE  /\ ctl \in Controller /\ ProbeOK(ctl)
           /\ ctl.cap \in Nat \ {0} /\ ctl.inFlight \in Nat
           /\ waiting \in SUBSET Clients /\ tickets \in SUBSET Slots
           /\ current \in SUBSET tickets /\ waiting \cap tickets = {}
           /\ ctl.inFlight = Cardinality(tickets)
           /\ issuedAt \in [Slots -> 0..Ceiling]
           /\ \A c \in current : issuedAt[c] \in 1..ctl.cap
           /\ \A c \in tickets : ctl.inFlight # 0
  <1>1. /\ ctl \in Controller /\ tickets \in SUBSET Slots
        /\ ctl.inFlight = Cardinality(tickets)
    BY DEF GateInv, TypeOK, TicketAccounting
  <1>2. \A c \in tickets : ctl.inFlight # 0
    BY <1>1, SlotsFinite, FS_EmptySet
  <1>3. ctl.cap \in Nat \ {0} /\ ctl.inFlight \in Nat
    BY <1>1, ControllerAssumption DEF Controller
  <1>4. QED
    BY <1>1, <1>2, <1>3
       DEF GateInv, TypeOK, TicketAccounting, ProbeIsOneStep, ProbeOK, IssuedUnderCap

\* An admission outside the drain loop; only an observer may overrun the gate.
LEMMA GrantKeeps ==
    ASSUME GateInv, NEW c \in Slots, c \notin tickets, c \notin waiting, Grant(c)
    PROVE  /\ GateInv' /\ BurstLaw /\ StrandLaw
           /\ CanAdmit(Observe(ctl)) => GateLaw
  <1> DEFINE o == Observe(ctl)
  <1>1. /\ o \in Controller /\ o.inFlight = ctl.inFlight /\ o.waiters = ctl.waiters
        /\ o.cap >= ctl.cap /\ o.cooldown \in {ctl.cooldown, None} /\ ProbeOK(o)
    BY InvFacts, ObserveFacts
  <1>2. /\ ctl' = [o EXCEPT !.age = 0, !.inFlight = @ + 1]
        /\ tickets' = tickets \cup {c} /\ current' = current \cup {c}
        /\ issuedAt' = [issuedAt EXCEPT ![c] = o.cap]
        /\ waiting' = waiting /\ wake' = wake
    BY DEF Grant, Admitted
  <1> HIDE DEF o
  <1>3. /\ ctl'.inFlight = o.inFlight + 1 /\ ctl'.waiters = o.waiters
        /\ ctl'.cap = o.cap /\ ctl'.lastGood = o.lastGood /\ ctl'.cooldown = o.cooldown
    BY <1>1, <1>2 DEF Controller
  <1>4. o.cap \in 1..Ceiling /\ o.cap \in Nat \ {0} /\ o.inFlight \in Nat
    BY <1>1, ControllerAssumption DEF Controller
  <1>5. ctl' \in Controller
    <2>1. 0 \in 0..IdleWindow
      BY ControllerAssumption
    <2>2. 0 \in Opt(0..IdleWindow) /\ o.inFlight + 1 \in Nat
      BY <1>4, <2>1 DEF Opt
    <2>3. ctl' = [o EXCEPT !.age = 0, !.inFlight = o.inFlight + 1]
      BY <1>2
    <2>4. o \in Controller
      BY <1>1
    <2>5. QED
      BY <2>2, <2>3, <2>4 DEF Controller
  <1>6. TypeOK'
    <2>1. issuedAt' \in [Slots -> 0..Ceiling]
      BY <1>2, <1>4, InvFacts
    <2>2. QED
      BY <1>2, <1>5, <2>1 DEF TypeOK, GateInv
  <1>7. TicketAccounting'
    <2>1. IsFiniteSet(tickets)
      BY InvFacts, SlotsFinite
    <2>2. Cardinality(tickets \cup {c}) = Cardinality(tickets) + 1
      BY <2>1, FS_AddElement
    <2>3. QED
      BY <1>1, <1>2, <1>3, <2>2 DEF TicketAccounting, GateInv
  <1>8. ProbeIsOneStep'
    BY <1>1, <1>3 DEF ProbeIsOneStep, ProbeOK
  <1>9. AlarmAtCooldownEnd'
    BY <1>1, <1>2, <1>3 DEF AlarmAtCooldownEnd, GateInv
  <1>10. IssuedUnderCap'
    <2>1. SUFFICES ASSUME NEW x \in current \cup {c} PROVE issuedAt'[x] \in 1..o.cap
      BY <1>2, <1>3 DEF IssuedUnderCap
    <2>2. CASE x = c
      BY <1>2, <1>4, <2>2, InvFacts
    <2>3. CASE x \in current /\ x # c
      <3>1. issuedAt'[x] = issuedAt[x] /\ issuedAt[x] \in 1..ctl.cap
        BY <1>2, <2>3, InvFacts
      <3>2. QED
        BY <1>1, <1>4, <3>1, InvFacts
    <2>4. QED
      BY <2>2, <2>3
  <1>11. BurstLaw
    BY <1>1, <1>3, <1>4, InvFacts DEF BurstLaw
  <1>12. StrandLaw
    BY <1>2 DEF StrandLaw, Stranded
  <1>13. CanAdmit(o) => GateLaw
    BY <1>3, <1>4 DEF CanAdmit, GateLaw
  <1>14. QED
    BY <1>6, <1>7, <1>8, <1>9, <1>10, <1>11, <1>12, <1>13 DEF GateInv, o

\* A drain that starts from the controller as it stands.
LEMMA DrainKeeps ==
    ASSUME GateInv, NEW W \in SUBSET Clients, W \cap tickets = {},
           NEW G \in Choices(ctl, W), Drain(ctl, W, tickets, current, G)
    PROVE  StepLaws
  <1>1. /\ GateInv' /\ ctl'.cap >= ctl.cap /\ ~Stranded'
        /\ G # {} => ctl'.inFlight <= ctl'.cap /\ ctl'.cooldown \in {None, 0}
    BY InvFacts, DrainFacts
  <1>2. tickets' = tickets \cup G
    BY DEF Drain
  <1>3. BurstLaw
    BY <1>1, InvFacts DEF BurstLaw, GateInv, TypeOK, Controller
  <1>4. GateLaw
    BY <1>1, <1>2 DEF GateLaw
  <1>5. QED
    BY <1>1, <1>3, <1>4 DEF StepLaws, StrandLaw

\* A settlement either leaves the cap uncut, or is a verdict that keeps no ticket
\* current and cuts no further than one cut of the cap its ticket knew.
Justified(c, d, F) ==
    \/ d.cap >= ctl.cap
    \/ F = {} /\ d.cap >= Cut(issuedAt[c])

\* A settlement of c that leaves controller d and the current tickets F.
LEMMA SettleKeeps ==
    ASSUME GateInv, NEW c \in tickets, NEW d, Settled(ctl, d), NEW F \in SUBSET current,
           Justified(c, d, F),
           NEW G \in Choices(d, waiting), Settle(c, d, F, G)
    PROVE  StepLaws
  <1>1. /\ d \in Controller /\ ProbeOK(d) /\ d.inFlight = ctl.inFlight - 1
        /\ d.cap \in Nat
    BY ControllerAssumption DEF Settled, Controller
  <1>2. Drain(d, waiting, tickets \ {c}, F \ {c}, G)
    BY DEF Settle
  <1>3. d.inFlight = Cardinality(tickets \ {c})
    BY <1>1, InvFacts, SlotsFinite, FS_RemoveElement
  <1>4. \A x \in F \ {c} : issuedAt[x] \in 1..d.cap
    BY <1>1, InvFacts DEF Justified
  <1>5. /\ waiting \in SUBSET Clients /\ tickets \ {c} \in SUBSET Slots
        /\ F \ {c} \in SUBSET (tickets \ {c}) /\ waiting \cap (tickets \ {c}) = {}
        /\ issuedAt \in [Slots -> 0..Ceiling]
    BY InvFacts
  <1>6. /\ GateInv' /\ ctl'.cap >= d.cap /\ ~Stranded'
        /\ G # {} => ctl'.inFlight <= ctl'.cap /\ ctl'.cooldown \in {None, 0}
    BY <1>1, <1>2, <1>3, <1>4, <1>5, DrainFacts
  <1>7. G \subseteq waiting /\ tickets' = (tickets \ {c}) \cup G
    BY <1>2 DEF Drain, Choices
  <1>8. BurstLaw
    <2>1. ctl'.cap \in Nat /\ ctl.cap \in Nat
      BY <1>6, InvFacts, ControllerAssumption DEF GateInv, TypeOK, Controller
    <2>2. SUFFICES ASSUME ctl'.cap < ctl.cap
                   PROVE  c \in tickets \ tickets' /\ ctl'.cap >= Cut(issuedAt[c])
      BY DEF BurstLaw
    <2>3. c \in tickets \ tickets'
      BY <1>7, InvFacts
    <2>4. d.cap >= Cut(issuedAt[c])
      BY <1>1, <1>6, <2>1, <2>2 DEF Justified
    <2>5. issuedAt[c] \in Nat
      BY InvFacts
    <2>6. Cut(issuedAt[c]) \in Int
      BY <2>5 DEF Cut, Larger
    <2>7. QED
      BY <1>1, <1>6, <2>1, <2>3, <2>4, <2>6
  <1>9. GateLaw
    BY <1>6, <1>7 DEF GateLaw
  <1>10. QED
    BY <1>6, <1>8, <1>9 DEF StepLaws, StrandLaw

\* Only the controller is observed: nothing that counts has moved.
LEMMA MissKeeps ==
    ASSUME GateInv, ctl' = Observe(ctl), UNCHANGED <<waiting, tickets, current, issuedAt, wake>>
    PROVE  StepLaws
  <1>1. /\ ctl' \in Controller /\ ctl'.inFlight = ctl.inFlight /\ ctl'.waiters = ctl.waiters
        /\ ctl'.cap >= ctl.cap /\ ctl'.cooldown \in {ctl.cooldown, None} /\ ProbeOK(ctl')
    BY InvFacts, ObserveFacts
  <1>2. ctl'.cap \in Nat
    BY <1>1, ControllerAssumption DEF Controller
  <1>3. \A c \in current' : issuedAt'[c] \in 1..ctl'.cap
    BY <1>1, <1>2, InvFacts
  <1>4. GateInv'
    BY <1>1, <1>3 DEF GateInv, TypeOK, TicketAccounting, ProbeIsOneStep, ProbeOK,
                      AlarmAtCooldownEnd, IssuedUnderCap
  <1>5. BurstLaw /\ GateLaw /\ StrandLaw
    BY <1>1, <1>2, InvFacts DEF BurstLaw, GateLaw, StrandLaw, Stranded
  <1>6. QED
    BY <1>4, <1>5 DEF StepLaws

\* An aborted wait: the one step allowed to strand somebody.
LEMMA AbortKeeps ==
    ASSUME GateInv, NEW c, Abort(c)
    PROVE  StepLaws
  <1> DEFINE o == Observe(ctl)
  <1>1. /\ o \in Controller /\ o.inFlight = ctl.inFlight
        /\ o.cap >= ctl.cap /\ ProbeOK(o)
    BY InvFacts, ObserveFacts
  <1>2. /\ c \in waiting /\ c \in Abortable /\ waiting' = waiting \ {c}
        /\ ctl' = [o EXCEPT !.waiters = Cardinality(waiting')]
        /\ wake' = IF waiting' = {} THEN None ELSE ctl'.cooldown
        /\ tickets' = tickets /\ current' = current /\ issuedAt' = issuedAt
    BY DEF Abort, Waiting, Alarm
  <1> HIDE DEF o
  <1>3. Cardinality(waiting') \in Nat
    BY <1>2, InvFacts, SlotsFinite DEF Slots
  <1>4. /\ ctl'.inFlight = ctl.inFlight /\ ctl'.waiters = Cardinality(waiting')
        /\ ctl'.cap = o.cap /\ ctl'.lastGood = o.lastGood
    BY <1>1, <1>2 DEF Controller
  <1>5. ctl' \in Controller
    BY <1>1, <1>2, <1>3 DEF Controller
  <1>6. wake' \in Opt(Nat)
    BY <1>2, <1>5, OptFacts DEF Controller
  <1>7. o.cap \in Nat /\ ctl.cap \in Nat
    BY <1>1, InvFacts, ControllerAssumption DEF Controller
  <1>8. \A x \in current' : issuedAt'[x] \in 1..ctl'.cap
    BY <1>1, <1>2, <1>4, <1>7, InvFacts
  <1>9. ProbeIsOneStep'
    BY <1>1, <1>4 DEF ProbeIsOneStep, ProbeOK
  <1>10. TypeOK' /\ TicketAccounting'
    BY <1>2, <1>4, <1>5, <1>6 DEF GateInv, TypeOK, TicketAccounting
  <1>11. GateInv'
    BY <1>2, <1>8, <1>9, <1>10 DEF GateInv, AlarmAtCooldownEnd, IssuedUnderCap
  <1>12. BurstLaw /\ GateLaw /\ StrandLaw
    BY <1>1, <1>2, <1>4, <1>7 DEF BurstLaw, GateLaw, StrandLaw
  <1>13. QED
    BY <1>11, <1>12 DEF StepLaws

\* A tick moves the cooldown and the alarm alike.
LEMMA TickKeeps ==
    ASSUME GateInv, Tick
    PROVE  StepLaws
  <1>1. /\ ctl' = [ctl EXCEPT !.age = IF @ = None THEN None ELSE IF @ < IdleWindow THEN @ + 1 ELSE @,
                              !.cooldown = CountDown(@)]
        /\ wake' = CountDown(wake)
        /\ UNCHANGED <<waiting, tickets, current, issuedAt>>
    BY DEF Tick, Elapse
  <1>2. ctl \in Controller /\ wake \in Opt(Nat)
    BY DEF GateInv, TypeOK
  <1>3. /\ ctl'.inFlight = ctl.inFlight /\ ctl'.waiters = ctl.waiters /\ ctl'.cap = ctl.cap
        /\ ctl'.lastGood = ctl.lastGood /\ ctl'.cooldown = CountDown(ctl.cooldown)
    BY <1>1, <1>2 DEF Controller
  <1>4. \A n \in Opt(Nat) : CountDown(n) \in Opt(Nat) /\ (CountDown(n) = None <=> n = None)
    BY ControllerAssumption DEF CountDown, Larger, Opt
  <1>5. ctl' \in Controller
    <2> DEFINE older == IF ctl.age = None THEN None
                        ELSE IF ctl.age < IdleWindow THEN ctl.age + 1 ELSE ctl.age
    <2>1. ctl.age \in Opt(0..IdleWindow) /\ ctl.cooldown \in Opt(Nat)
      BY <1>2 DEF Controller
    <2>2. older \in Opt(0..IdleWindow)
      BY <2>1, ControllerAssumption DEF Opt
    <2>3. CountDown(ctl.cooldown) \in Opt(Nat)
      BY <1>4, <2>1
    <2>4. ctl' = [ctl EXCEPT !.age = older, !.cooldown = CountDown(ctl.cooldown)]
      BY <1>1
    <2> HIDE DEF older
    <2>5. QED
      BY <1>2, <2>2, <2>3, <2>4 DEF Controller
  <1>6. wake' \in Opt(Nat)
    BY <1>1, <1>2, <1>4
  <1>7. AlarmAtCooldownEnd'
    BY <1>1, <1>2, <1>3, <1>4 DEF GateInv, AlarmAtCooldownEnd, Controller
  <1>8. GateInv'
    BY <1>1, <1>3, <1>5, <1>6, <1>7
       DEF GateInv, TypeOK, TicketAccounting, ProbeIsOneStep, IssuedUnderCap
  <1>9. StrandLaw
    BY <1>1, <1>2, <1>4 DEF StrandLaw, Stranded
  <1>10. BurstLaw /\ GateLaw
    BY <1>1, <1>3, InvFacts DEF BurstLaw, GateLaw
  <1>11. QED
    BY <1>8, <1>9, <1>10 DEF StepLaws

\* The four ways a ticket is settled.
LEMMA SettleSomeKeeps ==
    ASSUME GateInv, NEW c \in tickets, SettleSome(c)
    PROVE  StepLaws
  <1>1. ctl \in Controller /\ ProbeOK(ctl) /\ ctl.inFlight # 0 /\ ctl.cap \in Nat
        /\ current \in SUBSET current /\ {} \in SUBSET current
    BY InvFacts
  <1>2. ASSUME NEW G \in Choices(Success(c), waiting), Settle(c, Success(c), current, G)
        PROVE  StepLaws
    <2>1. Success(c) = Succeeded(ctl, IF c \in current THEN TRUE ELSE FALSE)
      BY DEF Success, Succeeded
    <2>2. Settled(ctl, Success(c)) /\ Success(c).cap >= ctl.cap
      BY <1>1, <2>1, SucceededFacts
    <2>3. Justified(c, Success(c), current)
      BY <2>2 DEF Justified
    <2>4. QED
      BY <1>1, <1>2, <2>2, <2>3, SettleKeeps
  <1>3. ASSUME NEW G \in Choices(Ended(ctl), waiting), Settle(c, Ended(ctl), current, G)
        PROVE  StepLaws
    <2>1. Settled(ctl, Ended(ctl)) /\ Ended(ctl).cap >= ctl.cap
      BY <1>1, EndedFacts
    <2>2. Justified(c, Ended(ctl), current)
      BY <1>1, <2>1 DEF Justified
    <2>3. QED
      BY <1>1, <1>3, <2>1, <2>2, SettleKeeps
  <1>4. ASSUME NEW G \in Choices(FailedTransient(ctl), waiting),
               Settle(c, FailedTransient(ctl), current, G)
        PROVE  StepLaws
    <2>1. Settled(ctl, FailedTransient(ctl)) /\ FailedTransient(ctl).cap >= ctl.cap
      BY <1>1, EndedFacts
    <2>2. Justified(c, FailedTransient(ctl), current)
      BY <1>1, <2>1 DEF Justified
    <2>3. QED
      BY <1>1, <1>4, <2>1, <2>2, SettleKeeps
  <1>5. ASSUME NEW ra \in RetryAfters \cup {None}, NEW G \in Choices(Throttle(c, ra), waiting),
               Settle(c, Throttle(c, ra), AfterVerdict(c), G)
        PROVE  StepLaws
    <2>0. Throttle(c, ra) = Throttled(ctl, IF c \in current THEN TRUE ELSE FALSE, ra)
      BY DEF Throttle, Throttled
    <2>1. /\ Settled(ctl, Throttle(c, ra)) /\ Throttle(c, ra).cap >= Cut(ctl.cap)
          /\ c \notin current => Throttle(c, ra).cap = ctl.cap
      BY <1>1, <2>0, ThrottledFacts
    <2>2. CASE c \in current
      <3>1. AfterVerdict(c) = {}
        BY <2>2 DEF AfterVerdict
      <3>2. /\ issuedAt[c] \in Nat \ {0} /\ issuedAt[c] <= ctl.cap
            /\ ctl.cap \in Nat \ {0}
        BY <2>2, InvFacts
      <3>3. Cut(issuedAt[c]) <= Cut(ctl.cap) /\ Cut(issuedAt[c]) \in Int /\ Cut(ctl.cap) \in Int
        BY <3>2, CutFacts
      <3>4. Throttle(c, ra).cap \in Nat
        BY <2>1, ControllerAssumption DEF Settled, Controller
      <3>5. Throttle(c, ra).cap >= Cut(issuedAt[c])
        BY <2>1, <3>3, <3>4
      <3>6. Justified(c, Throttle(c, ra), AfterVerdict(c)) /\ AfterVerdict(c) \in SUBSET current
        BY <3>1, <3>5 DEF Justified
      <3>7. QED
        BY <1>5, <2>1, <3>6, SettleKeeps
    <2>3. CASE c \notin current
      <3>1. AfterVerdict(c) = current /\ Throttle(c, ra).cap >= ctl.cap
        BY <1>1, <2>1, <2>3 DEF AfterVerdict
      <3>2. Justified(c, Throttle(c, ra), AfterVerdict(c)) /\ AfterVerdict(c) \in SUBSET current
        BY <3>1 DEF Justified
      <3>3. QED
        BY <1>5, <2>1, <3>2, SettleKeeps
    <2>4. QED
      BY <2>2, <2>3
  <1>6. QED
    BY <1>2, <1>3, <1>4, <1>5 DEF SettleSome

\* Every action keeps the invariant and obeys the laws.
LEMMA StepKeeps ==
    ASSUME GateInv, Next
    PROVE  StepLaws
  <1>1. ASSUME NEW c \in Clients, FastPath(c) PROVE StepLaws
    <2>1. c \in Slots /\ c \notin waiting /\ c \notin tickets
      BY <1>1 DEF FastPath, IsIdle, Slots
    <2>2. QED
      BY <1>1, <2>1, GrantKeeps DEF FastPath, StepLaws
  <1>2. ASSUME NEW c \in Clients, FastPathMiss(c) PROVE StepLaws
    BY <1>2, MissKeeps DEF FastPathMiss
  <1>3. ASSUME NEW c \in Clients, NEW G \in Choices(ctl, waiting \cup {c}), Admit(c, G)
        PROVE  StepLaws
    <2>1. waiting \cup {c} \in SUBSET Clients /\ (waiting \cup {c}) \cap tickets = {}
      BY <1>3, InvFacts DEF Admit, IsIdle
    <2>2. QED
      BY <1>3, <2>1, DrainKeeps DEF Admit
  <1>4. ASSUME NEW c \in Clients, Abort(c) PROVE StepLaws
    BY <1>4, AbortKeeps
  <1>5. ASSUME NEW c \in Observers, ObserverGrant(c) PROVE StepLaws
    <2>1. c \in Slots /\ c \notin waiting /\ c \notin tickets /\ Grant(c)
      BY <1>5, InvFacts, GateAssumption DEF ObserverGrant, Slots
    <2>2. GateInv' /\ BurstLaw /\ StrandLaw
      BY <2>1, GrantKeeps
    <2>3. GateLaw
      BY <2>1, GateAssumption DEF GateLaw, Grant
    <2>4. QED
      BY <2>2, <2>3 DEF StepLaws
  <1>6. ASSUME NEW c \in tickets, SettleSome(c) PROVE StepLaws
    BY <1>6, SettleSomeKeeps
  <1>7. ASSUME NEW G \in Choices(ctl, waiting), WakeUp(G) PROVE StepLaws
    <2>1. waiting \in SUBSET Clients /\ waiting \cap tickets = {}
      BY InvFacts
    <2>2. QED
      BY <1>7, <2>1, DrainKeeps DEF WakeUp
  <1>8. CASE Tick
    BY <1>8, TickKeeps
  <1>9. QED
    BY <1>1, <1>2, <1>3, <1>4, <1>5, <1>6, <1>7, <1>8 DEF Next

-----------------------------------------------------------------------------
(* The theorems. *)

\* The bucket is born with the invariant and nobody stranded.
LEMMA InitOK == Init => GateInv /\ ~Stranded
  <1> SUFFICES ASSUME Init PROVE GateInv /\ ~Stranded
    OBVIOUS
  <1>1. ctl \in Controller
    <2>1. /\ Ceiling \in 1..Ceiling /\ 0 \in 0..IncreaseAfter
      BY ControllerAssumption
    <2>2. None \in Opt(Nat) /\ None \in Opt(0..IdleWindow) /\ None \in Opt(1..Ceiling)
      BY NoneIsOptional
    <2>3. QED
      BY <2>1, <2>2 DEF Init, NewController, Controller
  <1>2. TypeOK
    BY <1>1, ControllerAssumption, NoneIsOptional DEF Init, TypeOK
  <1>3. TicketAccounting
    BY FS_EmptySet DEF Init, NewController, TicketAccounting
  <1>4. QED
    BY <1>2, <1>3
       DEF Init, NewController, GateInv, ProbeIsOneStep, AlarmAtCooldownEnd, IssuedUnderCap,
           Stranded

\* So does a step that changes nothing.
LEMMA StutterKeeps ==
    ASSUME GateInv, UNCHANGED vars
    PROVE  StepLaws
  <1>1. GateInv'
    BY DEF vars, GateInv, TypeOK, TicketAccounting, ProbeIsOneStep, AlarmAtCooldownEnd,
           IssuedUnderCap
  <1>2. BurstLaw /\ GateLaw /\ StrandLaw
    BY InvFacts DEF vars, BurstLaw, GateLaw, StrandLaw, Stranded
  <1>3. QED
    BY <1>1, <1>2 DEF StepLaws

\* Every step, a stutter included, keeps the invariant and obeys the laws.
LEMMA Inductive == GateInv /\ [Next]_vars => StepLaws
  BY StepKeeps, StutterKeeps

\* GateInv holds in every reachable state.
LEMMA Invariance == Spec => []GateInv
  <1>1. GateInv /\ [Next]_vars => GateInv'
    BY Inductive DEF StepLaws
  <1>2. QED
    BY InitOK, <1>1, PTL DEF Spec

\* The fields of the controller and the gate keep their ranges: the cap stays
\* between the floor and the ceiling whatever the provider answers.
THEOREM TypeCorrect == Spec => []TypeOK
  <1>1. GateInv => TypeOK
    BY DEF GateInv
  <1>2. QED
    BY Invariance, <1>1, PTL

\* The counters are the tickets and waiters there are: nothing is settled twice
\* or lost, for any number of slots (mintTicket, waiters, ended).
THEOREM Accounting == Spec => []TicketAccounting
  <1>1. GateInv => TicketAccounting
    BY DEF GateInv
  <1>2. QED
    BY Invariance, <1>1, PTL

\* A failed probe costs one step, for every ceiling (throttled's branch on
\* lastGood in concurrency.ts).
THEOREM ProbeCostsOneStep == Spec => []ProbeIsOneStep
  <1>1. GateInv => ProbeIsOneStep
    BY DEF GateInv
  <1>2. QED
    BY Invariance, <1>1, PTL

\* The alarm is never early, late or missing while somebody waits and a cooldown
\* is known (armCooldownWake).
THEOREM AlarmIsExact == Spec => []AlarmAtCooldownEnd
  <1>1. GateInv => AlarmAtCooldownEnd
    BY DEF GateInv
  <1>2. QED
    BY Invariance, <1>1, PTL

\* A ticket of the present epoch was admitted under no more than the present cap.
THEOREM CurrentTicketsUnderCap == Spec => []IssuedUnderCap
  <1>1. GateInv => IssuedUnderCap
    BY DEF GateInv
  <1>2. QED
    BY Invariance, <1>1, PTL

\* A batch of 429s is one verdict: however many tickets of an epoch are throttled,
\* the cap falls at most one cut below what the throttled request was issued under.
THEOREM OneCutPerBurst == Spec => BurstCutsOnce
  <1>1. GateInv /\ [Next]_vars
          => [ctl'.cap < ctl.cap =>
                \E c \in tickets \ tickets' : ctl'.cap >= Cut(issuedAt[c])]_vars
    BY Inductive DEF StepLaws, BurstLaw
  <1>2. QED
    BY Invariance, <1>1, PTL DEF Spec, BurstCutsOnce

\* No workflow request passes the gate above the cap or inside a cooldown, also
\* when observers have already overfilled it (canAdmit, drain, tryAdmit).
THEOREM GateIsNeverOverrun == Spec => GateHolds
  <1>1. GateInv /\ [Next]_vars
          => [(tickets' \ tickets) \cap Clients # {} =>
                ctl'.inFlight <= ctl'.cap /\ ctl'.cooldown \in {None, 0}]_vars
    BY Inductive DEF StepLaws, GateLaw
  <1>2. QED
    BY Invariance, <1>1, PTL DEF Spec, GateHolds

\* The only step that can leave waiters with neither a ticket nor an alarm to
\* drain them is the abort of another waiter (onAbort feeds the controller, whose
\* idle reset may forget the cooldown, re-arms, and does not drain).
THEOREM OnlyAbortStrands == Spec => StrandedOnlyByAbort
  <1>1. GateInv /\ [Next]_vars
          => [~Stranded /\ Stranded' =>
                \E c \in Abortable : waiting' = waiting \ {c} /\ c \in waiting]_vars
    BY Inductive DEF StepLaws, StrandLaw
  <1>2. QED
    BY Invariance, <1>1, PTL DEF Spec, StrandedOnlyByAbort

\* Where no wait is aborted, waiters always have a ticket or an alarm that will
\* drain the queue ("wakes waiters when the cooldown ends", the governor's header).
THEOREM NobodyStrandedWithoutAborts ==
    ASSUME Abortable = {}
    PROVE  Spec => []NoStrandedWaiter
  <1>1. GateInv /\ NoStrandedWaiter /\ [Next]_vars => NoStrandedWaiter'
    BY Inductive DEF StepLaws, StrandLaw, NoStrandedWaiter
  <1>2. Init => NoStrandedWaiter
    BY InitOK DEF NoStrandedWaiter
  <1>3. QED
    BY Invariance, <1>1, <1>2, PTL DEF Spec

\* Every nonempty set of numbers has a least one.
LEMMA Least ==
    ASSUME NEW T, T \subseteq Nat, T # {}
    PROVE  \E x \in T : \A y \in T : x <= y
  <1> DEFINE W == {0..n : n \in T}
  <1>1. W \subseteq FiniteSubsetsOf(Nat)
    <2> SUFFICES ASSUME NEW n \in T PROVE 0..n \in FiniteSubsetsOf(Nat)
      OBVIOUS
    <2> QED
      BY FS_Interval DEF FiniteSubsetsOf
  <1>2. W # {}
    OBVIOUS
  <1>3. IsWellFoundedOn(StrictSubsetOrdering(Nat), FiniteSubsetsOf(Nat))
    BY FS_StrictSubsetOrderingWellFounded
  <1>4. PICK X \in W : \A Y \in W : ~(<<Y, X>> \in StrictSubsetOrdering(Nat))
    <2> HIDE DEF W
    <2> QED
      BY <1>1, <1>2, <1>3, WFMin
  <1>5. PICK x \in T : X = 0..x
    OBVIOUS
  <1>6. ASSUME NEW y \in T PROVE x <= y
    <2>1. ~(<<0..y, 0..x>> \in StrictSubsetOrdering(Nat))
      BY <1>4, <1>5
    <2> QED
      BY <1>1, <2>1 DEF StrictSubsetOrdering
  <1> QED
    BY <1>6

\* So a set of numbers with 0 and the successors of its members has them all.
LEMMA Induct ==
    ASSUME NEW T, T \subseteq Nat, 0 \in T, \A n \in T : n + 1 \in T
    PROVE  T = Nat
  <1> SUFFICES ASSUME T # Nat PROVE FALSE
    OBVIOUS
  <1> DEFINE U == Nat \ T
  <1>1. PICK x \in U : \A y \in U : x <= y
    <2> HIDE DEF U
    <2>1. U \subseteq Nat /\ U # {}
      BY DEF U
    <2> QED
      BY <2>1, Least
  <1>2. x - 1 \in Nat /\ x - 1 \in T
    BY <1>1
  <1> QED
    BY <1>2

-----------------------------------------------------------------------------
(* The queues of the governor. *)

\* It counts as the gate does.
LEMMA SameCount ==
    \A S : Gov!Cardinality(S) = Cardinality(S) /\ Gov!Gate!Cardinality(S) = Cardinality(S)
  BY DEF Cardinality, Gov!Cardinality, Gov!Gate!Cardinality

\* Its controller and its alarm are the gate's.
LEMMA SameController ==
    ASSUME NEW d
    PROVE  /\ Gov!Observe(d) = Observe(d) /\ Gov!Gate!Observe(d) = Observe(d)
           /\ Gov!CanAdmit(d) <=> CanAdmit(d)
           /\ Gov!Gate!CanAdmit(d) <=> CanAdmit(d)
           /\ Gov!Admitted(d) = Admitted(d) /\ Gov!Gate!Admitted(d) = Admitted(d)
           /\ \A n : Gov!Waiting(d, n) = Waiting(d, n) /\ Gov!Gate!Waiting(d, n) = Waiting(d, n)
           /\ \A n : Gov!Gate!Room(d, n) = Room(d, n)
           /\ \A g, n : Gov!Gate!Served(d, g, n) = Served(d, g, n)
           /\ \A W : Gov!Alarm(d, W) = Alarm(d, W) /\ Gov!Gate!Alarm(d, W) = Alarm(d, W)
           /\ Gov!Elapse(d) = Elapse(d) /\ Gov!Gate!Elapse(d) = Elapse(d)
           /\ Gov!CountDown(d) = CountDown(d) /\ Gov!Gate!CountDown(d) = CountDown(d)
  <1>1. /\ Gov!Observe(d) = Observe(d) /\ Gov!Gate!Observe(d) = Observe(d)
        /\ \A n : Gov!Waiting(d, n) = Waiting(d, n) /\ Gov!Gate!Waiting(d, n) = Waiting(d, n)
    BY DEF Gov!Observe, Observe, Gov!Gate!Observe, Gov!Idle, Idle, Gov!Gate!Idle,
           Gov!Waiting, Waiting, Gov!Gate!Waiting
  <1>2. /\ Gov!CanAdmit(d) <=> CanAdmit(d)
        /\ Gov!Gate!CanAdmit(d) <=> CanAdmit(d)
        /\ Gov!Admitted(d) = Admitted(d) /\ Gov!Gate!Admitted(d) = Admitted(d)
        /\ \A n : Gov!Gate!Room(d, n) = Room(d, n)
        /\ \A g, n : Gov!Gate!Served(d, g, n) = Served(d, g, n)
        /\ \A W : Gov!Alarm(d, W) = Alarm(d, W) /\ Gov!Gate!Alarm(d, W) = Alarm(d, W)
    BY DEF Gov!CanAdmit, CanAdmit, Gov!Gate!CanAdmit, Gov!Admitted, Admitted, Gov!Gate!Admitted,
           Gov!Gate!Room, Room, Gov!Gate!Served, Served, Gov!Alarm, Alarm, Gov!Gate!Alarm
  <1>3. /\ Gov!Elapse(d) = Elapse(d) /\ Gov!Gate!Elapse(d) = Elapse(d)
        /\ Gov!CountDown(d) = CountDown(d) /\ Gov!Gate!CountDown(d) = CountDown(d)
    BY DEF Gov!Elapse, Elapse, Gov!Gate!Elapse, Gov!CountDown, CountDown, Gov!Gate!CountDown,
           Gov!Larger, Larger, Gov!Gate!Larger
  <1> QED
    BY <1>1, <1>2, <1>3

\* So are the signals a ticket is settled with.
LEMMA SameSignals ==
    ASSUME NEW d, NEW b, NEW ra
    PROVE  /\ Gov!Ended(d) = Ended(d) /\ Gov!Gate!Ended(d) = Ended(d)
           /\ Gov!FailedTransient(d) = FailedTransient(d)
           /\ Gov!Gate!FailedTransient(d) = FailedTransient(d)
           /\ Gov!Succeeded(d, b) = Succeeded(d, b) /\ Gov!Gate!Succeeded(d, b) = Succeeded(d, b)
           /\ Gov!Throttled(d, b, ra) = Throttled(d, b, ra)
           /\ Gov!Gate!Throttled(d, b, ra) = Throttled(d, b, ra)
  <1>1. /\ Gov!Ended(d) = Ended(d) /\ Gov!Gate!Ended(d) = Ended(d)
        /\ Gov!FailedTransient(d) = FailedTransient(d)
        /\ Gov!Gate!FailedTransient(d) = FailedTransient(d)
    BY SameController DEF Gov!Ended, Ended, Gov!Gate!Ended, Gov!FailedTransient, FailedTransient,
       Gov!Gate!FailedTransient, Gov!Larger, Larger, Gov!Gate!Larger
  <1> DEFINE e == Ended(d)
             f == FailedTransient(d)
  <1> HIDE DEF e, f
  <1>2. Gov!Succeeded(d, b) = Succeeded(d, b) /\ Gov!Gate!Succeeded(d, b) = Succeeded(d, b)
    BY <1>1 DEF e, Gov!Succeeded, Succeeded, Gov!Gate!Succeeded, Gov!Counted, Counted,
       Gov!Gate!Counted, Gov!Proven, Proven, Gov!Gate!Proven, Gov!Raised, Raised, Gov!Gate!Raised
  <1>3. /\ Gov!Throttled(d, b, ra) = Throttled(d, b, ra)
        /\ Gov!Gate!Throttled(d, b, ra) = Throttled(d, b, ra)
    BY <1>1 DEF f, Gov!Throttled, Throttled, Gov!Gate!Throttled, Gov!Cooled, Cooled,
       Gov!Gate!Cooled, Gov!Judged, Judged, Gov!Gate!Judged, Gov!Cut, Cut, Gov!Gate!Cut,
       Gov!Larger, Larger, Gov!Gate!Larger
  <1> QED
    BY <1>1, <1>2, <1>3

\* The signals keep the controller's ranges, whatever was counted.
LEMMA SignalsKeepRanges ==
    ASSUME NEW d \in Controller, NEW b \in BOOLEAN, NEW ra \in RetryAfters \cup {None}
    PROVE  /\ Observe(d) \in Controller /\ Ended(d) \in Controller
           /\ FailedTransient(d) \in Controller
           /\ Succeeded(d, b) \in Controller /\ Throttled(d, b, ra) \in Controller
           /\ \A n \in Nat : Waiting(d, n) \in Controller
           /\ Elapse(d) \in Controller
  <1> DEFINE o == Observe(d)
             e == Ended(d)
             f == FailedTransient(d)
             k == Counted(e)
             q == Proven(k)
             h == Cooled(d, ra)
  <1>1. o \in Controller
    BY ObserveFacts
  <1>2. e = [o EXCEPT !.inFlight = Larger(0, o.inFlight - 1)]
    BY DEF Ended
  <1>3. e \in Controller
    <2> HIDE DEF o, e
    <2> QED
      BY <1>1, <1>2 DEF Larger, Controller
  <1>4. f = [e EXCEPT !.streak = 0]
    BY DEF FailedTransient
  <1>5. f \in Controller
    <2>1. 0 \in 0..IncreaseAfter
      BY ControllerAssumption
    <2> HIDE DEF e, f
    <2> QED
      BY <1>3, <1>4, <2>1 DEF Controller
  <1>6. k = [e EXCEPT !.streak = IF e.streak < IncreaseAfter THEN e.streak + 1 ELSE e.streak]
    BY DEF Counted
  <1>7. k \in Controller
    <2> DEFINE n == IF e.streak < IncreaseAfter THEN e.streak + 1 ELSE e.streak
    <2> HIDE DEF e, k
    <2>1. n \in 0..IncreaseAfter
      BY <1>3, ControllerAssumption DEF Controller
    <2>2. k = [e EXCEPT !.streak = n]
      BY <1>6
    <2> HIDE DEF n
    <2> QED
      BY <1>3, <2>1, <2>2 DEF Controller
  <1>8. q = [k EXCEPT !.lastGood = IF k.lastGood = None \/ k.cap > k.lastGood
                                   THEN k.cap ELSE k.lastGood]
    BY DEF Proven
  <1>9. q \in Controller /\ q.cap = k.cap
    <2> HIDE DEF k, q
    <2>1. k.cap \in Opt(1..Ceiling)
      BY <1>7, OptFacts DEF Controller
    <2> QED
      BY <1>7, <1>8, <2>1 DEF Controller
  <1>10. Raised(q) = [q EXCEPT !.cap = q.cap + 1, !.streak = 0]
    BY DEF Raised
  <1>11. k.cap < Ceiling => Raised(q) \in Controller
    <2> HIDE DEF k, q
    <2>1. k.cap < Ceiling => q.cap + 1 \in 1..Ceiling
      <3>1. k.cap \in 1..Ceiling /\ q.cap = k.cap
        BY <1>7, <1>9 DEF Controller
      <3> QED
        BY <3>1, ControllerAssumption
    <2>2. 0 \in 0..IncreaseAfter
      BY ControllerAssumption
    <2> QED
      BY <1>9, <1>10, <2>1, <2>2 DEF Controller
  <1>12. Succeeded(d, b) \in Controller
    <2>1. \/ Succeeded(d, b) \in {e, k, q}
          \/ k.cap < Ceiling /\ Succeeded(d, b) = Raised(q)
      <3>1. k.cap \in Int /\ Ceiling \in Int
        BY <1>7, ControllerAssumption DEF Controller
      <3> QED
        BY <3>1 DEF Succeeded
    <2> HIDE DEF e, k, q
    <2> QED
      BY <1>3, <1>7, <1>9, <1>11, <2>1
  <1>13. h \in Controller
    <2> DEFINE n == IF f.cooldown = None THEN ra ELSE Larger(f.cooldown, ra)
    <2>1. h = f \/ (ra \in Nat /\ h = [f EXCEPT !.cooldown = n])
      <3>1. ra # None => h = [f EXCEPT !.cooldown = n]
        BY DEF Cooled
      <3>2. ra = None => h = f
        BY DEF Cooled
      <3>3. ra # None => ra \in Nat
        BY ControllerAssumption
      <3> HIDE DEF f, h, n
      <3> QED
        BY <3>1, <3>2, <3>3
    <2> HIDE DEF f, h
    <2>2. f.cooldown = None \/ f.cooldown \in Nat
      BY <1>5, OptFacts DEF Controller
    <2>3. ra \in Nat => n \in Opt(Nat)
      BY <2>2, OptFacts DEF Larger
    <2> HIDE DEF n
    <2> QED
      BY <1>5, <2>1, <2>3 DEF Controller
  <1>14. Throttled(d, b, ra) \in Controller
    <2>1. Throttled(d, b, ra) \in {h, Judged(h)}
      BY DEF Throttled
    <2> HIDE DEF h
    <2>2. Judged(h) \in Controller
      <3>1. h.cap \in Nat \ {0} /\ h.cap <= Ceiling /\ Cut(h.cap) \in 1..h.cap
        BY <1>13, CutFacts DEF Controller
      <3>2. h.lastGood # None => h.lastGood \in 1..Ceiling
        BY <1>13, OptFacts DEF Controller
      <3>3. CASE h.lastGood # None /\ h.cap > h.lastGood
        <4>1. Judged(h) = [h EXCEPT !.cap = h.lastGood, !.hasBad = TRUE]
          BY <3>3 DEF Judged
        <4> QED
          BY <1>13, <3>2, <3>3, <4>1 DEF Controller
      <3>4. CASE ~(h.lastGood # None /\ h.cap > h.lastGood)
        <4>1. Judged(h) = [h EXCEPT !.cap = Cut(h.cap), !.lastGood = None, !.hasBad = TRUE]
          BY <3>4 DEF Judged
        <4>2. Cut(h.cap) \in 1..Ceiling
          BY <3>1, ControllerAssumption
        <4> HIDE DEF Opt
        <4> QED
          BY <1>13, <4>1, <4>2, NoneIsOptional DEF Controller
      <3> QED
        BY <3>3, <3>4
    <2> QED
      BY <1>13, <2>1, <2>2
  <1>15. \A n \in Nat : Waiting(d, n) \in Controller
    <2> HIDE DEF o
    <2>1. \A n : Waiting(d, n) = [o EXCEPT !.waiters = n]
      BY DEF o, Waiting
    <2> QED
      BY <1>1, <2>1 DEF Controller
  <1>16. Elapse(d) \in Controller
    <2>1. (d.age = None \/ d.age \in 0..IdleWindow) /\ (d.cooldown = None \/ d.cooldown \in Nat)
      BY OptFacts DEF Controller
    <2>2. CountDown(d.cooldown) \in Opt(Nat)
      BY <2>1, OptFacts DEF CountDown, Larger
    <2>3. (IF d.age = None THEN None ELSE IF d.age < IdleWindow THEN d.age + 1 ELSE d.age)
            \in Opt(0..IdleWindow)
      BY <2>1, OptFacts, ControllerAssumption
    <2> QED
      BY <2>2, <2>3 DEF Elapse, Controller
  <1> QED
    BY <1>1, <1>3, <1>5, <1>12, <1>14, <1>15, <1>16

\* No two places hold the same.
Distinct(q) == \A i, j \in 1..Len(q) : q[i] = q[j] => i = j

Has(q, x) == \E i \in 1..Len(q) : q[i] = x

\* The waiters in queues Q, oldest first, each once and under its own run; ord
\* names the runs that have some, each once.
QueuesOK(Q, ord) ==
    /\ Q \in [Runs -> Seq(Clients)]
    /\ \A r \in Runs : \A i \in 1..Len(Q[r]) : RunOf[Q[r][i]] = r
    /\ \A r \in Runs : Distinct(Q[r])
    /\ ord \in Seq(Runs) /\ Distinct(ord)
    /\ \A r \in Runs : Has(ord, r) <=> Q[r] # <<>>

\* Who waits is in the queue of a run.
LEMMA WaitersAre ==
    ASSUME NEW Q \in [Runs -> Seq(Clients)]
    PROVE  /\ \A x : x \in Gov!WaitersIn(Q) <=> \E r \in Runs : \E i \in 1..Len(Q[r]) : x = Q[r][i]
           /\ Gov!WaitersIn(Q) \in SUBSET Clients
           /\ IsFiniteSet(Gov!WaitersIn(Q)) /\ Cardinality(Gov!WaitersIn(Q)) \in Nat
  <1>1. \A r \in Runs : Q[r] \in Seq(Clients) /\ DOMAIN Q[r] = 1..Len(Q[r])
    OBVIOUS
  <1>2. \A x : x \in Gov!WaitersIn(Q) <=> \E r \in Runs : \E i \in 1..Len(Q[r]) : x = Q[r][i]
    BY <1>1 DEF Gov!WaitersIn, Gov!ToSet
  <1>3. Gov!WaitersIn(Q) \in SUBSET Clients
    BY <1>1, <1>2
  <1>4. Gov!WaitersIn(Q) \in SUBSET Slots
    BY <1>3 DEF Slots
  <1> QED
    BY <1>2, <1>3, <1>4, SlotsFinite

\* The place of e in a sequence, 0 when it has none.
LEMMA PlaceOf ==
    ASSUME NEW S, NEW q \in Seq(S), NEW e
    PROVE  LET i == Gov!SelectInSeq(q, LAMBDA x : x = e)
           IN  \/ i = 0 /\ \A j \in 1..Len(q) : q[j] # e
               \/ i \in 1..Len(q) /\ q[i] = e
  <1> DEFINE I == {j \in 1..Len(q) : q[j] = e}
             i == Gov!SelectInSeq(q, LAMBDA x : x = e)
  <1>1. i = IF I # {} THEN Gov!Min(I) ELSE 0
    BY DEF Gov!SelectInSeq
  <1>2. CASE I # {}
    <2>1. \E x \in I : \A y \in I : x <= y
      <3>1. I \subseteq Nat
        OBVIOUS
      <3> HIDE DEF I
      <3> QED
        BY <1>2, <3>1, Least
    <2>2. Gov!Min(I) \in I
      <3> HIDE DEF I
      <3> QED
        BY <2>1 DEF Gov!Min
    <2> QED
      BY <1>1, <1>2, <2>2
  <1>3. CASE I = {}
    BY <1>1, <1>3
  <1> QED
    BY <1>2, <1>3

\* A member taken out of a sequence without repetitions.
LEMMA Removal ==
    ASSUME NEW S, NEW q \in Seq(S), Distinct(q), NEW e, Has(q, e)
    PROVE  /\ Gov!RemoveFirst(q, e) \in Seq(S) /\ Distinct(Gov!RemoveFirst(q, e))
           /\ \A x : Has(Gov!RemoveFirst(q, e), x) <=> x # e /\ Has(q, x)
  <1> USE DEF Distinct, Has
  <1> PICK k \in 1..Len(q) : q[k] = e
    OBVIOUS
  <1> DEFINE t == Gov!RemoveFirst(q, e)
  <1>1. Gov!SelectInSeq(q, LAMBDA x : x = e) = k
    <2> DEFINE I == {j \in 1..Len(q) : q[j] = e}
    <2>1. Gov!SelectInSeq(q, LAMBDA x : x = e) = IF I # {} THEN Gov!Min(I) ELSE 0
      BY DEF Gov!SelectInSeq
    <2>2. I = {k}
      OBVIOUS
    <2>3. Gov!Min({k}) = k
      BY DEF Gov!Min
    <2> QED
      BY <2>1, <2>2, <2>3
  <1>2. t = SubSeq(q, 1, k - 1) \o SubSeq(q, k + 1, Len(q))
    BY <1>1 DEF Gov!RemoveFirst, Gov!RemoveAt
  <1>3. /\ t \in Seq(S) /\ Len(t) = Len(q) - 1
        /\ \A i \in 1..Len(t) : t[i] = IF i < k THEN q[i] ELSE q[i + 1]
    <2> DEFINE a == SubSeq(q, 1, k - 1)
               b == SubSeq(q, k + 1, Len(q))
    <2>1. a \in Seq(S) /\ Len(a) = k - 1 /\ \A i \in 1..(k - 1) : a[i] = q[i]
      OBVIOUS
    <2>2. b \in Seq(S) /\ Len(b) = Len(q) - k /\ \A i \in 1..(Len(q) - k) : b[i] = q[k + i]
      OBVIOUS
    <2> HIDE DEF a, b, Distinct, Has
    <2>3. /\ a \o b \in Seq(S) /\ Len(a \o b) = Len(q) - 1
          /\ \A i \in 1..Len(a \o b) : (a \o b)[i] = IF i < k THEN a[i] ELSE b[i - (k - 1)]
      BY <2>1, <2>2
    <2>4. ASSUME NEW i \in 1..(Len(q) - 1) PROVE (a \o b)[i] = IF i < k THEN q[i] ELSE q[i + 1]
      <3>1. CASE i < k
        BY <2>1, <2>3, <3>1
      <3>2. CASE ~(i < k)
        <4>1. i - (k - 1) \in 1..(Len(q) - k) /\ k + (i - (k - 1)) = i + 1
          BY <3>2
        <4> QED
          BY <2>2, <2>3, <3>2, <4>1
      <3> QED
        BY <3>1, <3>2
    <2> QED
      BY <1>2, <2>3, <2>4 DEF a, b
  <1> HIDE DEF t
  <1>4. ASSUME NEW x
        PROVE  (\E i \in 1..Len(t) : t[i] = x) <=> x # e /\ \E i \in 1..Len(q) : q[i] = x
    <2>1. ASSUME NEW i \in 1..Len(t), t[i] = x PROVE x # e /\ \E j \in 1..Len(q) : q[j] = x
      <3>1. CASE i < k
        BY <1>3, <2>1, <3>1
      <3>2. CASE ~(i < k)
        <4>1. i + 1 \in 1..Len(q) /\ i + 1 # k /\ q[i + 1] = x
          BY <1>3, <2>1, <3>2
        <4> QED
          BY <4>1
      <3> QED
        BY <3>1, <3>2
    <2>2. ASSUME NEW j \in 1..Len(q), q[j] = x, x # e PROVE \E i \in 1..Len(t) : t[i] = x
      <3>1. CASE j < k
        BY <1>3, <2>2, <3>1
      <3>2. CASE ~(j < k)
        <4>1. j - 1 \in 1..Len(t) /\ ~(j - 1 < k) /\ (j - 1) + 1 = j
          BY <1>3, <2>2, <3>2
        <4> QED
          BY <1>3, <2>2, <4>1
      <3> QED
        BY <3>1, <3>2
    <2> QED
      BY <2>1, <2>2
  <1>5. ASSUME NEW i \in 1..Len(t), NEW j \in 1..Len(t), t[i] = t[j] PROVE i = j
    <2> DEFINE at(n) == IF n < k THEN n ELSE n + 1
    <2>1. at(i) \in 1..Len(q) /\ at(j) \in 1..Len(q) /\ q[at(i)] = q[at(j)]
      BY <1>3, <1>5
    <2>2. at(i) = at(j)
      BY <2>1
    <2> QED
      BY <2>2
  <1> QED
    BY <1>3, <1>4, <1>5 DEF t

\* The next run has waiters, and is another one than the last if there is another.
LEMMA NextRunFacts ==
    ASSUME NEW Q, NEW ord, QueuesOK(Q, ord), ord # <<>>, NEW l
    PROVE  /\ Has(ord, Gov!NextRun(ord, l))
           /\ Gov!NextRun(ord, l) \in Runs /\ Q[Gov!NextRun(ord, l)] # <<>>
           /\ \A r \in Runs : Q[r] # <<>> /\ r # l => Gov!NextRun(ord, l) # l
  <1> DEFINE i == Gov!SelectInSeq(ord, LAMBDA x : x = l)
             n == (i % Len(ord)) + 1
  <1>1. ord \in Seq(Runs) /\ Len(ord) \in Nat \ {0}
    BY EmptySeq DEF QueuesOK
  <1>2. Gov!NextRun(ord, l) = ord[n]
    BY DEF Gov!NextRun
  <1>3. \/ i = 0 /\ \A j \in 1..Len(ord) : ord[j] # l
        \/ i \in 1..Len(ord) /\ ord[i] = l
    BY <1>1, PlaceOf
  <1> HIDE DEF i
  <1>4. n = IF i = Len(ord) THEN 1 ELSE i + 1
    BY <1>1, <1>3
  <1>5. n \in 1..Len(ord)
    BY <1>1, <1>3, <1>4
  <1> HIDE DEF n
  <1>6. ASSUME NEW r \in Runs, Q[r] # <<>>, r # l PROVE ord[n] # l
    <2>1. PICK j \in 1..Len(ord) : ord[j] = r
      BY <1>6 DEF QueuesOK, Has
    <2>2. i \in 1..Len(ord) /\ ord[i] = l => n # i
      BY <1>1, <1>4, <1>6, <2>1
    <2> QED
      BY <1>3, <1>5, <2>2 DEF QueuesOK, Distinct
  <1>7. ord[n] \in Runs
    BY <1>1, <1>5
  <1>8. Has(ord, ord[n])
    BY <1>5 DEF Has
  <1> QED
    BY <1>2, <1>6, <1>7, <1>8 DEF QueuesOK

\* What is left of a queue of which the served have gone from the front.
Behind(left, whole, gone) ==
    \E m \in 0..Len(whole) :
        /\ Len(left) = Len(whole) - m
        /\ \A i \in 1..Len(left) : left[i] = whole[m + i]
        /\ \A j \in 1..Len(whole) : whole[j] \in gone <=> j <= m

\* One round that serves somebody: the first of the next run's queue.
LEMMA TurnFacts ==
    ASSUME NEW s, QueuesOK(s.queues, s.order), CanAdmit(s.ctl), s.order # <<>>
    PROVE  LET t == Gov!Turn(s)
               r == Gov!NextRun(s.order, s.last)
           IN  /\ r \in Runs /\ s.queues[r] # <<>>
               /\ t.ctl = Admitted(Observe(s.ctl))
               /\ t.queues = [s.queues EXCEPT ![r] = Tail(s.queues[r])]
               /\ t.last = r
               /\ t.served = s.served \cup {s.queues[r][1]}
               /\ QueuesOK(t.queues, t.order)
  <1> DEFINE t == Gov!Turn(s)
             r == Gov!NextRun(s.order, s.last)
             Q == s.queues
             R == [Q EXCEPT ![r] = Tail(Q[r])]
             ord == s.order
             rest == IF R[r] = <<>> THEN Gov!RemoveFirst(ord, r) ELSE ord
  <1>1. t = [ctl |-> Admitted(Observe(s.ctl)), queues |-> R, order |-> rest, last |-> r,
             served |-> s.served \cup {Head(Q[r])}]
    BY SameController DEF Gov!Turn, Gov!TakeOldest
  <1>2. r \in Runs /\ Q[r] # <<>> /\ Has(ord, r)
    BY NextRunFacts
  <1> HIDE DEF t, r, Q, rest, ord
  <1>3. QueuesOK(Q, ord)
    BY DEF Q, ord
  <1>4. Q \in [Runs -> Seq(Clients)] /\ Q[r] \in Seq(Clients) /\ ord \in Seq(Runs)
    BY <1>2, <1>3 DEF QueuesOK
  <1> DEFINE q == Q[r]
             u == Tail(q)
  <1>5. /\ u \in Seq(Clients) /\ Len(q) \in Nat \ {0} /\ Len(u) = Len(q) - 1 /\ Head(q) = q[1]
        /\ \A i \in 1..Len(u) : i + 1 \in 1..Len(q) /\ u[i] = q[i + 1]
    <2> HIDE DEF q
    <2>1. q \in Seq(Clients) /\ q # <<>>
      BY <1>2, <1>4 DEF q
    <2> QED
      BY <2>1
  <1> HIDE DEF q, u
  <1>6. /\ R \in [Runs -> Seq(Clients)] /\ R[r] = u
        /\ \A p \in Runs \ {r} : R[p] = Q[p]
    BY <1>2, <1>4, <1>5 DEF q, u
  <1> HIDE DEF R
  <1>7. ASSUME NEW p \in Runs
        PROVE  Distinct(R[p]) /\ \A i \in 1..Len(R[p]) : RunOf[R[p][i]] = p
    <2>1. CASE p # r
      <3>1. R[p] = Q[p]
        BY <1>6, <2>1
      <3> QED
        BY <1>3, <3>1 DEF QueuesOK
    <2>2. CASE p = r
      <3>1. Distinct(q) /\ \A i \in 1..Len(q) : RunOf[q[i]] = r
        BY <1>2, <1>3 DEF q, QueuesOK
      <3>2. ASSUME NEW i \in 1..Len(u), NEW j \in 1..Len(u), u[i] = u[j] PROVE i = j
        <4>1. i + 1 = j + 1
          BY <1>5, <3>1, <3>2 DEF Distinct
        <4> QED
          BY <4>1
      <3>3. Distinct(u)
        BY <3>2 DEF Distinct
      <3>4. \A i \in 1..Len(u) : RunOf[u[i]] = r
        BY <1>5, <3>1
      <3> QED
        BY <1>6, <2>2, <3>3, <3>4
    <2> QED
      BY <2>1, <2>2
  <1>8. rest \in Seq(Runs) /\ Distinct(rest) /\ \A p \in Runs : Has(rest, p) <=> R[p] # <<>>
    <2>1. Distinct(ord) /\ \A p \in Runs : Has(ord, p) <=> Q[p] # <<>>
      BY <1>3 DEF QueuesOK
    <2>2. CASE R[r] = <<>>
      <3>1. rest = Gov!RemoveFirst(ord, r)
        BY <2>2 DEF rest
      <3>2. /\ rest \in Seq(Runs) /\ Distinct(rest)
            /\ \A x : Has(rest, x) <=> x # r /\ Has(ord, x)
        BY <1>2, <1>4, <2>1, <3>1, Removal
      <3> QED
        BY <1>6, <2>1, <2>2, <3>2
    <2>3. CASE R[r] # <<>>
      <3>1. rest = ord
        BY <2>3 DEF rest
      <3> QED
        BY <1>2, <1>4, <1>6, <2>1, <2>3, <3>1
    <2> QED
      BY <2>2, <2>3
  <1>9. QueuesOK(R, rest)
    BY <1>6, <1>7, <1>8 DEF QueuesOK
  <1>10. s.queues[r][1] = Head(Q[r])
    BY <1>5 DEF Q, q
  <1>11. r = Gov!NextRun(s.order, s.last) /\ t = Gov!Turn(s) /\ Q = s.queues
         /\ R = [s.queues EXCEPT ![r] = Tail(s.queues[r])]
    BY DEF t, r, Q, R
  <1>12. /\ t.ctl = Admitted(Observe(s.ctl)) /\ t.queues = R /\ t.order = rest /\ t.last = r
         /\ t.served = s.served \cup {Head(Q[r])}
    BY <1>1
  <1> QED
    BY <1>2, <1>9, <1>10, <1>11, <1>12

\* The state s of the drain loop after i rounds, from controller o, the queues Q in
\* order ord and the cursor l: it has served from the fronts of the queues, first
\* the next run, and as many as rounds unless it had to stop.
Reached(o, Q, ord, l, i, s) ==
    LET k == Cardinality(s.served)
    IN  /\ QueuesOK(s.queues, s.order)
        /\ s.served \in SUBSET Gov!WaitersIn(Q)
        /\ \A r \in Runs : Behind(s.queues[r], Q[r], s.served)
        /\ s.last \in Runs \cup {l}
        /\ s.ctl = [o EXCEPT !.inFlight = o.inFlight + k, !.age = IF k = 0 THEN o.age ELSE 0]
        /\ k > 0 => CanAdmit(o) /\ o.inFlight + k <= o.cap
        /\ i <= k \/ ~CanAdmit(s.ctl) \/ s.order = <<>>
        /\ s.served = {} => s.queues = Q /\ s.order = ord /\ s.last = l
        /\ s.served # {} => Q[Gov!NextRun(ord, l)][1] \in s.served

\* A round goes on from where the last one stopped.
LEMMA RoundKeeps ==
    ASSUME NEW o \in Controller, Observe(o) = o, NEW Q, NEW ord, QueuesOK(Q, ord), NEW l,
           NEW i \in Nat, NEW s, Reached(o, Q, ord, l, i, s)
    PROVE  Reached(o, Q, ord, l, i + 1, Gov!Turn(s))
  <1> DEFINE t == Gov!Turn(s)
             k == Cardinality(s.served)
             r == Gov!NextRun(s.order, s.last)
             q == s.queues[r]
             w == q[1]
  <1>1. CASE ~CanAdmit(s.ctl) \/ s.order = <<>>
    <2>1. t = s
      BY <1>1, SameController DEF Gov!Turn
    <2> QED
      BY <1>1, <2>1 DEF Reached
  <1>2. CASE CanAdmit(s.ctl) /\ s.order # <<>>
    <2>1. i <= k
      BY <1>2 DEF Reached
    <2>2. /\ r \in Runs /\ q # <<>>
          /\ t.ctl = Admitted(Observe(s.ctl))
          /\ t.queues = [s.queues EXCEPT ![r] = Tail(q)]
          /\ t.last = r
          /\ t.served = s.served \cup {w}
          /\ QueuesOK(t.queues, t.order)
      BY <1>2, TurnFacts DEF Reached
    <2> HIDE DEF t, r
    <2>3. PICK m \in 0..Len(Q[r]) :
             /\ Len(q) = Len(Q[r]) - m
             /\ \A a \in 1..Len(q) : q[a] = Q[r][m + a]
             /\ \A j \in 1..Len(Q[r]) : Q[r][j] \in s.served <=> j <= m
      BY <2>2 DEF Reached, Behind
    <2>4. /\ Q[r] \in Seq(Clients) /\ Len(Q[r]) \in Nat /\ Distinct(Q[r])
          /\ Q \in [Runs -> Seq(Clients)] /\ s.queues \in [Runs -> Seq(Clients)]
          /\ q \in Seq(Clients) /\ Len(q) \in Nat \ {0}
          /\ \A p \in Runs : \A j \in 1..Len(Q[p]) : RunOf[Q[p][j]] = p
      <3>1. q \in Seq(Clients) /\ q # <<>>
        BY <2>2 DEF QueuesOK, Reached
      <3>2. Len(q) \in Nat \ {0}
        <4> HIDE DEF q
        <4> QED
          BY <3>1
      <3>3. s.queues \in [Runs -> Seq(Clients)] /\ QueuesOK(Q, ord)
        BY DEF QueuesOK, Reached
      <3>4. Q[r] \in Seq(Clients) /\ Len(Q[r]) \in Nat
        BY <2>2, <3>3 DEF QueuesOK
      <3> QED
        BY <2>2, <3>1, <3>2, <3>3, <3>4 DEF QueuesOK
    <2>5. m + 1 \in 1..Len(Q[r]) /\ w = Q[r][m + 1]
      BY <2>3, <2>4
    <2> HIDE DEF q, w
    <2>6. w \notin s.served /\ w \in Gov!WaitersIn(Q)
      <3>1. w \notin s.served
        BY <2>3, <2>5
      <3> QED
        BY <2>2, <2>4, <2>5, <3>1, WaitersAre
    <2>7. IsFiniteSet(s.served) /\ k \in Nat
      BY <2>4, WaitersAre, FS_Subset, FS_CardinalityType DEF Reached
    <2>8. Cardinality(t.served) = k + 1
      BY <2>2, <2>6, <2>7, FS_AddElement
    <2>9. t.ctl = [o EXCEPT !.inFlight = o.inFlight + (k + 1), !.age = 0]
      <3> DEFINE c == s.ctl
      <3>1. c = [o EXCEPT !.inFlight = o.inFlight + k, !.age = IF k = 0 THEN o.age ELSE 0]
        BY DEF Reached
      <3> HIDE DEF k, c
      <3>2. Observe(c) = c
        <4>1. CASE k = 0
          <5>1. o.inFlight + k = o.inFlight /\ (IF k = 0 THEN o.age ELSE 0) = o.age
            BY <4>1 DEF Controller
          <5>2. c = [o EXCEPT !.inFlight = o.inFlight, !.age = o.age]
            BY <3>1, <5>1
          <5>3. c = o
            BY <5>2 DEF Controller
          <5> QED
            BY <5>3
        <4>2. CASE k # 0
          <5>1. c.age = 0
            BY <3>1, <4>2 DEF Controller
          <5> QED
            BY <5>1, ControllerAssumption DEF Observe, Idle
        <4> QED
          BY <4>1, <4>2
      <3>3. t.ctl = [c EXCEPT !.age = 0, !.inFlight = c.inFlight + 1]
        BY <2>2, <3>2 DEF c, Admitted
      <3>4. c.inFlight = o.inFlight + k /\ o.inFlight \in Nat
        BY <3>1 DEF Controller
      <3>5. c.inFlight + 1 = o.inFlight + (k + 1)
        BY <2>7, <3>4 DEF k
      <3>6. t.ctl = [c EXCEPT !.age = 0, !.inFlight = o.inFlight + (k + 1)]
        BY <3>3, <3>5
      <3>7. \A a, b, n : [[o EXCEPT !.inFlight = a, !.age = b] EXCEPT !.age = 0, !.inFlight = n]
                       = [o EXCEPT !.inFlight = n, !.age = 0]
        BY DEF Controller
      <3> QED
        BY <3>1, <3>6, <3>7 DEF k
    <2>10. CanAdmit(o) /\ o.inFlight + (k + 1) <= o.cap
      <3>1. s.ctl.inFlight = o.inFlight + k /\ s.ctl.cap = o.cap /\ s.ctl.cooldown = o.cooldown
        BY DEF Reached, Controller
      <3>2. o.inFlight \in Nat /\ o.cap \in Nat
        BY ControllerAssumption DEF Controller
      <3> QED
        BY <1>2, <2>7, <3>1, <3>2 DEF CanAdmit
    <2>11. ASSUME NEW p \in Runs PROVE Behind(t.queues[p], Q[p], t.served)
      <3>1. CASE p # r
        <4>1. t.queues[p] = s.queues[p]
          BY <2>2, <2>4, <3>1
        <4>2. \A j \in 1..Len(Q[p]) : Q[p][j] # w
          <5>1. RunOf[w] = r
            BY <2>2, <2>4, <2>5
          <5>2. \A j \in 1..Len(Q[p]) : RunOf[Q[p][j]] = p
            BY <2>4
          <5> QED
            BY <3>1, <5>1, <5>2
        <4>3. Behind(s.queues[p], Q[p], s.served)
          BY DEF Reached
        <4> QED
          BY <2>2, <4>1, <4>2, <4>3 DEF Behind
      <3>2. CASE p = r
        <4> DEFINE u == Tail(q)
        <4>1. t.queues[r] = u
          BY <2>2, <2>4 DEF q
        <4>2. Len(u) = Len(q) - 1 /\ \A a \in 1..Len(u) : a + 1 \in 1..Len(q) /\ u[a] = q[a + 1]
          BY <2>4
        <4> HIDE DEF u
        <4>3. \A a \in 1..Len(u) : u[a] = Q[r][(m + 1) + a]
          <5> SUFFICES ASSUME NEW a \in 1..Len(u) PROVE u[a] = Q[r][(m + 1) + a]
            OBVIOUS
          <5>1. u[a] = q[a + 1] /\ q[a + 1] = Q[r][m + (a + 1)] /\ m + (a + 1) = (m + 1) + a
            BY <2>3, <2>4, <4>2
          <5> QED
            BY <5>1
        <4>4. \A j \in 1..Len(Q[r]) : Q[r][j] \in t.served <=> j <= m + 1
          <5>1. \A j \in 1..Len(Q[r]) : Q[r][j] = w <=> j = m + 1
            BY <2>4, <2>5 DEF Distinct
          <5> QED
            BY <2>2, <2>3, <2>4, <5>1
        <4>5. Len(u) = Len(Q[r]) - (m + 1) /\ m + 1 \in 0..Len(Q[r])
          BY <2>3, <2>4, <2>5, <4>2
        <4>6. Behind(u, Q[r], t.served)
          BY <4>3, <4>4, <4>5 DEF Behind
        <4> QED
          BY <3>2, <4>1, <4>6
      <3> QED
        BY <3>1, <3>2
    <2>12. Q[Gov!NextRun(ord, l)][1] \in t.served
      <3>1. CASE s.served = {}
        <4>1. w = Q[Gov!NextRun(ord, l)][1]
          BY <3>1 DEF Reached, w, q, r
        <4> QED
          BY <2>2, <4>1
      <3>2. CASE s.served # {}
        BY <2>2, <3>2 DEF Reached
      <3> QED
        BY <3>1, <3>2
    <2>13. t.served \in SUBSET Gov!WaitersIn(Q)
      BY <2>2, <2>6 DEF Reached
    <2>14. i + 1 <= k + 1 /\ k + 1 > 0 /\ t.served # {}
      BY <2>1, <2>2, <2>7
    <2> HIDE DEF k
    <2>15. t.ctl = [o EXCEPT !.inFlight = o.inFlight + (k + 1),
                             !.age = IF k + 1 = 0 THEN o.age ELSE 0]
      <3>1. k + 1 # 0
        BY <2>14, <2>7 DEF k
      <3> QED
        BY <2>9, <3>1
    <2> QED
      BY <2>2, <2>8, <2>10, <2>11, <2>12, <2>13, <2>14, <2>15 DEF Reached, t
  <1> QED
    BY <1>1, <1>2

\* The rounds of the loop, from start: f[i] is the one state that i rounds lead to.
Rounds(f, start, n) ==
    f = [i \in 0..n |-> IF i = 0 THEN {start} ELSE {Gov!Turn(s) : s \in f[i - 1]}]

\* That recursion has a solution.
LEMMA RoundsExist ==
    ASSUME NEW start, NEW n \in Nat
    PROVE  \E f : Rounds(f, start, n)
  <1> DEFINE T == {m \in Nat : \E f : Rounds(f, start, m)}
  <1>1. 0 \in T
    <2> DEFINE g == [i \in 0..0 |-> {start}]
    <2>1. Rounds(g, start, 0)
      BY DEF Rounds
    <2> HIDE DEF g
    <2> QED
      BY <2>1
  <1>2. ASSUME NEW m \in T PROVE m + 1 \in T
    <2>1. PICK f : Rounds(f, start, m)
      OBVIOUS
    <2> DEFINE g == [i \in 0..(m + 1) |-> IF i = m + 1 THEN {Gov!Turn(s) : s \in f[m]} ELSE f[i]]
    <2>2. ASSUME NEW i \in 0..(m + 1)
          PROVE  g[i] = IF i = 0 THEN {start} ELSE {Gov!Turn(s) : s \in g[i - 1]}
      <3>1. CASE i = m + 1
        <4>1. g[m] = f[m] /\ i - 1 = m
          BY <3>1
        <4> QED
          BY <3>1, <4>1
      <3>2. CASE i \in 0..m
        <4>1. g[i] = f[i] /\ (i # 0 => g[i - 1] = f[i - 1])
          BY <3>2
        <4> HIDE DEF g
        <4> QED
          BY <2>1, <3>2, <4>1 DEF Rounds
      <3> QED
        BY <3>1, <3>2
    <2>3. g = [i \in 0..(m + 1) |-> g[i]]
      OBVIOUS
    <2>4. Rounds(g, start, m + 1)
      <3> HIDE DEF g
      <3> QED
        BY <2>2, <2>3 DEF Rounds
    <2> HIDE DEF g
    <2> QED
      BY <2>4
  <1>3. T = Nat
    <2> HIDE DEF T
    <2>1. T \subseteq Nat
      BY DEF T
    <2> QED
      BY <1>1, <1>2, <2>1, Induct
  <1> QED
    BY <1>3

Begun(d, Q, ord) == [ctl |-> Observe(d), queues |-> Q, order |-> ord, last |-> last, served |-> {}]

\* What the loop leaves behind when it ends in state s.
LeftBy(s, T, F) ==
    LET left == Gov!WaitersIn(s.queues)
    IN  /\ ctl' = Waiting(s.ctl, Cardinality(left))
        /\ queues' = s.queues /\ order' = s.order /\ last' = s.last
        /\ tickets' = T \cup s.served
        /\ current' = F \cup s.served
        /\ issuedAt' = [c \in Slots |-> IF c \in s.served THEN s.ctl.cap
                                        ELSE IF c \in T THEN issuedAt[c] ELSE 0]
        /\ wake' = Alarm(ctl', left)

DrainRounds(d, Q, ord) ==
    LET n == Gov!Cardinality(Gov!WaitersIn(Q))
        start == [ctl |-> Gov!Observe(d), queues |-> Q, order |-> ord, last |-> last, served |-> {}]
        After[i \in 0..n] == IF i = 0 THEN {start} ELSE {Gov!Turn(s) : s \in After[i - 1]}
    IN  After

\* A drain is as many rounds as there are waiters.
LEMMA DrainUnfolds ==
    ASSUME NEW d, NEW Q, NEW ord, NEW T, NEW F, Cardinality(Gov!WaitersIn(Q)) \in Nat,
           Gov!Drain(d, Q, ord, T, F)
    PROVE  LET n == Cardinality(Gov!WaitersIn(Q))
           IN  \E f : Rounds(f, Begun(d, Q, ord), n) /\ \E s \in f[n] : LeftBy(s, T, F)
  <1> DEFINE n == Gov!Cardinality(Gov!WaitersIn(Q))
             start == Begun(d, Q, ord)
             After == DrainRounds(d, Q, ord)
  <1>0. start = [ctl |-> Gov!Observe(d), queues |-> Q, order |-> ord, last |-> last, served |-> {}]
    BY SameController DEF Begun
  <1>n. n = Cardinality(Gov!WaitersIn(Q))
    BY SameCount
  <1>1. Rounds(After, start, n)
    <2> DEFINE begun == [ctl |-> Gov!Observe(d), queues |-> Q, order |-> ord, last |-> last,
                         served |-> {}]
    <2>1. \E f : Rounds(f, begun, n)
      <3> HIDE DEF begun
      <3> QED
        BY <1>n, RoundsExist
    <2>2. Rounds(After, begun, n)
      BY <2>1, Zenon DEF Rounds, DrainRounds
    <2> QED
      BY <1>0, <2>2
  <1>2. \E s \in After[n] : LeftBy(s, T, F)
    <2> DEFINE Left(s) ==
                 LET left == Gov!WaitersIn(s.queues)
                 IN  /\ ctl' = Gov!Waiting(s.ctl, Gov!Cardinality(left))
                     /\ queues' = s.queues /\ order' = s.order /\ last' = s.last
                     /\ tickets' = T \cup s.served
                     /\ current' = F \cup s.served
                     /\ issuedAt' = [c \in Slots |-> IF c \in s.served THEN s.ctl.cap
                                                     ELSE IF c \in T THEN issuedAt[c] ELSE 0]
                     /\ wake' = Gov!Alarm(ctl', left)
    <2>2. \E s \in After[n] : Left(s)
      BY DEF Gov!Drain, DrainRounds, Slots, Gov!Slots
    <2>3. ASSUME NEW s, Left(s) PROVE LeftBy(s, T, F)
      <3>1. /\ Gov!Waiting(s.ctl, Gov!Cardinality(Gov!WaitersIn(s.queues)))
                = Waiting(s.ctl, Cardinality(Gov!WaitersIn(s.queues)))
            /\ Gov!Alarm(ctl', Gov!WaitersIn(s.queues)) = Alarm(ctl', Gov!WaitersIn(s.queues))
        BY SameController, SameCount
      <3> QED
        BY <2>3, <3>1 DEF LeftBy
    <2> HIDE DEF Left, After
    <2> QED
      BY <2>2, <2>3
  <1> HIDE DEF After
  <1> QED
    BY <1>1, <1>2, <1>n

\* G is what a drain from controller d, with queues Q in order ord, has served.
Serves(G, d, Q, ord, T, F) ==
      /\ ctl' = Served(Observe(d), Cardinality(G), Cardinality(Gov!WaitersIn(Q)))
      /\ Gov!WaitersIn(queues') = Gov!WaitersIn(Q) \ G
      /\ tickets' = T \cup G
      /\ current' = F \cup G
      /\ issuedAt' = [c \in Slots |-> IF c \in G THEN Observe(d).cap
                                      ELSE IF c \in T THEN issuedAt[c] ELSE 0]
      /\ wake' = Alarm(ctl', Gov!WaitersIn(Q) \ G)
      /\ QueuesOK(queues', order') /\ last' \in Runs \cup {last}
      /\ \A r \in Runs : \A i, j \in 1..Len(Q[r]) : i < j /\ Q[r][j] \in G => Q[r][i] \in G
      /\ G # {} => Q[Gov!NextRun(ord, last)][1] \in G

\* The drain loop serves as many waiters as the gate has room for, the oldest of
\* each run first and somebody of the next run, and leaves good queues behind.
LEMMA DrainServes ==
    ASSUME NEW d \in Controller, NEW Q, NEW ord, QueuesOK(Q, ord), NEW T, NEW F,
           Gov!Drain(d, Q, ord, T, F)
    PROVE  \E G \in Choices(d, Gov!WaitersIn(Q)) : Serves(G, d, Q, ord, T, F)
  <1> DEFINE W == Gov!WaitersIn(Q)
             n == Cardinality(W)
             o == Observe(d)
             start == Begun(d, Q, ord)
  <1>1. /\ Q \in [Runs -> Seq(Clients)] /\ IsFiniteSet(W) /\ n \in Nat
        /\ \A r \in Runs : Q[r] \in Seq(Clients) /\ Len(Q[r]) \in Nat
        /\ \A x : x \in W <=> \E r \in Runs : \E i \in 1..Len(Q[r]) : x = Q[r][i]
    BY WaitersAre DEF QueuesOK
  <1>2. o \in Controller /\ Observe(o) = o
    <2>1. o \in Controller
      BY ObserveFacts
    <2>2. CASE Idle(d)
      <3>1. o = [d EXCEPT !.cap = Ceiling, !.streak = 0, !.cooldown = None,
                          !.lastGood = None, !.hasBad = FALSE]
        BY <2>2 DEF Observe
      <3> HIDE DEF o
      <3>2. /\ o.cap = Ceiling /\ o.streak = 0 /\ o.cooldown = None /\ o.lastGood = None
            /\ o.hasBad = FALSE
        BY <3>1 DEF Controller
      <3>3. [o EXCEPT !.cap = Ceiling, !.streak = 0, !.cooldown = None,
                      !.lastGood = None, !.hasBad = FALSE] = o
        BY <2>1, <3>2 DEF Controller
      <3> QED
        BY <2>1, <3>3 DEF Observe
    <2>3. CASE ~Idle(d)
      BY <2>1, <2>3 DEF Observe
    <2> QED
      BY <2>1, <2>2, <2>3
  <1>3. PICK f : Rounds(f, start, n) /\ \E s \in f[n] : LeftBy(s, T, F)
    BY <1>1, DrainUnfolds
  <1> HIDE DEF W, n, o, start
  <1>4. \A i \in 0..n : \A s \in f[i] : Reached(o, Q, ord, last, i, s)
    <2> DEFINE T0 == {i \in Nat : i <= n => \A s \in f[i] : Reached(o, Q, ord, last, i, s)}
    <2>1. 0 \in T0
      <3>1. f[0] = {start}
        BY <1>1, <1>3 DEF Rounds
      <3>2. Reached(o, Q, ord, last, 0, start)
        <4>1. /\ start.ctl = o /\ start.queues = Q /\ start.order = ord /\ start.last = last
              /\ start.served = {} /\ Cardinality(start.served) = 0
          BY FS_EmptySet DEF start, Begun, o
        <4>2. \A r \in Runs : Behind(Q[r], Q[r], {})
          <5> SUFFICES ASSUME NEW r \in Runs PROVE Behind(Q[r], Q[r], {})
            OBVIOUS
          <5>1. /\ 0 \in 0..Len(Q[r]) /\ Len(Q[r]) = Len(Q[r]) - 0
                /\ \A i \in 1..Len(Q[r]) : 0 + i = i /\ ~(i <= 0)
            BY <1>1
          <5> QED
            BY <5>1 DEF Behind
        <4>3. o = [o EXCEPT !.inFlight = o.inFlight + 0, !.age = o.age]
          <5>1. o.inFlight + 0 = o.inFlight
            BY <1>2 DEF Controller
          <5>2. [o EXCEPT !.inFlight = o.inFlight, !.age = o.age] = o
            BY <1>2 DEF Controller
          <5> QED
            BY <5>1, <5>2
        <4>4. /\ QueuesOK(start.queues, start.order) /\ start.last \in Runs \cup {last}
              /\ \A r \in Runs : Behind(start.queues[r], Q[r], start.served)
              /\ start.served \in SUBSET Gov!WaitersIn(Q)
          BY <4>1, <4>2
        <4>5. LET k == Cardinality(start.served)
              IN  /\ start.ctl = [o EXCEPT !.inFlight = o.inFlight + k,
                                           !.age = IF k = 0 THEN o.age ELSE 0]
                  /\ ~(k > 0) /\ 0 <= k
          <5>1. ~(0 > 0) /\ 0 <= 0 /\ (IF 0 = 0 THEN o.age ELSE 0) = o.age
            OBVIOUS
          <5>2. o = [o EXCEPT !.inFlight = o.inFlight + 0, !.age = IF 0 = 0 THEN o.age ELSE 0]
            BY <4>3
          <5> QED
            BY <4>1, <5>1, <5>2
        <4> QED
          BY <4>1, <4>4, <4>5 DEF Reached
      <3> QED
        BY <3>1, <3>2
    <2>2. ASSUME NEW i \in T0 PROVE i + 1 \in T0
      <3> SUFFICES ASSUME i + 1 <= n, NEW t \in f[i + 1]
                   PROVE  Reached(o, Q, ord, last, i + 1, t)
        OBVIOUS
      <3>1. i + 1 \in 0..n /\ i + 1 # 0 /\ (i + 1) - 1 = i
        BY <1>1
      <3>2. PICK s \in f[i] : t = Gov!Turn(s)
        <4>1. f[i + 1] = {Gov!Turn(s) : s \in f[i]}
          BY <1>3, <3>1 DEF Rounds
        <4> QED
          BY <4>1
      <3>3. Reached(o, Q, ord, last, i, s)
        BY <1>1
      <3> HIDE DEF T0
      <3>4. i \in Nat
        BY DEF T0
      <3> QED
        BY <1>2, <3>2, <3>3, <3>4, RoundKeeps
    <2>3. T0 = Nat
      <3> HIDE DEF T0
      <3>1. T0 \subseteq Nat
        BY DEF T0
      <3> QED
        BY <2>1, <2>2, <3>1, Induct
    <2> QED
      BY <1>1, <2>3
  <1>5. PICK s : LeftBy(s, T, F) /\ Reached(o, Q, ord, last, n, s)
    BY <1>1, <1>3, <1>4
  <1> DEFINE G == s.served
             k == Cardinality(G)
  <1>6. /\ QueuesOK(s.queues, s.order) /\ G \in SUBSET W
        /\ \A r \in Runs : Behind(s.queues[r], Q[r], G)
        /\ s.last \in Runs \cup {last}
        /\ s.ctl = [o EXCEPT !.inFlight = o.inFlight + k, !.age = IF k = 0 THEN o.age ELSE 0]
        /\ k > 0 => CanAdmit(o) /\ o.inFlight + k <= o.cap
        /\ n <= k \/ ~CanAdmit(s.ctl) \/ s.order = <<>>
        /\ G # {} => Q[Gov!NextRun(ord, last)][1] \in G
    BY <1>5 DEF Reached, W
  <1>7. /\ IsFiniteSet(G) /\ k \in Nat /\ k <= n /\ (k = n => G = W) /\ (k = 0 <=> G = {})
        /\ Cardinality(W \ G) = n - k
    <2>1. IsFiniteSet(G) /\ k <= n /\ (k = n => G = W)
      BY <1>1, <1>6, FS_Subset DEF n
    <2>2. k \in Nat /\ (k = 0 <=> G = {})
      BY <2>1, FS_CardinalityType, FS_EmptySet
    <2>3. Cardinality(W \ G) = n - k
      <3>1. Cardinality(W \ G) = Cardinality(W) - Cardinality(W \cap G)
        BY <1>1, FS_Difference
      <3>2. W \cap G = G
        BY <1>6
      <3> QED
        BY <3>1, <3>2 DEF n
    <2> QED
      BY <2>1, <2>2, <2>3
  <1>8. Gov!WaitersIn(s.queues) = W \ G
    <2>1. s.queues \in [Runs -> Seq(Clients)] /\ \A r \in Runs : Len(s.queues[r]) \in Nat
      BY <1>6 DEF QueuesOK
    <2>2. \A x : x \in Gov!WaitersIn(s.queues)
                    <=> \E r \in Runs : \E i \in 1..Len(s.queues[r]) : x = s.queues[r][i]
      BY <2>1, WaitersAre
    <2>3. ASSUME NEW r \in Runs, NEW x
          PROVE  (\E i \in 1..Len(s.queues[r]) : x = s.queues[r][i])
                    <=> x \notin G /\ \E i \in 1..Len(Q[r]) : x = Q[r][i]
      <3>1. PICK m \in 0..Len(Q[r]) :
               /\ Len(s.queues[r]) = Len(Q[r]) - m
               /\ \A i \in 1..Len(s.queues[r]) : s.queues[r][i] = Q[r][m + i]
               /\ \A j \in 1..Len(Q[r]) : Q[r][j] \in G <=> j <= m
        BY <1>6 DEF Behind
      <3>0. Len(Q[r]) \in Nat /\ Len(s.queues[r]) \in Nat
        BY <1>1, <2>1
      <3>2. ASSUME NEW i \in 1..Len(s.queues[r]), x = s.queues[r][i]
            PROVE  x \notin G /\ \E j \in 1..Len(Q[r]) : x = Q[r][j]
        <4>1. m + i \in 1..Len(Q[r]) /\ ~(m + i <= m) /\ x = Q[r][m + i]
          <5> DEFINE a == Len(Q[r])
                     b == Len(s.queues[r])
          <5>1. a \in Nat /\ b \in Nat /\ m \in 0..a /\ b = a - m /\ i \in 1..b
            BY <3>0, <3>1
          <5>2. x = Q[r][m + i]
            BY <3>1, <3>2
          <5> HIDE DEF a, b
          <5>3. m + i \in 1..a /\ ~(m + i <= m)
            BY <5>1
          <5> QED
            BY <5>2, <5>3 DEF a
        <4> QED
          BY <3>1, <4>1
      <3>3. ASSUME NEW j \in 1..Len(Q[r]), x = Q[r][j], x \notin G
            PROVE  \E i \in 1..Len(s.queues[r]) : x = s.queues[r][i]
        <4>1. j - m \in 1..Len(s.queues[r]) /\ m + (j - m) = j
          BY <3>0, <3>1, <3>3
        <4> QED
          BY <3>1, <3>3, <4>1
      <3> QED
        BY <3>2, <3>3
    <2>4. \A x : x \in Gov!WaitersIn(s.queues) <=> x \in W /\ x \notin G
      BY <1>1, <2>2, <2>3
    <2> QED
      BY <2>4
  <1>9. k = Room(o, n)
    <2>1. o.inFlight \in Nat /\ o.cap \in Nat
      BY <1>2, ControllerAssumption DEF Controller
    <2>2. /\ s.ctl.inFlight = o.inFlight + k /\ s.ctl.cap = o.cap /\ s.ctl.cooldown = o.cooldown
      BY <1>2, <1>6 DEF Controller
    <2>3. s.order = <<>> => k = n
      <3> SUFFICES ASSUME s.order = <<>> PROVE k = n
        OBVIOUS
      <3>1. \A r \in Runs : s.queues[r] = <<>>
        BY <1>6 DEF QueuesOK, Has
      <3>2. s.queues \in [Runs -> Seq(Clients)]
        BY <1>6 DEF QueuesOK
      <3>3. \A r \in Runs : Len(s.queues[r]) = 0
        BY <3>1
      <3>4. \A x : x \notin Gov!WaitersIn(s.queues)
        BY <3>2, <3>3, WaitersAre
      <3>5. W \ G = {}
        BY <1>8, <3>4
      <3>6. Cardinality(W \ G) = 0
        BY <3>5, FS_EmptySet
      <3> HIDE DEF k, G
      <3> QED
        BY <1>1, <1>7, <3>6
    <2> HIDE DEF k
    <2>4. CASE ~CanAdmit(o)
      BY <1>6, <1>7, <2>4 DEF Room
    <2>5. CASE CanAdmit(o) /\ k = n
      BY <1>1, <1>6, <1>7, <2>1, <2>5 DEF Room, CanAdmit
    <2>6. CASE CanAdmit(o) /\ k # n
      <3>1. ~CanAdmit(s.ctl)
        BY <1>1, <1>6, <1>7, <2>3, <2>6
      <3>2. o.inFlight + k >= o.cap
        BY <1>7, <2>1, <2>2, <2>6, <3>1 DEF CanAdmit
      <3>3. o.inFlight + k = o.cap
        BY <1>6, <1>7, <2>1, <2>6, <3>2 DEF CanAdmit
      <3> QED
        BY <1>1, <1>7, <2>1, <2>6, <3>3 DEF Room
    <2> QED
      BY <2>4, <2>5, <2>6
  <1>10. Waiting(s.ctl, n - k) = Served(o, k, n)
    <2> DEFINE c == s.ctl
    <2>0. c = [o EXCEPT !.inFlight = o.inFlight + k, !.age = IF k = 0 THEN o.age ELSE 0]
      BY <1>6
    <2> HIDE DEF k, c
    <2>1. Observe(c) = c
      <3>1. CASE k = 0
        <4>1. o.inFlight + k = o.inFlight /\ (IF k = 0 THEN o.age ELSE 0) = o.age
          BY <1>2, <3>1 DEF Controller
        <4>2. c = [o EXCEPT !.inFlight = o.inFlight, !.age = o.age]
          BY <2>0, <4>1
        <4>3. c = o
          BY <1>2, <4>2 DEF Controller
        <4> QED
          BY <1>2, <4>3
      <3>2. CASE k # 0
        <4>1. c.age = 0
          BY <1>2, <2>0, <3>2 DEF Controller
        <4> QED
          BY <4>1, ControllerAssumption DEF Observe, Idle
      <3> QED
        BY <3>1, <3>2
    <2>2. Waiting(c, n - k) = [c EXCEPT !.waiters = n - k]
      BY <2>1 DEF Waiting
    <2>3. Served(o, k, n) = [o EXCEPT !.inFlight = o.inFlight + k,
                                      !.age = IF k = 0 THEN o.age ELSE 0, !.waiters = n - k]
      BY DEF Served
    <2>4. \A a, b, w : [[o EXCEPT !.inFlight = a, !.age = b] EXCEPT !.waiters = w]
                       = [o EXCEPT !.inFlight = a, !.age = b, !.waiters = w]
      BY <1>2 DEF Controller
    <2> QED
      BY <2>0, <2>2, <2>3, <2>4 DEF c
  <1>11. s.ctl.cap = o.cap
    BY <1>2, <1>6 DEF Controller
  <1>12. ASSUME NEW r \in Runs, NEW i \in 1..Len(Q[r]), NEW j \in 1..Len(Q[r]), i < j, Q[r][j] \in G
         PROVE  Q[r][i] \in G
    <2>1. PICK m \in 0..Len(Q[r]) : \A a \in 1..Len(Q[r]) : Q[r][a] \in G <=> a <= m
      BY <1>6 DEF Behind
    <2> QED
      BY <1>1, <1>12, <2>1
  <1>13. G \in Choices(d, W)
    BY <1>6, <1>9 DEF Choices, o, n
  <1>14. /\ ctl' = Served(o, k, n) /\ queues' = s.queues /\ order' = s.order /\ last' = s.last
         /\ tickets' = T \cup G /\ current' = F \cup G
         /\ issuedAt' = [c \in Slots |-> IF c \in G THEN o.cap
                                         ELSE IF c \in T THEN issuedAt[c] ELSE 0]
         /\ wake' = Alarm(ctl', W \ G)
    BY <1>5, <1>7, <1>8, <1>10, <1>11 DEF LeftBy
  <1> HIDE DEF G
  <1> QED
    BY <1>6, <1>8, <1>12, <1>13, <1>14 DEF W, n, o, Serves

-----------------------------------------------------------------------------
(* The steps of the governor. *)

\* The queues are kept well and nobody waits who has a ticket.
GovInv ==
    /\ ctl \in Controller
    /\ QueuesOK(queues, order)
    /\ tickets \in SUBSET Slots
    /\ Gov!Waiters \cap tickets = {}
    /\ last \in Runs \cup {MainAgent, None}

\* What FifoWithinRun and RunsAlternate say of a step.
FifoLaw ==
    \A r \in Runs : \A i, j \in DOMAIN queues[r] :
        i < j /\ queues[r][j] \in tickets' => queues[r][i] \in tickets'

RotationLaw ==
    \A c \in Gov!Waiters : tickets' \ tickets = {c} /\ last = RunOf[c]
        => \A r \in Runs \ {last} : queues[r] = <<>>

\* The invariant again, a step of the gate or none, and the two laws.
GovStep == GovInv' /\ (Gov!Gate!Next \/ UNCHANGED Gov!Gate!vars) /\ FifoLaw /\ RotationLaw

\* Somebody waits when some run is in the order.
LEMMA OrderTells ==
    ASSUME NEW Q, NEW ord, QueuesOK(Q, ord)
    PROVE  ord = <<>> <=> Gov!WaitersIn(Q) = {}
  <1>1. Q \in [Runs -> Seq(Clients)] /\ ord \in Seq(Runs)
    BY DEF QueuesOK
  <1>2. ASSUME ord = <<>> PROVE Gov!WaitersIn(Q) = {}
    <2>1. \A r \in Runs : Q[r] = <<>>
      BY <1>2 DEF QueuesOK, Has
    <2>2. \A r \in Runs : Len(Q[r]) = 0
      BY <2>1
    <2>3. \A x : x \notin Gov!WaitersIn(Q)
      BY <1>1, <2>2, WaitersAre
    <2> QED
      BY <2>3
  <1>3. ASSUME ord # <<>> PROVE Gov!WaitersIn(Q) # {}
    <2>1. Len(ord) \in Nat \ {0} /\ ord[1] \in Runs
      BY <1>1, <1>3
    <2>2. Has(ord, ord[1])
      BY <2>1 DEF Has
    <2>3. Q[ord[1]] # <<>> /\ Q[ord[1]] \in Seq(Clients)
      BY <1>1, <2>1, <2>2 DEF QueuesOK
    <2>4. 1 \in 1..Len(Q[ord[1]])
      BY <2>3
    <2>5. Q[ord[1]][1] \in Gov!WaitersIn(Q)
      BY <1>1, <2>1, <2>4, WaitersAre
    <2> QED
      BY <2>5
  <1> QED
    BY <1>2, <1>3

\* Serving keeps the controller's ranges.
LEMMA ServedKeepsRanges ==
    ASSUME NEW o \in Controller, NEW g \in Nat, NEW n \in Nat, g <= n
    PROVE  Served(o, g, n) \in Controller
  <1> DEFINE age == IF g = 0 THEN o.age ELSE 0
  <1>1. age \in Opt(0..IdleWindow)
    <2>1. 0 \in Opt(0..IdleWindow)
      BY OptFacts, ControllerAssumption
    <2> QED
      BY <2>1 DEF Controller
  <1>2. o.inFlight + g \in Nat /\ n - g \in Nat
    BY DEF Controller
  <1>3. Served(o, g, n) = [o EXCEPT !.inFlight = o.inFlight + g, !.age = age, !.waiters = n - g]
    BY DEF Served
  <1> HIDE DEF age
  <1> QED
    BY <1>1, <1>2, <1>3 DEF Controller

\* A drain whose caller has at most added waiters behind the others.
LEMMA DrainStep ==
    ASSUME GovInv, NEW d \in Controller, NEW Q, NEW ord, QueuesOK(Q, ord),
           \A r \in Runs : \A i \in 1..Len(queues[r]) :
               i \in 1..Len(Q[r]) /\ Q[r][i] = queues[r][i],
           Gov!WaitersIn(Q) \cap tickets = {},
           NEW T \in SUBSET tickets, NEW F, Gov!Drain(d, Q, ord, T, F)
    PROVE  /\ GovInv' /\ FifoLaw /\ RotationLaw
           /\ \E G \in Choices(d, Gov!WaitersIn(Q)) :
                Gov!Gate!Drain(d, Gov!WaitersIn(Q), T, F, G)
  <1> DEFINE W == Gov!WaitersIn(Q)
  <1>0. PICK G \in Choices(d, W) : Serves(G, d, Q, ord, T, F)
    BY DrainServes
  <1>1. /\ ctl' = Served(Observe(d), Cardinality(G), Cardinality(W))
        /\ Gov!WaitersIn(queues') = W \ G
        /\ tickets' = T \cup G
        /\ current' = F \cup G
        /\ issuedAt' = [c \in Slots |-> IF c \in G THEN Observe(d).cap
                                             ELSE IF c \in T THEN issuedAt[c] ELSE 0]
        /\ wake' = Alarm(ctl', W \ G)
        /\ QueuesOK(queues', order') /\ last' \in Runs \cup {last}
        /\ \A r \in Runs : \A i, j \in 1..Len(Q[r]) : i < j /\ Q[r][j] \in G => Q[r][i] \in G
        /\ G # {} => Q[Gov!NextRun(ord, last)][1] \in G
    BY <1>0 DEF Serves, W
  <1> HIDE DEF W
  <1>2. /\ Q \in [Runs -> Seq(Clients)] /\ queues \in [Runs -> Seq(Clients)]
        /\ W \in SUBSET Clients /\ Cardinality(W) \in Nat /\ IsFiniteSet(W)
        /\ G \in SUBSET W /\ G \cap tickets = {}
    BY <1>1, WaitersAre DEF W, QueuesOK, GovInv, Choices
  <1>3. Cardinality(G) \in Nat /\ Cardinality(G) <= Cardinality(W)
    BY <1>2, FS_Subset, FS_CardinalityType
  <1>4. GovInv'
    <2>1. ctl' \in Controller
      BY <1>1, <1>2, <1>3, ObserveFacts, ServedKeepsRanges
    <2>2. tickets' \in SUBSET Slots
      BY <1>1, <1>2 DEF GovInv, Slots
    <2>3. Gov!Waiters' \cap tickets' = {}
      <3>1. Gov!Waiters' = W \ G
        BY <1>1 DEF Gov!Waiters, Gov!WaitersIn
      <3>2. W \cap tickets = {}
        BY DEF W
      <3> QED
        BY <1>1, <3>1, <3>2
    <2>4. last' \in Runs \cup {MainAgent, None}
      BY <1>1 DEF GovInv
    <2>5. QueuesOK(queues', order')
      BY <1>1
    <2> QED
      BY <2>1, <2>2, <2>3, <2>4, <2>5 DEF GovInv, QueuesOK
  <1>5. FifoLaw
    <2> SUFFICES ASSUME NEW r \in Runs, NEW i \in DOMAIN queues[r], NEW j \in DOMAIN queues[r],
                        i < j, queues[r][j] \in tickets'
                 PROVE  queues[r][i] \in tickets'
      BY DEF FifoLaw
    <2>1. i \in 1..Len(queues[r]) /\ j \in 1..Len(queues[r])
      BY <1>2
    <2>2. queues[r][j] \in Gov!Waiters
      BY <1>2, <2>1, WaitersAre DEF Gov!Waiters
    <2>3. queues[r][j] \in G
      BY <1>1, <2>2 DEF GovInv
    <2>4. Q[r][i] \in G
      BY <1>1, <2>1, <2>3
    <2> QED
      BY <1>1, <2>1, <2>4
  <1>6. RotationLaw
    <2> SUFFICES ASSUME NEW c \in Gov!Waiters, tickets' \ tickets = {c}, last = RunOf[c],
                        NEW r \in Runs \ {last}, queues[r] # <<>>
                 PROVE  FALSE
      BY DEF RotationLaw
    <2> DEFINE p == Gov!NextRun(ord, last)
    <2>1. G = {c}
      BY <1>1, <1>2
    <2>2. ord # <<>>
      BY <1>2, <2>1, OrderTells DEF W
    <2>3. p \in Runs /\ Q[p] # <<>> /\ \A q \in Runs : Q[q] # <<>> /\ q # last => p # last
      BY <2>2, NextRunFacts
    <2>4. Q[p][1] = c
      BY <1>1, <2>1
    <2> HIDE DEF p
    <2>5. Q[p] \in Seq(Clients) /\ 1 \in 1..Len(Q[p])
      BY <1>2, <2>3
    <2>6. RunOf[c] = p
      BY <2>3, <2>4, <2>5 DEF QueuesOK
    <2>7. Q[r] # <<>>
      <3>1. queues[r] \in Seq(Clients)
        BY <1>2
      <3>2. 1 \in 1..Len(queues[r])
        BY <3>1
      <3>3. 1 \in 1..Len(Q[r])
        BY <3>2
      <3> QED
        BY <3>3
    <2> QED
      BY <2>3, <2>6, <2>7
  <1>7. Gov!Gate!Drain(d, W, T, F, G)
    <2>1. /\ Gov!Gate!Observe(d) = Observe(d)
          /\ Gov!Gate!Served(Observe(d), Cardinality(G), Cardinality(W))
                = Served(Observe(d), Cardinality(G), Cardinality(W))
          /\ Gov!Gate!Alarm(ctl', W \ G) = Alarm(ctl', W \ G)
          /\ Gov!Gate!Cardinality(G) = Cardinality(G) /\ Gov!Gate!Cardinality(W) = Cardinality(W)
      BY SameController, SameCount
    <2>2. Gov!Waiters' = W \ G
      BY <1>1 DEF Gov!Waiters, Gov!WaitersIn
    <2>3. Gov!Gate!Slots = Slots
      BY DEF Gov!Gate!Slots, Slots
    <2> QED
      BY <1>1, <2>1, <2>2, <2>3 DEF Gov!Gate!Drain
  <1> QED
    BY <1>1, <1>4, <1>5, <1>6, <1>7 DEF W

-----------------------------------------------------------------------------
(* One lemma per handler of the governor. *)

\* It chooses among the sets the gate chooses among.
LEMMA SameChoices == \A d, W : Gov!Gate!Choices(d, W) = Choices(d, W)
  BY SameController, SameCount DEF Gov!Gate!Choices, Choices

\* The two laws say nothing of a step that grants no waiter.
LEMMA NoWaiterServed ==
    ASSUME GovInv, Gov!Waiters \cap tickets' = {}
    PROVE  FifoLaw /\ RotationLaw
  <1>1. queues \in [Runs -> Seq(Clients)]
    BY DEF GovInv, QueuesOK
  <1>2. FifoLaw
    <2> SUFFICES ASSUME NEW r \in Runs, NEW j \in DOMAIN queues[r], queues[r][j] \in tickets'
                 PROVE  FALSE
      BY DEF FifoLaw
    <2>1. j \in 1..Len(queues[r])
      BY <1>1
    <2>2. queues[r][j] \in Gov!Waiters
      BY <1>1, <2>1, WaitersAre DEF Gov!Waiters
    <2> QED
      BY <2>2
  <1>3. RotationLaw
    BY DEF RotationLaw
  <1> QED
    BY <1>2, <1>3

\* A step that leaves the queues alone and grants no waiter.
LEMMA QuietStep ==
    ASSUME GovInv, ctl' \in Controller, queues' = queues, order' = order,
           last' \in Runs \cup {MainAgent, None}, tickets' \in SUBSET Slots,
           Gov!Waiters \cap tickets' = {}
    PROVE  GovInv' /\ FifoLaw /\ RotationLaw /\ Gov!Waiters' = Gov!Waiters
  <1>1. Gov!Waiters' = Gov!Waiters
    BY DEF Gov!Waiters, Gov!WaitersIn
  <1>2. QueuesOK(queues', order')
    BY DEF GovInv
  <1>3. GovInv'
    BY <1>1, <1>2 DEF GovInv, QueuesOK
  <1> QED
    BY <1>1, <1>3, NoWaiterServed

\* An admission keeps the controller's ranges.
LEMMA AdmittedKeepsRanges ==
    ASSUME NEW o \in Controller
    PROVE  Admitted(o) \in Controller
  <1>1. 0 \in Opt(0..IdleWindow)
    BY OptFacts, ControllerAssumption
  <1>2. o.inFlight + 1 \in Nat
    BY DEF Controller
  <1>3. Admitted(o) = [o EXCEPT !.inFlight = o.inFlight + 1, !.age = 0]
    BY DEF Admitted
  <1> QED
    BY <1>1, <1>2, <1>3 DEF Controller

\* A grant outside the drain loop is the gate's.
LEMMA GrantIsGates ==
    ASSUME GovInv, NEW c \in Slots, c \notin Gov!Waiters, NEW run \in Runs \cup {MainAgent},
           Gov!Grant(c, run)
    PROVE  GovInv' /\ FifoLaw /\ RotationLaw /\ Gov!Gate!Grant(c)
  <1> DEFINE o == Observe(ctl)
  <1>1. /\ ctl' = Admitted(o)
        /\ tickets' = tickets \cup {c}
        /\ current' = current \cup {c}
        /\ issuedAt' = [issuedAt EXCEPT ![c] = o.cap]
        /\ last' = run
        /\ UNCHANGED <<queues, order, wake>>
    BY SameController DEF Gov!Grant
  <1>2. ctl' \in Controller
    BY <1>1, ObserveFacts, AdmittedKeepsRanges DEF GovInv
  <1>3. tickets' \in SUBSET Slots /\ Gov!Waiters \cap tickets' = {}
    BY <1>1 DEF GovInv
  <1>4. GovInv' /\ FifoLaw /\ RotationLaw /\ Gov!Waiters' = Gov!Waiters
    BY <1>1, <1>2, <1>3, QuietStep
  <1>5. Gov!Gate!Grant(c)
    BY <1>1, <1>4, SameController DEF Gov!Gate!Grant
  <1> QED
    BY <1>4, <1>5

\* Nobody waits exactly when the order of the runs is empty.
LEMMA OrderEmpty ==
    ASSUME GovInv
    PROVE  order = <<>> <=> Gov!Waiters = {}
  BY OrderTells DEF GovInv, Gov!Waiters

\* What a drain from controller d with queues Q comes to.
GovDrained(d, Q, T, F) ==
    /\ GovInv' /\ FifoLaw /\ RotationLaw
    /\ \E G \in Choices(d, Gov!WaitersIn(Q)) : Gov!Gate!Drain(d, Gov!WaitersIn(Q), T, F, G)

\* A drain of the queues as they are.
LEMMA DrainOfTheQueues ==
    ASSUME GovInv, NEW d \in Controller, NEW T \in SUBSET tickets, NEW F,
           Gov!Drain(d, queues, order, T, F)
    PROVE  GovDrained(d, queues, T, F)
  <1>1. QueuesOK(queues, order) /\ Gov!WaitersIn(queues) \cap tickets = {}
    BY DEF GovInv, Gov!Waiters
  <1>2. \A r \in Runs : \A i \in 1..Len(queues[r]) :
            i \in 1..Len(queues[r]) /\ queues[r][i] = queues[r][i]
    OBVIOUS
  <1> QED
    BY <1>1, <1>2, DrainStep DEF GovDrained

\* The clock keeps the controller's ranges.
LEMMA TickKeepsRanges ==
    ASSUME NEW d \in Controller
    PROVE  Elapse(d) \in Controller
  <1>1. FALSE \in BOOLEAN /\ None \in RetryAfters \cup {None}
    OBVIOUS
  <1> QED
    BY <1>1, SignalsKeepRanges

LEMMA GovFastPath ==
    ASSUME GovInv, Gov!GovernorAssumption, NEW c \in Clients, Gov!FastPath(c)
    PROVE  GovInv' /\ FifoLaw /\ RotationLaw /\ Gov!Gate!FastPath(c)
  <1>1. c \in Slots /\ RunOf[c] \in Runs
    BY DEF Slots, Gov!GovernorAssumption
  <1>2. /\ Gov!IsIdle(c) /\ order = <<>> /\ Gov!CanAdmit(Gov!Observe(ctl))
        /\ Gov!Grant(c, RunOf[c])
    BY DEF Gov!FastPath
  <1>3. c \notin Gov!Waiters /\ Gov!Gate!IsIdle(c)
    BY <1>2 DEF Gov!IsIdle, Gov!Gate!IsIdle
  <1>4. GovInv' /\ FifoLaw /\ RotationLaw /\ Gov!Gate!Grant(c)
    BY <1>1, <1>2, <1>3, GrantIsGates
  <1>5. Gov!Waiters = {}
    BY <1>2, OrderEmpty
  <1>6. Gov!Gate!CanAdmit(Gov!Gate!Observe(ctl))
    BY <1>2, SameController
  <1> QED
    BY <1>3, <1>4, <1>5, <1>6 DEF Gov!Gate!FastPath

LEMMA GovFastPathMiss ==
    ASSUME GovInv, NEW c \in Clients, Gov!FastPathMiss(c)
    PROVE  GovInv' /\ FifoLaw /\ RotationLaw /\ Gov!Gate!FastPathMiss(c)
  <1>1. /\ Gov!IsIdle(c) /\ (order # <<>> \/ ~Gov!CanAdmit(Gov!Observe(ctl)))
        /\ ctl' = Observe(ctl)
        /\ UNCHANGED <<tickets, current, issuedAt, wake, queues, order, last>>
    BY SameController DEF Gov!FastPathMiss
  <1>2. ctl' \in Controller
    BY <1>1, ObserveFacts DEF GovInv
  <1>3. GovInv' /\ FifoLaw /\ RotationLaw /\ Gov!Waiters' = Gov!Waiters
    BY <1>1, <1>2, QuietStep DEF GovInv
  <1>4. Gov!Gate!IsIdle(c)
    BY DEF Gov!FastPathMiss, Gov!IsIdle, Gov!Gate!IsIdle
  <1>5. Gov!Waiters # {} \/ ~Gov!Gate!CanAdmit(Gov!Gate!Observe(ctl))
    BY OrderEmpty, SameController DEF Gov!FastPathMiss
  <1> QED
    BY <1>1, <1>3, <1>4, <1>5, SameController DEF Gov!Gate!FastPathMiss

LEMMA GovObserverGrant ==
    ASSUME GovInv, NEW c \in Observers, Gov!ObserverGrant(c)
    PROVE  GovInv' /\ FifoLaw /\ RotationLaw /\ Gov!Gate!ObserverGrant(c)
  <1>1. c \notin tickets /\ Gov!Grant(c, MainAgent)
    BY DEF Gov!ObserverGrant
  <1>2. Gov!Waiters \in SUBSET Clients
    BY WaitersAre DEF GovInv, QueuesOK, Gov!Waiters
  <1>3. c \in Slots /\ c \notin Gov!Waiters
    BY <1>2, GateAssumption DEF Slots
  <1>4. GovInv' /\ FifoLaw /\ RotationLaw /\ Gov!Gate!Grant(c)
    BY <1>1, <1>3, GrantIsGates
  <1> QED
    BY <1>1, <1>4 DEF Gov!Gate!ObserverGrant

LEMMA GovTick ==
    ASSUME GovInv, Gov!Tick
    PROVE  GovInv' /\ FifoLaw /\ RotationLaw /\ Gov!Gate!Tick
  <1>1. /\ ctl' = Elapse(ctl) /\ wake' = CountDown(wake)
        /\ UNCHANGED <<tickets, current, issuedAt, queues, order, last>>
    BY SameController DEF Gov!Tick
  <1>2. ctl' \in Controller
    BY <1>1, TickKeepsRanges DEF GovInv
  <1>3. GovInv' /\ FifoLaw /\ RotationLaw /\ Gov!Waiters' = Gov!Waiters
    BY <1>1, <1>2, QuietStep DEF GovInv
  <1> QED
    BY <1>1, <1>3, SameController DEF Gov!Gate!Tick

LEMMA GovWakeUp ==
    ASSUME GovInv, Gov!WakeUp
    PROVE  /\ GovInv' /\ FifoLaw /\ RotationLaw
           /\ \E G \in Gov!Gate!Choices(ctl, Gov!Waiters) : Gov!Gate!WakeUp(G)
  <1>1. wake = 0 /\ Gov!Drain(ctl, queues, order, tickets, current)
    BY DEF Gov!WakeUp
  <1>2. GovDrained(ctl, queues, tickets, current)
    BY <1>1, DrainOfTheQueues DEF GovInv
  <1> QED
    BY <1>1, <1>2, SameChoices DEF GovDrained, Gov!Gate!WakeUp, Gov!Waiters

\* The queues Q with that of run r replaced by q, and the order by o.
Requeued(Q, r, q, o) ==
    /\ QueuesOK([Q EXCEPT ![r] = q], o)
    /\ \A x : x \in Gov!WaitersIn([Q EXCEPT ![r] = q])
                 <=> Has(q, x) \/ (x \in Gov!WaitersIn(Q) /\ ~Has(Q[r], x))

\* What a queue may be replaced by.
LEMMA Requeue ==
    ASSUME NEW Q, NEW ord, QueuesOK(Q, ord), NEW r \in Runs,
           NEW q \in Seq(Clients), \A i \in 1..Len(q) : RunOf[q[i]] = r, Distinct(q),
           NEW o \in Seq(Runs), Distinct(o),
           \A x \in Runs : Has(o, x) <=> (x = r /\ q # <<>>) \/ (x # r /\ Has(ord, x))
    PROVE  Requeued(Q, r, q, o)
  <1> DEFINE Z == [Q EXCEPT ![r] = q]
  <1>1. Q \in [Runs -> Seq(Clients)]
    BY DEF QueuesOK
  <1>2. Z \in [Runs -> Seq(Clients)] /\ Z[r] = q /\ \A x \in Runs : x # r => Z[x] = Q[x]
    BY <1>1
  <1> HIDE DEF Z
  <1>3. QueuesOK(Z, o)
    <2>1. \A x \in Runs : \A i \in 1..Len(Z[x]) : RunOf[Z[x][i]] = x
      BY <1>2 DEF QueuesOK
    <2>2. \A x \in Runs : Distinct(Z[x])
      BY <1>2 DEF QueuesOK
    <2>3. \A x \in Runs : Has(o, x) <=> Z[x] # <<>>
      BY <1>2 DEF QueuesOK
    <2> QED
      BY <1>2, <2>1, <2>2, <2>3 DEF QueuesOK
  <1>4. ASSUME NEW x
        PROVE  x \in Gov!WaitersIn(Z)
                    => Has(q, x) \/ (x \in Gov!WaitersIn(Q) /\ ~Has(Q[r], x))
    <2> SUFFICES ASSUME NEW s \in Runs, NEW i \in 1..Len(Z[s]), x = Z[s][i], ~Has(q, x)
                 PROVE  x \in Gov!WaitersIn(Q) /\ ~Has(Q[r], x)
      BY <1>2, WaitersAre
    <2>1. s # r
      BY <1>2 DEF Has
    <2>2. i \in 1..Len(Q[s]) /\ x = Q[s][i]
      BY <1>2, <2>1
    <2>3. x \in Gov!WaitersIn(Q)
      BY <1>1, <2>2, WaitersAre
    <2>4. RunOf[x] = s /\ (Has(Q[r], x) => RunOf[x] = r)
      BY <2>2 DEF Has, QueuesOK
    <2> QED
      BY <2>1, <2>3, <2>4
  <1>5. ASSUME NEW x, Has(q, x) PROVE x \in Gov!WaitersIn(Z)
    BY <1>2, <1>5, WaitersAre DEF Has
  <1>6. ASSUME NEW x PROVE x \in Gov!WaitersIn(Q) /\ ~Has(Q[r], x) => x \in Gov!WaitersIn(Z)
    <2>0. x \in Gov!WaitersIn(Q) => \E s \in Runs : \E i \in 1..Len(Q[s]) : x = Q[s][i]
      BY <1>1, WaitersAre, SMTT(30)
    <2> SUFFICES ASSUME NEW s \in Runs, NEW i \in 1..Len(Q[s]), x = Q[s][i], ~Has(Q[r], x)
                 PROVE  x \in Gov!WaitersIn(Z)
      BY <2>0
    <2>1. s # r
      BY DEF Has
    <2> QED
      BY <1>2, <2>1, WaitersAre
  <1> QED
    BY <1>3, <1>4, <1>5, <1>6 DEF Z, Requeued

\* A member behind all others.
LEMMA Appended ==
    ASSUME NEW S, NEW q \in Seq(S), Distinct(q), NEW e \in S, ~Has(q, e)
    PROVE  /\ Append(q, e) \in Seq(S) /\ Distinct(Append(q, e)) /\ Append(q, e) # <<>>
           /\ Len(Append(q, e)) = Len(q) + 1 /\ \A i \in 1..Len(q) : Append(q, e)[i] = q[i]
           /\ Append(q, e)[Len(q) + 1] = e
           /\ \A x : Has(Append(q, e), x) <=> x = e \/ Has(q, x)
  <1> DEFINE t == Append(q, e)
  <1>1. /\ t \in Seq(S) /\ Len(t) = Len(q) + 1 /\ \A i \in 1..Len(q) : t[i] = q[i]
        /\ t[Len(q) + 1] = e /\ t # <<>>
    OBVIOUS
  <1> HIDE DEF t
  <1>2. \A i \in 1..Len(t) : i \in 1..Len(q) \/ i = Len(q) + 1
    BY <1>1
  <1>3. Distinct(t)
    BY <1>1, <1>2 DEF Distinct, Has
  <1>4. \A x : Has(t, x) <=> x = e \/ Has(q, x)
    BY <1>1, <1>2 DEF Has
  <1> QED
    BY <1>1, <1>3, <1>4 DEF t

\* Queues Z in order o are the queues Q with c behind the others.
Enqueued(Q, c, Z, o) ==
    /\ QueuesOK(Z, o)
    /\ Gov!WaitersIn(Z) = Gov!WaitersIn(Q) \cup {c}
    /\ \A s \in Runs : \A i \in 1..Len(Q[s]) : i \in 1..Len(Z[s]) /\ Z[s][i] = Q[s][i]

\* A newcomer to the queue of its run.
LEMMA Enqueue ==
    ASSUME NEW Q, NEW ord, QueuesOK(Q, ord), NEW c \in Clients, c \notin Gov!WaitersIn(Q),
           NEW r \in Runs, r = RunOf[c],
           NEW o, o = IF Q[r] = <<>> THEN Append(ord, r) ELSE ord,
           NEW Z, Z = [Q EXCEPT ![r] = Append(Q[r], c)]
    PROVE  Enqueued(Q, c, Z, o)
  <1> DEFINE q == Append(Q[r], c)
  <1>1. Q \in [Runs -> Seq(Clients)] /\ Q[r] \in Seq(Clients) /\ Distinct(Q[r])
    BY DEF QueuesOK
  <1>2. ~Has(Q[r], c)
    BY <1>1, WaitersAre DEF Has
  <1>3. /\ q \in Seq(Clients) /\ Distinct(q) /\ q # <<>>
        /\ Len(q) = Len(Q[r]) + 1 /\ \A i \in 1..Len(Q[r]) : q[i] = Q[r][i]
        /\ q[Len(Q[r]) + 1] = c
        /\ \A x : Has(q, x) <=> x = c \/ Has(Q[r], x)
    BY <1>1, <1>2, Appended
  <1>4. Z = [Q EXCEPT ![r] = q]
    OBVIOUS
  <1> HIDE DEF q
  <1>5. \A i \in 1..Len(q) : RunOf[q[i]] = r
    <2> TAKE i \in 1..Len(q)
    <2>1. i \in 1..Len(Q[r]) \/ i = Len(Q[r]) + 1
      BY <1>1, <1>3
    <2>2. \A j \in 1..Len(Q[r]) : RunOf[Q[r][j]] = r
      BY DEF QueuesOK
    <2>3. CASE i \in 1..Len(Q[r])
      BY <1>3, <2>2, <2>3
    <2>4. CASE i = Len(Q[r]) + 1
      BY <1>3, <2>4
    <2> QED
      BY <2>1, <2>3, <2>4
  <1>6. /\ o \in Seq(Runs) /\ Distinct(o)
        /\ \A x \in Runs : Has(o, x) <=> (x = r /\ q # <<>>) \/ (x # r /\ Has(ord, x))
    <2>1. CASE Q[r] = <<>>
      <3>1. ord \in Seq(Runs) /\ Distinct(ord) /\ ~Has(ord, r) /\ o = Append(ord, r)
        BY <2>1 DEF QueuesOK
      <3>2. o \in Seq(Runs) /\ Distinct(o) /\ \A x : Has(o, x) <=> x = r \/ Has(ord, x)
        BY <3>1, Appended
      <3> QED
        BY <1>3, <3>2
    <2>2. CASE Q[r] # <<>>
      BY <1>3, <2>2 DEF QueuesOK
    <2> QED
      BY <2>1, <2>2
  <1>7. /\ QueuesOK(Z, o)
        /\ \A x : x \in Gov!WaitersIn(Z)
                        <=> Has(q, x) \/ (x \in Gov!WaitersIn(Q) /\ ~Has(Q[r], x))
    <2>1. Requeued(Q, r, q, o)
      BY <1>3, <1>5, <1>6, Requeue
    <2> QED
      BY <1>4, <2>1 DEF Requeued
  <1>8. \A x : Has(Q[r], x) => x \in Gov!WaitersIn(Q)
    BY <1>1, WaitersAre DEF Has
  <1>9. Gov!WaitersIn(Z) = Gov!WaitersIn(Q) \cup {c}
    <2> DEFINE W == Gov!WaitersIn(Z)
               V == Gov!WaitersIn(Q)
    <2>1. \A x : x \in W <=> Has(q, x) \/ (x \in V /\ ~Has(Q[r], x))
      BY <1>7
    <2>2. \A x : Has(Q[r], x) => x \in V
      BY <1>8
    <2> HIDE DEF W, V
    <2>3. \A x : x \in W <=> x \in V \cup {c}
      BY <1>3, <2>1, <2>2
    <2>4. W = V \cup {c}
      BY <2>3
    <2> QED
      BY <2>4 DEF W, V
  <1>10. ASSUME NEW s \in Runs, NEW i \in 1..Len(Q[s])
        PROVE  i \in 1..Len(Z[s]) /\ Z[s][i] = Q[s][i]
    <2>1. Z[s] = IF s = r THEN q ELSE Q[s]
      BY <1>1, <1>4
    <2>2. CASE s = r
      BY <1>1, <1>3, <2>1, <2>2
    <2>3. CASE s # r
      BY <2>1, <2>3
    <2> QED
      BY <2>2, <2>3
  <1> QED
    BY <1>7, <1>9, <1>10 DEF Enqueued

\* A waiter taken out of the queue of its run.
LEMMA Dequeue ==
    ASSUME NEW Q, NEW ord, QueuesOK(Q, ord), NEW c \in Gov!WaitersIn(Q), NEW r, r = RunOf[c],
           NEW q, q = Gov!RemoveFirst(Q[r], c),
           NEW o, o = IF q = <<>> THEN Gov!RemoveFirst(ord, r) ELSE ord
    PROVE  /\ r \in Runs /\ QueuesOK([Q EXCEPT ![r] = q], o)
           /\ Gov!WaitersIn([Q EXCEPT ![r] = q]) = Gov!WaitersIn(Q) \ {c}
  <1>1. Q \in [Runs -> Seq(Clients)]
    BY DEF QueuesOK
  <1>2. PICK s \in Runs : Has(Q[s], c)
    BY <1>1, WaitersAre DEF Has
  <1>3. s = r
    BY <1>2 DEF Has, QueuesOK
  <1>4. r \in Runs /\ Has(Q[r], c) /\ Q[r] \in Seq(Clients) /\ Distinct(Q[r])
    BY <1>2, <1>3 DEF QueuesOK
  <1>5. q \in Seq(Clients) /\ Distinct(q) /\ \A x : Has(q, x) <=> x # c /\ Has(Q[r], x)
    BY <1>4, Removal
  <1>6. \A i \in 1..Len(q) : RunOf[q[i]] = r
    <2> TAKE i \in 1..Len(q)
    <2>1. Has(q, q[i])
      BY DEF Has
    <2>2. Has(Q[r], q[i])
      BY <1>5, <2>1
    <2> QED
      BY <1>4, <2>2 DEF Has, QueuesOK
  <1>7. ord \in Seq(Runs) /\ Distinct(ord) /\ Has(ord, r)
    <2>1. Q[r] # <<>>
      BY <1>4 DEF Has
    <2> QED
      BY <1>4, <2>1 DEF QueuesOK
  <1>8. /\ o \in Seq(Runs) /\ Distinct(o)
        /\ \A x \in Runs : Has(o, x) <=> (x = r /\ q # <<>>) \/ (x # r /\ Has(ord, x))
    <2>1. CASE q = <<>>
      <3>1. /\ o \in Seq(Runs) /\ Distinct(o) /\ \A x : Has(o, x) <=> x # r /\ Has(ord, x)
        BY <1>7, <2>1, Removal
      <3> QED
        BY <2>1, <3>1
    <2>2. CASE q # <<>>
      BY <1>7, <2>2
    <2> QED
      BY <2>1, <2>2
  <1>9. /\ QueuesOK([Q EXCEPT ![r] = q], o)
        /\ \A x : x \in Gov!WaitersIn([Q EXCEPT ![r] = q])
                        <=> Has(q, x) \/ (x \in Gov!WaitersIn(Q) /\ ~Has(Q[r], x))
    <2>1. Requeued(Q, r, q, o)
      BY <1>4, <1>5, <1>6, <1>8, Requeue
    <2> QED
      BY <2>1 DEF Requeued
  <1>10. \A x : Has(Q[r], x) => x \in Gov!WaitersIn(Q)
    BY <1>1, <1>4, WaitersAre DEF Has
  <1>11. Gov!WaitersIn([Q EXCEPT ![r] = q]) = Gov!WaitersIn(Q) \ {c}
    <2> DEFINE W == Gov!WaitersIn([Q EXCEPT ![r] = q])
               V == Gov!WaitersIn(Q)
    <2>1. \A x : x \in W <=> Has(q, x) \/ (x \in V /\ ~Has(Q[r], x))
      BY <1>9
    <2>2. \A x : Has(Q[r], x) => x \in V
      BY <1>10
    <2> HIDE DEF W, V
    <2>3. \A x : x \in W <=> x \in V \ {c}
      BY <1>4, <1>5, <2>1, <2>2
    <2>4. W = V \ {c}
      BY <2>3
    <2> QED
      BY <2>4 DEF W, V
  <1> QED
    BY <1>4, <1>9, <1>11

LEMMA GovAdmit ==
    ASSUME GovInv, Gov!GovernorAssumption, NEW c \in Clients, Gov!Admit(c)
    PROVE  /\ GovInv' /\ FifoLaw /\ RotationLaw
           /\ \E G \in Gov!Gate!Choices(ctl, Gov!Waiters \cup {c}) : Gov!Gate!Admit(c, G)
  <1> DEFINE r == RunOf[c]
             Q == [queues EXCEPT ![r] = Append(queues[r], c)]
             o == IF queues[r] = <<>> THEN Append(order, r) ELSE order
             W == Gov!WaitersIn(queues) \cup {c}
  <1>1. c \notin Gov!WaitersIn(queues) /\ c \notin tickets /\ Gov!Drain(ctl, Q, o, tickets, current)
    BY DEF Gov!Admit, Gov!IsIdle, Gov!Waiters
  <1>2. r \in Runs /\ QueuesOK(queues, order) /\ ctl \in Controller
    BY DEF Gov!GovernorAssumption, GovInv
  <1>3. /\ QueuesOK(Q, o) /\ Gov!WaitersIn(Q) = W
        /\ \A s \in Runs : \A i \in 1..Len(queues[s]) : i \in 1..Len(Q[s]) /\ Q[s][i] = queues[s][i]
    <2>1. o = IF queues[r] = <<>> THEN Append(order, r) ELSE order
      OBVIOUS
    <2>2. Q = [queues EXCEPT ![r] = Append(queues[r], c)]
      OBVIOUS
    <2>3. r = RunOf[c]
      OBVIOUS
    <2> HIDE DEF o, Q, r
    <2>4. Enqueued(queues, c, Q, o)
      BY <1>1, <1>2, <2>1, <2>2, <2>3, Enqueue
    <2> QED
      BY <2>4 DEF Enqueued
  <1>4. W \cap tickets = {}
    BY <1>1 DEF GovInv, Gov!Waiters
  <1>5. Gov!Gate!IsIdle(c)
    BY DEF Gov!Admit, Gov!IsIdle, Gov!Gate!IsIdle
  <1> HIDE DEF Q, o, W, r
  <1>6. /\ GovInv' /\ FifoLaw /\ RotationLaw
        /\ \E G \in Choices(ctl, Gov!WaitersIn(Q)) :
                Gov!Gate!Drain(ctl, Gov!WaitersIn(Q), tickets, current, G)
    BY <1>1, <1>2, <1>3, <1>4, DrainStep
  <1>7. PICK G \in Choices(ctl, W) : Gov!Gate!Drain(ctl, W, tickets, current, G)
    BY <1>3, <1>6
  <1>8. W = Gov!Waiters \cup {c}
    BY DEF W, Gov!Waiters
  <1>9. G \in Gov!Gate!Choices(ctl, Gov!Waiters \cup {c}) /\ Gov!Gate!Admit(c, G)
    BY <1>5, <1>7, <1>8, SameChoices DEF Gov!Gate!Admit
  <1> QED
    BY <1>6, <1>9

LEMMA GovAbort ==
    ASSUME GovInv, NEW c \in Clients, Gov!Abort(c)
    PROVE  GovInv' /\ FifoLaw /\ RotationLaw /\ Gov!Gate!Abort(c)
  <1> DEFINE r == RunOf[c]
             q == Gov!RemoveFirst(queues[r], c)
             o == IF q = <<>> THEN Gov!RemoveFirst(order, r) ELSE order
             W == Gov!WaitersIn(queues) \ {c}
  <1>1. c \in Gov!WaitersIn(queues) /\ c \in Abortable /\ QueuesOK(queues, order)
    BY DEF Gov!Abort, Gov!Waiters, GovInv
  <1>2. r \in Runs /\ QueuesOK([queues EXCEPT ![r] = q], o)
    BY <1>1, Dequeue
  <1>3. Gov!WaitersIn([queues EXCEPT ![r] = q]) = W
    BY <1>1, Dequeue
  <1>4. queues' = [queues EXCEPT ![r] = q]
    BY DEF Gov!Abort
  <1>5. queues'[r] = q
    BY <1>1, <1>2, <1>4 DEF QueuesOK
  <1>6. order' = o
    BY <1>5 DEF Gov!Abort
  <1>7. Gov!Waiters' = W
    BY <1>3, <1>4 DEF Gov!Waiters, Gov!WaitersIn
  <1>8. Gov!WaitersIn(queues') = W
    BY <1>3, <1>4
  <1>9. /\ ctl' = Waiting(ctl, Cardinality(W)) /\ wake' = Alarm(ctl', W)
        /\ UNCHANGED <<tickets, current, issuedAt, last>>
    BY <1>8, SameController, SameCount DEF Gov!Abort
  <1>10. queues \in [Runs -> Seq(Clients)]
    BY <1>1 DEF QueuesOK
  <1>11. W \in SUBSET Slots /\ W \cap tickets = {}
    BY <1>10, WaitersAre DEF GovInv, Gov!Waiters, Slots
  <1>12. Cardinality(W) \in Nat
    BY <1>11, SlotsFinite
  <1>13. ctl' \in Controller
    <2>1. FALSE \in BOOLEAN /\ None \in RetryAfters \cup {None} /\ ctl \in Controller
      BY DEF GovInv
    <2> HIDE DEF W
    <2> QED
      BY <1>9, <1>12, <2>1, SignalsKeepRanges
  <1>14. GovInv'
    <2>1. QueuesOK(queues', order')
      BY <1>2, <1>4, <1>6
    <2>2. Gov!Waiters' \cap tickets' = {}
      BY <1>7, <1>9, <1>11
    <2> QED
      BY <1>9, <1>13, <2>1, <2>2 DEF GovInv, QueuesOK
  <1>15. FifoLaw /\ RotationLaw
    <2>1. Gov!Waiters \cap tickets' = {}
      BY <1>9 DEF GovInv
    <2> QED
      BY <2>1, NoWaiterServed
  <1>16. Gov!Gate!Abort(c)
    <2>1. c \in Gov!Waiters \cap Abortable /\ W = Gov!Waiters \ {c}
      BY <1>1 DEF Gov!Waiters
    <2> HIDE DEF W
    <2>2. /\ ctl' = Gov!Gate!Waiting(ctl, Gov!Gate!Cardinality(Gov!Waiters'))
          /\ wake' = Gov!Gate!Alarm(ctl', Gov!Waiters')
      BY <1>7, <1>9, SameController, SameCount
    <2> QED
      BY <1>7, <1>9, <2>1, <2>2 DEF Gov!Gate!Abort
  <1> QED
    BY <1>14, <1>15, <1>16

\* A settlement that has turned the controller into d.
LEMMA GovSettle ==
    ASSUME GovInv, NEW c, NEW d \in Controller, NEW F, Gov!Settle(c, d, F)
    PROVE  /\ GovInv' /\ FifoLaw /\ RotationLaw /\ c \in tickets
           /\ \E G \in Gov!Gate!Choices(d, Gov!Waiters) : Gov!Gate!Settle(c, d, F, G)
  <1>1. c \in tickets /\ Gov!Drain(d, queues, order, tickets \ {c}, F \ {c})
    BY DEF Gov!Settle
  <1>2. tickets \ {c} \in SUBSET tickets
    OBVIOUS
  <1>3. GovDrained(d, queues, tickets \ {c}, F \ {c})
    BY <1>1, <1>2, DrainOfTheQueues
  <1> QED
    BY <1>1, <1>3, SameChoices DEF GovDrained, Gov!Gate!Settle, Gov!Waiters

LEMMA GovSettleSome ==
    ASSUME GovInv, NEW c, Gov!SettleSome(c)
    PROVE  GovInv' /\ FifoLaw /\ RotationLaw /\ c \in tickets /\ Gov!Gate!SettleSome(c)
  <1> DEFINE b == c \in current
             F == Gov!AfterVerdict(c)
  <1>1. b \in BOOLEAN /\ F = Gov!Gate!AfterVerdict(c) /\ ctl \in Controller
    BY DEF Gov!AfterVerdict, Gov!Gate!AfterVerdict, GovInv
  <1>2. /\ Gov!Succeed(c) <=> Gov!Settle(c, Gov!Succeeded(ctl, b), current)
        /\ Gov!EndAttempt(c) <=> Gov!Settle(c, Gov!Ended(ctl), current)
        /\ Gov!FailAttempt(c) <=> Gov!Settle(c, Gov!FailedTransient(ctl), current)
        /\ \A ra : Gov!Throttle(c, ra) <=> Gov!Settle(c, Gov!Throttled(ctl, b, ra), F)
    BY DEF Gov!Succeed, Gov!EndAttempt, Gov!FailAttempt, Gov!Throttle
  <1>3. /\ Gov!Gate!Success(c) = Gov!Gate!Succeeded(ctl, b)
        /\ \A ra : Gov!Gate!Throttle(c, ra) = Gov!Gate!Throttled(ctl, b, ra)
    BY DEF Gov!Gate!Success, Gov!Gate!Throttle
  <1> HIDE DEF b, F
  <1>4. CASE Gov!Succeed(c)
    <2>1. None \in RetryAfters \cup {None}
      OBVIOUS
    <2>2. Succeeded(ctl, b) \in Controller
      BY <1>1, <2>1, SignalsKeepRanges
    <2>3. Gov!Settle(c, Succeeded(ctl, b), current) /\ Gov!Gate!Success(c) = Succeeded(ctl, b)
      BY <1>2, <1>3, <1>4, SameSignals
    <2>4. /\ GovInv' /\ FifoLaw /\ RotationLaw /\ c \in tickets
          /\ \E G \in Gov!Gate!Choices(Succeeded(ctl, b), Gov!Waiters) :
                Gov!Gate!Settle(c, Succeeded(ctl, b), current, G)
      BY <2>2, <2>3, GovSettle
    <2> QED
      BY <2>3, <2>4 DEF Gov!Gate!SettleSome
  <1>5. CASE Gov!EndAttempt(c)
    <2>1. None \in RetryAfters \cup {None}
      OBVIOUS
    <2>2. Ended(ctl) \in Controller
      BY <1>1, <2>1, SignalsKeepRanges
    <2>3. Gov!Settle(c, Ended(ctl), current) /\ Gov!Gate!Ended(ctl) = Ended(ctl)
      BY <1>2, <1>5, SameSignals
    <2>4. /\ GovInv' /\ FifoLaw /\ RotationLaw /\ c \in tickets
          /\ \E G \in Gov!Gate!Choices(Ended(ctl), Gov!Waiters) :
                Gov!Gate!Settle(c, Ended(ctl), current, G)
      BY <2>2, <2>3, GovSettle
    <2> QED
      BY <2>3, <2>4 DEF Gov!Gate!SettleSome
  <1>6. CASE Gov!FailAttempt(c)
    <2>1. None \in RetryAfters \cup {None}
      OBVIOUS
    <2>2. FailedTransient(ctl) \in Controller
      BY <1>1, <2>1, SignalsKeepRanges
    <2>3. /\ Gov!Settle(c, FailedTransient(ctl), current)
          /\ Gov!Gate!FailedTransient(ctl) = FailedTransient(ctl)
      BY <1>2, <1>6, SameSignals
    <2>4. /\ GovInv' /\ FifoLaw /\ RotationLaw /\ c \in tickets
          /\ \E G \in Gov!Gate!Choices(FailedTransient(ctl), Gov!Waiters) :
                Gov!Gate!Settle(c, FailedTransient(ctl), current, G)
      BY <2>2, <2>3, GovSettle
    <2> QED
      BY <2>3, <2>4 DEF Gov!Gate!SettleSome
  <1>7. ASSUME NEW ra \in RetryAfters \cup {None}, Gov!Throttle(c, ra)
        PROVE  GovInv' /\ FifoLaw /\ RotationLaw /\ c \in tickets /\ Gov!Gate!SettleSome(c)
    <2>1. ra \in RetryAfters \cup {None}
      BY <1>7
    <2>2. Throttled(ctl, b, ra) \in Controller
      BY <1>1, <2>1, SignalsKeepRanges
    <2>3. /\ Gov!Settle(c, Throttled(ctl, b, ra), F)
          /\ Gov!Gate!Throttle(c, ra) = Throttled(ctl, b, ra)
      BY <1>2, <1>3, <1>7, SameSignals
    <2>4. /\ GovInv' /\ FifoLaw /\ RotationLaw /\ c \in tickets
          /\ \E G \in Gov!Gate!Choices(Throttled(ctl, b, ra), Gov!Waiters) :
                Gov!Gate!Settle(c, Throttled(ctl, b, ra), F, G)
      BY <2>2, <2>3, GovSettle
    <2> QED
      BY <1>1, <2>1, <2>3, <2>4 DEF Gov!Gate!SettleSome
  <1> QED
    BY <1>4, <1>5, <1>6, <1>7 DEF Gov!SettleSome

\* Every step of the governor is one of the gate and keeps the two laws.
LEMMA GovNextSteps ==
    ASSUME GovInv, Gov!GovernorAssumption, Gov!Next
    PROVE  GovInv' /\ FifoLaw /\ RotationLaw /\ Gov!Gate!Next
  <1>1. ASSUME NEW c \in Clients, Gov!FastPath(c)
        PROVE  GovInv' /\ FifoLaw /\ RotationLaw /\ Gov!Gate!Next
    BY <1>1, GovFastPath DEF Gov!Gate!Next
  <1>2. ASSUME NEW c \in Clients, Gov!FastPathMiss(c)
        PROVE  GovInv' /\ FifoLaw /\ RotationLaw /\ Gov!Gate!Next
    BY <1>2, GovFastPathMiss DEF Gov!Gate!Next
  <1>3. ASSUME NEW c \in Clients, Gov!Admit(c)
        PROVE  GovInv' /\ FifoLaw /\ RotationLaw /\ Gov!Gate!Next
    BY <1>3, GovAdmit DEF Gov!Gate!Next
  <1>4. ASSUME NEW c \in Clients, Gov!Abort(c)
        PROVE  GovInv' /\ FifoLaw /\ RotationLaw /\ Gov!Gate!Next
    BY <1>4, GovAbort DEF Gov!Gate!Next
  <1>5. ASSUME NEW c \in Observers, Gov!ObserverGrant(c)
        PROVE  GovInv' /\ FifoLaw /\ RotationLaw /\ Gov!Gate!Next
    BY <1>5, GovObserverGrant DEF Gov!Gate!Next
  <1>6. ASSUME NEW c \in Slots, Gov!SettleSome(c)
        PROVE  GovInv' /\ FifoLaw /\ RotationLaw /\ Gov!Gate!Next
    BY <1>6, GovSettleSome DEF Gov!Gate!Next
  <1>7. CASE Gov!WakeUp
    BY <1>7, GovWakeUp DEF Gov!Gate!Next
  <1>8. CASE Gov!Tick
    BY <1>8, GovTick DEF Gov!Gate!Next
  <1>9. Gov!Slots = Slots
    BY DEF Gov!Slots, Slots
  <1> QED
    BY <1>1, <1>2, <1>3, <1>4, <1>5, <1>6, <1>7, <1>8, <1>9 DEF Gov!Next

\* Nor does standing still disturb anything.
LEMMA GovStands ==
    ASSUME GovInv, UNCHANGED Gov!vars
    PROVE  GovInv' /\ UNCHANGED Gov!Gate!vars
  <1>1. UNCHANGED <<ctl, tickets, current, issuedAt, wake, queues, order, last>>
    BY DEF Gov!vars
  <1>2. ctl' \in Controller /\ Gov!Waiters \cap tickets' = {} /\ tickets' \in SUBSET Slots
        /\ last' \in Runs \cup {MainAgent, None}
    BY <1>1 DEF GovInv
  <1>3. GovInv' /\ Gov!Waiters' = Gov!Waiters
    BY <1>1, <1>2, QuietStep
  <1> QED
    BY <1>1, <1>3 DEF Gov!Gate!vars

\* Where it begins.
LEMMA GovBegins ==
    ASSUME Gov!Init
    PROVE  GovInv /\ Gov!Gate!Init
  <1>1. /\ ctl = Gov!NewController /\ tickets = {} /\ current = {} /\ wake = None
        /\ issuedAt = [c \in Slots |-> 0]
        /\ queues = [r \in Runs |-> <<>>] /\ order = <<>> /\ last = None
    BY DEF Gov!Init, Gov!Slots, Slots
  <1>2. ctl = NewController /\ NewController = Gov!Gate!NewController /\ ctl \in Controller
    <2>1. ctl = NewController /\ NewController = Gov!Gate!NewController
      BY <1>1 DEF Gov!NewController, NewController, Gov!Gate!NewController
    <2>2. NewController \in Controller
      BY NoneIsOptional, ControllerAssumption DEF NewController, Controller, Larger
    <2> QED
      BY <2>1, <2>2
  <1>3. QueuesOK(queues, order)
    BY <1>1 DEF QueuesOK, Distinct, Has
  <1>4. Gov!Waiters = {}
    BY <1>1, <1>3, OrderTells DEF Gov!Waiters
  <1>5. GovInv
    BY <1>1, <1>2, <1>3, <1>4 DEF GovInv
  <1>6. Gov!Gate!Init
    BY <1>1, <1>2, <1>4 DEF Gov!Gate!Init, Gov!Gate!Slots, Slots
  <1> QED
    BY <1>5, <1>6

LEMMA GovAlways ==
    ASSUME Gov!GovernorAssumption
    PROVE  Gov!Spec => []GovInv
  <1>1. Gov!Init => GovInv
    BY GovBegins
  <1>2. GovInv /\ [Gov!Next]_(Gov!vars) => GovInv'
    BY GovNextSteps, GovStands
  <1> QED
    BY <1>1, <1>2, PTL DEF Gov!Spec

-----------------------------------------------------------------------------
(* What the runs of the governor check. *)

\* The governor implements the gate (drain, nextRunWithWaiters, onAbort): the
\* drain loop lets through as many waiters as the gate has room for, and every
\* handler feeds the controller and arms the timer as the gate's does.
THEOREM GovernorImplementsGate ==
    ASSUME Gov!GovernorAssumption
    PROVE  Gov!Spec => Gov!ImplementsGate
  <1>1. Gov!Init => Gov!Gate!Init
    BY GovBegins
  <1>2. GovInv /\ [Gov!Next]_(Gov!vars) => [Gov!Gate!Next]_(Gov!Gate!vars)
    BY GovNextSteps, GovStands
  <1> QED
    BY <1>1, <1>2, GovAlways, PTL DEF Gov!Spec, Gov!ImplementsGate, Gov!Gate!Spec

\* Within a run the drain loop serves in the order of arrival (nextRunWithWaiters
\* and the shift of its queue): who is let through leaves nobody before it.
THEOREM GovernorFifoWithinRun ==
    ASSUME Gov!GovernorAssumption
    PROVE  Gov!Spec => Gov!FifoWithinRun
  <1>1. GovInv /\ [Gov!Next]_(Gov!vars) => [FifoLaw]_(Gov!vars)
    BY GovNextSteps
  <1> QED
    BY <1>1, GovAlways, PTL DEF Gov!Spec, Gov!FifoWithinRun, FifoLaw

\* A large fan-out does not hold the cursor (nextRunWithWaiters): two grants in a
\* row go to one run only when no other run waits.
THEOREM GovernorRunsAlternate ==
    ASSUME Gov!GovernorAssumption
    PROVE  Gov!Spec => Gov!RunsAlternate
  <1>1. GovInv /\ [Gov!Next]_(Gov!vars) => [RotationLaw]_(Gov!vars)
    BY GovNextSteps
  <1> QED
    BY <1>1, GovAlways, PTL DEF Gov!Spec, Gov!RunsAlternate, RotationLaw

\* Queue bookkeeping (bucket.queues and its key order): every waiter is in the
\* queue of its own run, once, and the order names exactly the runs that wait.
THEOREM GovernorTypeCorrect ==
    ASSUME Gov!GovernorAssumption
    PROVE  Gov!Spec => []Gov!TypeOK
  <1>1. GovInv => Gov!TypeOK
    <2> SUFFICES ASSUME GovInv PROVE Gov!TypeOK
      OBVIOUS
    <2>1. Gov!Controller = Controller
      BY DEF Gov!Controller, Controller, Gov!Opt, Opt
    <2>2. QueuesOK(queues, order)
      BY DEF GovInv
    <2>3. ASSUME NEW r \in Runs
          PROVE  /\ Gov!IsInjective(queues[r])
                 /\ Gov!ToSet(queues[r]) \subseteq {c \in Clients : RunOf[c] = r}
      <3>1. /\ queues[r] \in Seq(Clients) /\ Distinct(queues[r])
            /\ \A i \in 1..Len(queues[r]) : RunOf[queues[r][i]] = r
        BY <2>2 DEF QueuesOK
      <3> QED
        BY <3>1 DEF Gov!IsInjective, Gov!ToSet, Distinct
    <2>4. Gov!IsInjective(order) /\ Gov!ToSet(order) = {r \in Runs : queues[r] # <<>>}
      <3>1. /\ order \in Seq(Runs) /\ Distinct(order)
            /\ \A r \in Runs : Has(order, r) <=> queues[r] # <<>>
        BY <2>2 DEF QueuesOK
      <3>2. \A x : x \in Gov!ToSet(order) <=> Has(order, x)
        BY <3>1 DEF Gov!ToSet, Has
      <3>3. \A x : Has(order, x) => x \in Runs
        BY <3>1 DEF Has
      <3>4. Gov!IsInjective(order)
        BY <3>1 DEF Gov!IsInjective, Distinct
      <3>5. \A x : x \in Gov!ToSet(order) <=> x \in {r \in Runs : queues[r] # <<>>}
        BY <3>1, <3>2, <3>3
      <3> QED
        BY <3>4, <3>5
    <2> QED
      BY <2>1, <2>3, <2>4 DEF Gov!TypeOK, GovInv
  <1> QED
    BY <1>1, GovAlways, PTL
=============================================================================
