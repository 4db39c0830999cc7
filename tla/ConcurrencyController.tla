------------------------ MODULE ConcurrencyController ------------------------
(***************************************************************************)
(* The AIMD state machine of one provider key                              *)
(* (dynamic-workflow/src/engine/concurrency.ts, ConcurrencyController), as *)
(* operators from a controller record and a signal to the next record.     *)
(*                                                                         *)
(* Time is relative: `age' is now - lastRequestAt, saturated at the idle   *)
(* window, and `cooldown' is what is left of cooldownUntil, 0 once it has  *)
(* passed (the field itself is cleared only by an idle reset, so an        *)
(* elapsed cooldown, 0, differs from no cooldown, None).                   *)
(*                                                                         *)
(* The epoch is the `isCurrent' argument: whether the ticket that carries  *)
(* the signal was admitted under the present epoch.  Whoever keeps the     *)
(* tickets forgets that they are current once a current one was throttled. *)
(***************************************************************************)
EXTENDS Integers

CONSTANTS
    Ceiling,        \* resolveWorkflowConcurrencyCeiling(): initial cap and its bound
    IncreaseAfter,  \* CONCURRENCY_INCREASE_AFTER_SUCCESSES
    IdleWindow,     \* CONCURRENCY_IDLE_RESET_MS, in ticks
    RetryAfters,    \* the Retry-After delays a provider may announce, in ticks
    None            \* undefined

ASSUME ControllerAssumption ==
    /\ Ceiling \in Nat \ {0}
    /\ IncreaseAfter \in Nat \ {0}
    /\ IdleWindow \in Nat \ {0}
    /\ RetryAfters \subseteq Nat \ {0}
    /\ None \notin Int

\* An optional field.
Opt(S) == S \cup {None}

\* The successes counted towards the next +1 saturate at IncreaseAfter: beyond
\* it only `>= K' is ever asked of them.  lastBad is shown to the user, never
\* read back: the model keeps whether it is set.
Controller ==
    [cap       : 1..Ceiling,
     inFlight  : Nat,
     waiters   : Nat,
     streak    : 0..IncreaseAfter,
     cooldown  : Opt(Nat),
     age       : Opt(0..IdleWindow),
     lastGood  : Opt(1..Ceiling),
     hasBad    : BOOLEAN]

NewController ==
    [cap |-> Ceiling, inFlight |-> 0, waiters |-> 0, streak |-> 0,
     cooldown |-> None, age |-> None, lastGood |-> None, hasBad |-> FALSE]

-----------------------------------------------------------------------------
\* The larger of two numbers (Math.max).
Larger(a, b) == IF a >= b THEN a ELSE b

\* cap = max(FLOOR, floor(cap * 0.75))
Cut(n) == Larger(1, (3 * n) \div 4)

\* Mutant: the gate lets one request too many through.
CanAdmitOneMore(d) == d.inFlight <= d.cap /\ d.cooldown \in {None, 0}

\* The gate: room under the cap and no Retry-After pending.
CanAdmit(d) ==
    /\ d.inFlight < d.cap
    /\ d.cooldown \in {None, 0}

\* Nothing in flight and no admission for the whole idle window.
Idle(d) == d.age = IdleWindow /\ d.inFlight = 0

\* idleReset, the first thing every signal does: what was learnt is forgotten.
Observe(d) ==
    IF Idle(d)
      THEN [d EXCEPT !.cap = Ceiling, !.streak = 0, !.cooldown = None,
                     !.lastGood = None, !.hasBad = FALSE]
      ELSE d

Admitted(d) == [d EXCEPT !.age = 0, !.inFlight = @ + 1]

Waiting(d, n) == [Observe(d) EXCEPT !.waiters = n]

\* inFlight = max(0, inFlight - 1), the common part of every ending.
Ended(d) == [Observe(d) EXCEPT !.inFlight = Larger(0, @ - 1)]

FailedTransient(d) == [Ended(d) EXCEPT !.streak = 0]

\* A full streak proves the present cap ...
Proven(e) == [e EXCEPT !.lastGood = IF @ = None \/ e.cap > @ THEN e.cap ELSE @]

\* ... and raises it by one when somebody waits, up to the ceiling.
Raised(e) == [e EXCEPT !.cap = @ + 1, !.streak = 0]

Counted(e) == [e EXCEPT !.streak = IF @ < IncreaseAfter THEN @ + 1 ELSE @]

\* Mutant: the raise does not stop at the ceiling.
SucceededPastCeiling(d, isCurrent) ==
    LET e == Counted(Ended(d))
    IN  IF ~isCurrent THEN Ended(d)
        ELSE IF e.streak < IncreaseAfter THEN e
        ELSE IF e.waiters = 0 THEN Proven(e)
        ELSE Raised(Proven(e))

\* A success.  Only those of the present epoch count towards the streak.
Succeeded(d, isCurrent) ==
    LET e == Counted(Ended(d))
    IN  IF ~isCurrent THEN Ended(d)
        ELSE IF e.streak < IncreaseAfter THEN e
        ELSE IF e.waiters = 0 \/ e.cap >= Ceiling THEN Proven(e)
        ELSE Raised(Proven(e))

\* Any throttle clears the streak and pushes the cooldown to the later end.
Cooled(d, retryAfter) ==
    LET e == FailedTransient(d)
    IN  IF retryAfter = None THEN e
        ELSE [e EXCEPT !.cooldown = IF @ = None THEN retryAfter ELSE Larger(@, retryAfter)]

\* Mutant: the cut keeps the level it has just refuted.
JudgedKeepingGood(e) ==
    IF e.lastGood # None /\ e.cap > e.lastGood
      THEN [e EXCEPT !.cap = e.lastGood, !.hasBad = TRUE]
      ELSE [e EXCEPT !.cap = Cut(@), !.hasBad = TRUE]

\* The verdict on the cap: a probe above lastGood falls back to it; otherwise
\* the wall has moved, the cap is cut and lastGood is refuted.
Judged(e) ==
    IF e.lastGood # None /\ e.cap > e.lastGood
      THEN [e EXCEPT !.cap = e.lastGood, !.hasBad = TRUE]
      ELSE [e EXCEPT !.cap = Cut(@), !.lastGood = None, !.hasBad = TRUE]

\* Mutant: a ticket of an earlier epoch judges the cap too.
ThrottledAnyEpoch(d, isCurrent, retryAfter) == Judged(Cooled(d, retryAfter))

Throttled(d, isCurrent, retryAfter) ==
    IF isCurrent THEN Judged(Cooled(d, retryAfter)) ELSE Cooled(d, retryAfter)

-----------------------------------------------------------------------------
\* One tick of the injected clock, as the relative fields see it.
CountDown(n) == IF n = None THEN None ELSE Larger(0, n - 1)

Elapse(d) ==
    [d EXCEPT !.age = IF @ = None THEN None ELSE IF @ < IdleWindow THEN @ + 1 ELSE @,
              !.cooldown = CountDown(@)]
=============================================================================
