-------------------------- MODULE RunServiceProofs --------------------------
(***************************************************************************)
(* Proofs about RunService, for any ids, revisions and number of launches. *)
(*                                                                         *)
(* The types hold for any services and callers.  The rest is about one     *)
(* process that has the session (OneProcess).  The invariant says that     *)
(* every launch that is not over is the one its service holds for its run, *)
(* so a run has one at most and nobody else writes its row.  It holds for  *)
(* any number of callers as long as the two things happen to none of them  *)
(* that the code does not look for after an await (Apart): that the same   *)
(* run is resumed twice at once, and that the service closes meanwhile.    *)
(* That a successor waits for its predecessor needs more: callers that     *)
(* come one after another (Lone), so that an operation between its awaits  *)
(* still knows what it knew before.                                        *)
(***************************************************************************)
EXTENDS RunService, FiniteSetTheorems, TLAPS

\* One process has the session at a time.
OneProcess == \A s, t \in Services : s = t

\* One operation is under way in it.
Lone == OneProcess /\ \A c, d \in Callers : c = d

\* The same run is not resumed by two callers at once, and no operation is under way
\* when the service closes.  (A resume is the operation that has no predecessor.)
Apart ==
    /\ \A c, d \in Inside :
          op[c].after = None /\ op[d].after = None /\ op[c].id = op[d].id => c = d
    /\ \A c \in Inside : service[op[c].by] = "open"

Unended == {i \in DOMAIN life : Phase(i) \in {"starting", "alive", "ended"}}

Quiet(r) == \A i \in Unended : life[i].run # r

Registered == \A s \in Services : \A r \in Runs : registry[s][r] \in {0} \cup DOMAIN life

\* A launch that is not over is the one its service holds for its run.
Held ==
    \A i \in Unended : /\ service[life[i].by] \in {"open", "closing"}
                       /\ registry[life[i].by][life[i].run] = i

\* What the row says of a run that is launched, or about to be.
Told ==
    \A i \in DOMAIN life :
        /\ Phase(i) = "alive" => life[i].abort = None /\ row[life[i].run] = "running"
        /\ Phase(i) = "starting" => row[life[i].run] \in {"none"} \cup Reasons

\* Only a run that was launched has a row.
RowsOK == \A r \in Runs : row[r] # "none" => \E i \in DOMAIN life : life[i].run = r

RunningRows ==
    \A r \in Runs : row[r] = "running" /\ (\E s \in Services : service[s] # "dead") =>
        \E i \in Alive : life[i].run = r

\* A closing service waits for every launch of its own that is not over.
ClosingOK ==
    \A i \in Unended : service[life[i].by] = "closing" => i \in closing[life[i].by]

OpOK(o) ==
    /\ service[o.by] = "open" /\ o.held = TRUE
    /\ o.stage = "import" =>
           /\ Quiet(o.id) /\ row[o.id] \in {"none"} \cup Reasons
           /\ o.after # None => Quiet(o.after) /\ row[o.after] \in Terminal
    /\ o.stage = "settle" =>
           /\ o.after # None
           /\ row[o.id] = "none" /\ \A i \in DOMAIN life : life[i].run # o.id
           /\ \A i \in Unended : life[i].run = o.after => i = o.waits
    /\ o.stage = "verify" => o.after # None /\ Quiet(o.after)

OpsOK == \A c \in Callers : op[c] # None => OpOK(op[c])

Lives == Registered /\ Held /\ Told /\ RowsOK /\ RunningRows /\ ClosingOK

Inv == TypeOK /\ Lives /\ OpsOK

\* What an operation still knows beside others: nobody launches its run but itself.
ApartOK(o) ==
    /\ o.held = TRUE
    /\ o.stage # "verify" => Quiet(o.id)
    /\ o.after = None => /\ o.stage = "import"
                         /\ row[o.id] \in Reasons /\ from[o.id] # None
    /\ o.after # None /\ o.stage # "verify" => row[o.id] = "none"
    /\ o.after # None /\ o.id \in Revised => o.after \in Minted /\ RevisionOf[o.after] = o.id

OpsApart ==
    /\ \A c \in Inside : ApartOK(op[c])
    /\ \A c, d \in Inside :
          op[c].after # None /\ op[d].after # None /\ op[c].id = op[d].id => c = d

InvApart == TypeOK /\ Lives /\ OpsApart

-----------------------------------------------------------------------------
(* Types. *)

LEMMA NoneIsNone == None \notin Runs /\ None \notin Services
BY RunServiceAssumption DEF Runs

\* An entry for a launch keeps the types.
LEMMA EnterTypes ==
    ASSUME TypeOK, NEW s \in Services, NEW r \in Runs, NEW p \in Runs \cup {None},
           NEW held \in BOOLEAN, Enter(s, r, p, held)
    PROVE  /\ DOMAIN life' \subseteq Launches
           /\ \A i \in DOMAIN life' : life'[i] \in Life
           /\ registry' \in [Services -> [Runs -> {0} \cup Launches]]
           /\ cleanups' \in [Services -> SUBSET Launches] /\ retries' \subseteq Launches
<1> DEFINE n == Cardinality(DOMAIN life) + 1
<1>1. IsFiniteSet(Launches) /\ Launches = 1..Cardinality(Launches)
    BY RunServiceAssumption
<1>2. DOMAIN life \subseteq Launches
    BY DEF TypeOK
<1>3. Cardinality(DOMAIN life) \in Nat /\ Cardinality(Launches) \in Nat
    BY <1>1, <1>2, FS_Subset, FS_CardinalityType
<1>4. n \in Launches
    BY <1>1, <1>3 DEF Enter, Room
<1>5. life' = [j \in DOMAIN life \cup {n} |->
                  IF j \in DOMAIN life THEN life[j]
                  ELSE [run |-> r, after |-> p, by |-> s, abort |-> None, phase |-> "starting"]]
    BY DEF Enter
<1>6. DOMAIN life' \subseteq Launches
    BY <1>2, <1>4, <1>5
<1>7. \A i \in DOMAIN life' : life'[i] \in Life
    BY <1>5 DEF TypeOK, Life
<1>8. registry' \in [Services -> [Runs -> {0} \cup Launches]]
    BY <1>4 DEF Enter, TypeOK
<1>9. cleanups' \in [Services -> SUBSET Launches] /\ retries' \subseteq Launches
    <2>1. cleanups' = IF held THEN [cleanups EXCEPT ![s] = cleanups[s] \cup {n}] ELSE cleanups
        BY DEF Enter
    <2>2. retries' = retries
        BY DEF Enter
    <2>3. QED
        BY <1>4, <2>1, <2>2 DEF TypeOK
<1>10. QED
    BY <1>6, <1>7, <1>8, <1>9

\* So does an abort.
LEMMA AbortTypes ==
    ASSUME TypeOK, NEW L, NEW reason \in {"superseded"} \cup Reasons, Abort(L, reason)
    PROVE  /\ DOMAIN life' = DOMAIN life
           /\ \A i \in DOMAIN life' : life'[i] \in Life
           /\ row' \in [Runs -> {"none", "running"} \cup Terminal]
<1>1. life' = Aborted(L, reason) /\ row' = RowsAfterAbort(L, reason)
    BY DEF Abort
<1>2. DOMAIN life' = DOMAIN life
    BY <1>1 DEF Aborted
<1>3. ASSUME NEW i \in DOMAIN life
      PROVE  life'[i] \in Life
    <2>1. life[i] \in Life
        BY DEF TypeOK
    <2>2. \/ life'[i] = life[i]
          \/ life'[i] = [life[i] EXCEPT !.abort = reason, !.phase = "ended"]
          \/ life'[i] = [life[i] EXCEPT !.abort = reason]
        BY <1>1 DEF Aborted
    <2>3. QED
        BY <2>1, <2>2 DEF Life
<1>4. row' \in [Runs -> {"none", "running"} \cup Terminal]
    BY <1>1 DEF RowsAfterAbort, TypeOK, Terminal, Final, Reasons
<1>5. QED
    BY <1>2, <1>3, <1>4

\* One launch moves on.
LEMMA PhaseTypes ==
    ASSUME TypeOK, NEW i \in DOMAIN life,
           NEW v \in {"starting", "alive", "ended", "settled", "gone"},
           life' = [life EXCEPT ![i].phase = v]
    PROVE  DOMAIN life' = DOMAIN life /\ \A j \in DOMAIN life' : life'[j] \in Life
<1>1. \A j \in DOMAIN life : life[j] \in Life
    BY DEF TypeOK
<1>2. [life[i] EXCEPT !.phase = v] \in Life
    BY <1>1 DEF Life
<1>3. QED
    BY <1>1, <1>2

\* One settles.
LEMMA SettledTypes ==
    ASSUME TypeOK, NEW i \in DOMAIN life,
           life' = [life EXCEPT ![i].phase = "settled", ![i].abort = None]
    PROVE  /\ DOMAIN life' = DOMAIN life /\ \A j \in DOMAIN life' : life'[j] \in Life
           /\ \A j \in DOMAIN life : j # i => life'[j] = life[j]
           /\ life'[i].run = life[i].run /\ life'[i].by = life[i].by /\ life'[i].after = life[i].after
           /\ life'[i].phase = "settled"
<1> DEFINE new == [life[i] EXCEPT !.phase = "settled", !.abort = None]
<1>1. life[i] \in Life
    BY DEF TypeOK
<1>2. /\ new \in Life /\ new.phase = "settled"
      /\ new.run = life[i].run /\ new.by = life[i].by /\ new.after = life[i].after
    BY <1>1 DEF Life
<1>3. life' = [life EXCEPT ![i] = new]
    OBVIOUS
<1> HIDE DEF new
<1>4. DOMAIN life' = DOMAIN life /\ life'[i] = new /\ \A j \in DOMAIN life : j # i => life'[j] = life[j]
    BY <1>3
<1>5. \A j \in DOMAIN life' : life'[j] \in Life
    BY <1>2, <1>4 DEF TypeOK
<1>6. QED
    BY <1>2, <1>4, <1>5

LEMMA AskTypes ==
    ASSUME TypeOK, NEW c \in Callers, NEW s \in Services, NEW p \in Runs \cup {None},
           NEW r \in Runs, NEW i \in {0} \cup Launches, NEW stage \in {"verify", "settle", "import"},
           Ask(c, stage, s, p, r, i)
    PROVE  op' \in [Callers -> Op \cup {None}]
BY DEF Ask, TypeOK, Op

LEMMA InitTypes == Init => TypeOK
BY DEF Init, TypeOK

LEMMA NextTypes ==
    ASSUME TypeOK, [Next]_vars
    PROVE  TypeOK'
<1> USE DEF TypeOK, cleaning
<1>1. ASSUME NEW i \in DOMAIN life, Launch(i)
      PROVE  TypeOK'
    <2>1. life[i] \in Life
        OBVIOUS
    <2>2. DOMAIN life' = DOMAIN life /\ \A j \in DOMAIN life' : life'[j] \in Life
        BY <1>1, PhaseTypes DEF Launch
    <2>3. row' \in [Runs -> {"none", "running"} \cup Terminal]
        BY <1>1, <2>1 DEF Launch, Life, Terminal, Final, Reasons
    <2>4. from' \in [Runs -> Runs \cup {None}]
        BY <1>1, <2>1 DEF Launch, Life
    <2>5. QED
        BY <1>1, <2>2, <2>3, <2>4 DEF Launch
<1>2. ASSUME NEW i \in DOMAIN life, StartFails(i)
      PROVE  TypeOK'
    BY <1>2, PhaseTypes DEF StartFails
<1>3. ASSUME NEW i \in DOMAIN life, Track(i)
      PROVE  TypeOK'
    <2>1. DOMAIN life' = DOMAIN life /\ \A j \in DOMAIN life' : life'[j] \in Life
        BY <1>3, SettledTypes DEF Track
    <2>2. cleanups' \in [Services -> SUBSET Launches]
        BY <1>3 DEF Track
    <2>3. QED
        BY <1>3, <2>1, <2>2 DEF Track
<1>4. ASSUME NEW c \in Inside, Import(c)
      PROVE  TypeOK'
    <2>1. c \in Callers /\ op[c] \in Op
        BY DEF Inside
    <2>2. op' \in [Callers -> Op \cup {None}]
        BY <1>4, <2>1 DEF Import, Op
    <2>3. QED
        BY <1>4, <2>2 DEF Import
<1>5. ASSUME NEW c \in Inside, GoOn(c)
      PROVE  TypeOK'
    <2>1. c \in Callers /\ op[c] \in Op
        BY DEF Inside
    <2>2. /\ op[c].by \in Services /\ op[c].id \in Runs /\ op[c].after \in Runs \cup {None}
          /\ op[c].held \in BOOLEAN
        BY <2>1 DEF Op
    <2>3. Enter(op[c].by, op[c].id, op[c].after, op[c].held)
        BY <1>5 DEF GoOn
    <2>4. /\ DOMAIN life' \subseteq Launches
          /\ \A i \in DOMAIN life' : life'[i] \in Life
          /\ registry' \in [Services -> [Runs -> {0} \cup Launches]]
          /\ cleanups' \in [Services -> SUBSET Launches] /\ retries' \subseteq Launches
        BY <2>2, <2>3, EnterTypes
    <2>5. QED
        BY <1>5, <2>1, <2>4 DEF GoOn
<1>6. ASSUME NEW s \in Services, Settled(s) \/ Closed(s)
      PROVE  TypeOK'
    BY <1>6 DEF Settled, Closed
<1>7. ASSUME NEW s \in Services, NEW r \in Minted, Submit(s, r)
      PROVE  TypeOK'
    <2>1. /\ DOMAIN life' \subseteq Launches
          /\ \A i \in DOMAIN life' : life'[i] \in Life
          /\ registry' \in [Services -> [Runs -> {0} \cup Launches]]
          /\ cleanups' \in [Services -> SUBSET Launches] /\ retries' \subseteq Launches
        BY <1>7, EnterTypes DEF Submit, Runs
    <2>2. QED
        BY <1>7, <2>1 DEF Submit
<1>8. ASSUME NEW i \in DOMAIN life, NEW v \in Outcomes, End(i, v)
      PROVE  TypeOK'
    <2>1. DOMAIN life' = DOMAIN life /\ \A j \in DOMAIN life' : life'[j] \in Life
        BY <1>8, PhaseTypes DEF End
    <2>2. row' \in [Runs -> {"none", "running"} \cup Terminal]
        BY <1>8 DEF End, Outcomes, Terminal, Final, Reasons
    <2>3. QED
        BY <1>8, <2>1, <2>2 DEF End
<1>9. ASSUME NEW s \in Services, NEW r \in Runs, Forget(s, r)
      PROVE  TypeOK'
    BY <1>9 DEF Forget
<1>10. ASSUME NEW s \in Services, NEW r \in Runs, Cancel(s, r)
       PROVE  TypeOK'
    BY <1>10, AbortTypes DEF Cancel, Reasons
<1>11. ASSUME NEW s \in Services, NEW r \in Runs, Resume(s, r)
       PROVE  TypeOK'
    <2>1. /\ DOMAIN life' \subseteq Launches
          /\ \A i \in DOMAIN life' : life'[i] \in Life
          /\ registry' \in [Services -> [Runs -> {0} \cup Launches]]
          /\ cleanups' \in [Services -> SUBSET Launches] /\ retries' \subseteq Launches
        BY <1>11, EnterTypes DEF Resume
    <2>2. QED
        BY <1>11, <2>1 DEF Resume
<1>12. ASSUME NEW c \in Callers, NEW s \in Services, NEW r \in Runs, ResumeAsks(c, s, r)
       PROVE  TypeOK'
    <2>1. op' \in [Callers -> Op \cup {None}]
        BY <1>12, AskTypes DEF ResumeAsks
    <2>2. QED
        BY <1>12, <2>1 DEF ResumeAsks
<1>13. ASSUME NEW c \in Callers, NEW s \in Services, NEW p \in Runs, NEW r \in Minted,
              AmendAsks(c, s, p, r)
       PROVE  TypeOK'
    <2>1. op' \in [Callers -> Op \cup {None}]
        <3>1. r \in Runs /\ p \in Runs \cup {None} /\ registry[s][p] \in {0} \cup Launches
            BY DEF Runs
        <3>2. QED
            BY <1>13, <3>1, AskTypes DEF AmendAsks
    <2>2. /\ DOMAIN life' = DOMAIN life
          /\ \A i \in DOMAIN life' : life'[i] \in Life
          /\ row' \in [Runs -> {"none", "running"} \cup Terminal]
        BY <1>13, AbortTypes DEF AmendAsks
    <2>3. QED
        BY <1>13, <2>1, <2>2 DEF AmendAsks
<1>14. ASSUME NEW c \in Callers, NEW s \in Services, NEW p \in Runs, NEW r \in Minted,
              AmendSettledRun(c, s, p, r)
       PROVE  TypeOK'
    BY <1>14, AskTypes DEF AmendSettledRun, Runs
<1>15. ASSUME NEW c \in Callers, NEW s \in Services, NEW p \in Minted, ReviseAsks(c, s, p)
       PROVE  TypeOK'
    <2>1. RevisionOf[p] \in Runs /\ p \in Runs
        BY <1>15, RunServiceAssumption DEF ReviseAsks, Runs
    <2>2. op' \in [Callers -> Op \cup {None}]
        BY <1>15, <2>1, AskTypes DEF ReviseAsks
    <2>3. QED
        BY <1>15, <2>2 DEF ReviseAsks
<1>16. ASSUME NEW s \in Services, Close(s)
       PROVE  TypeOK'
    <2>1. /\ DOMAIN life' = DOMAIN life
          /\ \A i \in DOMAIN life' : life'[i] \in Life
          /\ row' \in [Runs -> {"none", "running"} \cup Terminal]
        BY <1>16, AbortTypes DEF Close, Reasons
    <2>2. Unsettled(s) \subseteq Launches
        BY DEF Unsettled
    <2>3. QED
        BY <1>16, <2>1, <2>2 DEF Close
<1>17. ASSUME NEW s \in Services, Crash(s)
       PROVE  TypeOK'
    <2>1. DOMAIN life' = DOMAIN life
        BY <1>17 DEF Crash
    <2>2. ASSUME NEW i \in DOMAIN life
          PROVE  life'[i] \in Life
        <3>1. life[i] \in Life
            OBVIOUS
        <3>2. life'[i] = life[i] \/ life'[i] = [life[i] EXCEPT !.phase = "gone", !.abort = None]
            BY <1>17 DEF Crash
        <3>3. QED
            BY <3>1, <3>2 DEF Life
    <2>3. op' \in [Callers -> Op \cup {None}]
        BY <1>17 DEF Crash
    <2>4. cleanups' \in [Services -> SUBSET Launches] /\ retries' \subseteq Launches
        BY <1>17 DEF Crash
    <2>5. QED
        BY <1>17, <2>1, <2>2, <2>3, <2>4 DEF Crash
<1>18. ASSUME NEW s \in Services, Open(s)
       PROVE  TypeOK'
    <2>1. row' \in [Runs -> {"none", "running"} \cup Terminal]
        BY <1>18 DEF Open, Reconciled, Terminal, Reasons
    <2>2. op' \in [Callers -> Op \cup {None}]
        <3>1. ASSUME NEW c \in Callers
              PROVE  op'[c] \in Op \cup {None}
            <4>1. op[c] \in Op \cup {None}
                OBVIOUS
            <4>2. op'[c] \in {op[c], [op[c] EXCEPT !.held = FALSE]} /\ (op[c] = None => op'[c] = None)
                BY <1>18 DEF Open
            <4>3. QED
                BY <4>1, <4>2 DEF Op
        <3>2. QED
            BY <1>18, <3>1 DEF Open
    <2>3. cleanups' \in [Services -> SUBSET Launches] /\ retries' \subseteq Launches
        BY <1>18 DEF Open
    <2>4. QED
        BY <1>18, <2>1, <2>2, <2>3 DEF Open
<1>19. CASE UNCHANGED vars
    BY <1>19 DEF vars
<1>20. ASSUME NEW s \in Services, NEW i \in Leases, Cleanup(s, i)
       PROVE  TypeOK'
    <2>1. i \in Launches
        BY RunServiceAssumption
    <2>2. cleanups' \in [Services -> SUBSET Launches] /\ retries' \subseteq Launches
        BY <1>20, <2>1 DEF Cleanup, Release, ReleaseFails, Retry
    <2>3. UNCHANGED <<row, from, life, registry, op, service, closing>>
        BY <1>20 DEF Cleanup, Release, ReleaseFails, Retry
    <2>4. QED
        BY <2>2, <2>3
<1>21. QED
    BY <1>1, <1>2, <1>3, <1>4, <1>5, <1>6, <1>7, <1>8, <1>9, <1>10, <1>11, <1>12, <1>13,
       <1>14, <1>15, <1>16, <1>17, <1>18, <1>19, <1>20 DEF Next, Progress

\* Rows, registry, launches and operations keep their types, whatever services and
\* callers there are.
THEOREM TypeCorrect == Spec => []TypeOK
<1>1. TypeOK /\ [Next]_vars => TypeOK'
    BY NextTypes
<1>2. QED
    BY <1>1, InitTypes, PTL DEF Spec

-----------------------------------------------------------------------------
(* One after another. *)

LEMMA LifeTypes ==
    ASSUME TypeOK, NEW i \in DOMAIN life
    PROVE  /\ i \in Launches /\ life[i] \in Life
           /\ life[i].run \in Runs /\ life[i].by \in Services
           /\ life[i].after \in Runs \cup {None}
           /\ life[i].abort \in {None, "superseded"} \cup Reasons
           /\ life[i].phase \in {"starting", "alive", "ended", "settled", "gone"}
BY DEF TypeOK, Life

\* A run has at most one launch that is not over.
LEMMA OnlyOne ==
    ASSUME TypeOK, OneProcess, Held, NEW i \in Unended, NEW j \in Unended, life[i].run = life[j].run
    PROVE  i = j
<1>1. life[i].by = life[j].by
    BY LifeTypes DEF OneProcess, Unended
<1>2. QED
    BY <1>1 DEF Held

\* What the registry does not hold as live is over.
LEMMA NotLiveIsQuiet ==
    ASSUME TypeOK, OneProcess, Held, NEW s \in Services, NEW r \in Runs, ~Live(s, r)
    PROVE  Quiet(r)
<1>1. ASSUME NEW i \in Unended, life[i].run = r
      PROVE  FALSE
    <2>1. i \in DOMAIN life /\ Phase(i) # "settled"
        BY DEF Unended
    <2>2. i \in Launches /\ life[i].by = s
        BY <2>1, LifeTypes DEF OneProcess
    <2>3. i # 0
        <3>1. IsFiniteSet(Launches) /\ Launches = 1..Cardinality(Launches)
            BY RunServiceAssumption
        <3>2. Cardinality(Launches) \in Nat
            BY <3>1, FS_CardinalityType
        <3>3. QED
            BY <2>2, <3>1, <3>2
    <2>4. registry[s][r] = i
        BY <1>1, <2>2 DEF Held
    <2>5. QED
        BY <2>1, <2>3, <2>4 DEF Live
<1>2. QED
    BY <1>1 DEF Quiet

LEMMA NobodyElse ==
    ASSUME Lone, NEW c \in Callers, Idle(c)
    PROVE  Inside = {}
BY DEF Lone, Idle, Inside

LEMMA NoneInside ==
    ASSUME Lone, Undisturbed
    PROVE  \A c \in Callers : op[c] = None
<1>1. ASSUME NEW c \in Callers
      PROVE  op[c] = None
    <2>1. Callers = {c}
        BY DEF Lone
    <2>2. Cardinality(Callers) = 1
        BY <2>1, FS_Singleton
    <2>3. QED
        BY <2>2 DEF Undisturbed, Inside
<1>2. QED
    BY <1>1

-----------------------------------------------------------------------------
(* Launches go on. *)

\* No launch begins; only rows of launches that were not over are written.
Onward ==
    /\ DOMAIN life' = DOMAIN life
    /\ \A i \in DOMAIN life : /\ life'[i].run = life[i].run /\ life'[i].by = life[i].by
                              /\ life'[i].after = life[i].after
    /\ \A i \in Unended' : i \in Unended
    /\ \A r \in Runs : row'[r] # row[r] => ~Quiet(r)

LEMMA OnwardQuiet ==
    ASSUME Onward, NEW r, Quiet(r)
    PROVE  Quiet(r)'
BY DEF Onward, Quiet, Unended

LEMMA OnwardRegistered ==
    ASSUME Registered, Onward, registry' = registry
    PROVE  Registered'
BY DEF Registered, Onward

LEMMA OnwardHeld ==
    ASSUME TypeOK, Held, Onward, registry' = registry,
           \A s \in Services : service[s] \in {"open", "closing"} => service'[s] \in {"open", "closing"}
    PROVE  Held'
<1>1. ASSUME NEW i \in Unended'
      PROVE  /\ service'[life'[i].by] \in {"open", "closing"}
             /\ registry'[life'[i].by][life'[i].run] = i
    <2>1. i \in Unended /\ i \in DOMAIN life
        BY DEF Onward, Unended
    <2>2. life'[i].run = life[i].run /\ life'[i].by = life[i].by /\ life[i].by \in Services
        BY <2>1, LifeTypes DEF Onward
    <2>3. QED
        BY <2>1, <2>2 DEF Held
<1>2. QED
    BY <1>1 DEF Held

LEMMA OnwardRows ==
    ASSUME RowsOK, Onward
    PROVE  RowsOK'
<1>1. ASSUME NEW r \in Runs, row'[r] # "none"
      PROVE  \E i \in DOMAIN life' : life'[i].run = r
    <2>1. \E i \in DOMAIN life : life[i].run = r
        <3>1. CASE row'[r] = row[r]
            BY <1>1, <3>1 DEF RowsOK
        <3>2. CASE row'[r] # row[r]
            BY <3>2 DEF Onward, Quiet, Unended
        <3>3. QED
            BY <3>1, <3>2
    <2>2. QED
        BY <2>1 DEF Onward
<1>2. QED
    BY <1>1 DEF RowsOK

LEMMA OnwardClosing ==
    ASSUME ClosingOK, Onward, service' = service, closing' = closing
    PROVE  ClosingOK'
<1>1. ASSUME NEW i \in Unended', service'[life'[i].by] = "closing"
      PROVE  i \in closing'[life'[i].by]
    <2>1. i \in Unended /\ i \in DOMAIN life
        BY DEF Onward, Unended
    <2>2. life'[i].by = life[i].by
        BY <2>1 DEF Onward
    <2>3. QED
        BY <1>1, <2>1, <2>2 DEF ClosingOK
<1>2. QED
    BY <1>1 DEF ClosingOK

\* An operation still knows what it knew.
LEMMA OpStays ==
    ASSUME Onward, service' = service, NEW o \in Op, OpOK(o)
    PROVE  OpOK(o)'
<1>1. o.id \in Runs /\ o.after \in Runs \cup {None}
    BY DEF Op
<1>2. service'[o.by] = "open" /\ o.held = TRUE
    BY DEF OpOK
<1>3. ASSUME o.stage = "import"
      PROVE  /\ Quiet(o.id)' /\ row'[o.id] \in {"none"} \cup Reasons
             /\ o.after # None => Quiet(o.after)' /\ row'[o.after] \in Terminal
    <2>1. Quiet(o.id) /\ row[o.id] \in {"none"} \cup Reasons
        BY <1>3 DEF OpOK
    <2>2. Quiet(o.id)' /\ row'[o.id] = row[o.id]
        BY <1>1, <2>1, OnwardQuiet DEF Onward
    <2>3. ASSUME o.after # None
          PROVE  Quiet(o.after)' /\ row'[o.after] \in Terminal
        <3>1. Quiet(o.after) /\ row[o.after] \in Terminal
            BY <1>3, <2>3 DEF OpOK
        <3>2. QED
            BY <1>1, <2>3, <3>1, OnwardQuiet DEF Onward
    <2>4. QED
        BY <2>1, <2>2, <2>3
<1>4. ASSUME o.stage = "settle"
      PROVE  /\ o.after # None
             /\ row'[o.id] = "none" /\ \A i \in DOMAIN life' : life'[i].run # o.id
             /\ \A i \in Unended' : life'[i].run = o.after => i = o.waits
    <2>1. /\ o.after # None
          /\ row[o.id] = "none" /\ \A i \in DOMAIN life : life[i].run # o.id
          /\ \A i \in Unended : life[i].run = o.after => i = o.waits
        BY <1>4 DEF OpOK
    <2>2. Quiet(o.id)
        BY <2>1 DEF Quiet, Unended
    <2>3. row'[o.id] = "none"
        BY <1>1, <2>1, <2>2 DEF Onward
    <2>4. \A i \in DOMAIN life' : life'[i].run # o.id
        BY <2>1 DEF Onward
    <2>5. \A i \in Unended' : i \in Unended /\ life'[i].run = life[i].run
        BY DEF Onward, Unended
    <2>6. QED
        BY <2>1, <2>3, <2>4, <2>5
<1>5. ASSUME o.stage = "verify"
      PROVE  o.after # None /\ Quiet(o.after)'
    <2>1. o.after # None /\ Quiet(o.after)
        BY <1>5 DEF OpOK
    <2>2. QED
        BY <2>1, OnwardQuiet
<1>6. QED
    BY <1>2, <1>3, <1>4, <1>5 DEF OpOK

LEMMA OnwardOps ==
    ASSUME TypeOK, OpsOK, Onward, service' = service, op' = op
    PROVE  OpsOK'
<1>1. ASSUME NEW c \in Callers, op[c] # None
      PROVE  OpOK(op[c])'
    <2>1. op[c] \in Op /\ OpOK(op[c])
        BY <1>1 DEF TypeOK, OpsOK
    <2>2. ASSUME NEW o \in Op, OpOK(o)
          PROVE  OpOK(o)'
        BY <2>2, OpStays
    <2>3. QED
        BY <2>1, <2>2
<1>2. QED
    BY <1>1 DEF OpsOK

-----------------------------------------------------------------------------
(* What the parts of an action do. *)

\* A launch goes on, the others stay as they are.
GoesOn(i, v) ==
    /\ DOMAIN life' = DOMAIN life
    /\ \A j \in DOMAIN life : j # i => life'[j] = life[j]
    /\ life'[i].run = life[i].run /\ life'[i].by = life[i].by /\ life'[i].after = life[i].after
    /\ life'[i].phase = v

LEMMA PhaseGoesOn ==
    ASSUME TypeOK, NEW i \in DOMAIN life,
           NEW v, life' = [life EXCEPT ![i].phase = v]
    PROVE  GoesOn(i, v) /\ life'[i].abort = life[i].abort
BY LifeTypes DEF Life, GoesOn

\* One launch changes its phase, and its row with it.
LEMMA PhaseOnward ==
    ASSUME NEW i \in DOMAIN life, i \in Unended, NEW v, GoesOn(i, v),
           \A r \in Runs : row'[r] # row[r] => r = life[i].run
    PROVE  Onward
<1>1. DOMAIN life' = DOMAIN life
    BY DEF GoesOn
<1>2. \A j \in DOMAIN life : /\ life'[j].run = life[j].run /\ life'[j].by = life[j].by
                             /\ life'[j].after = life[j].after
    BY DEF GoesOn
<1>3. \A j \in Unended' : j \in Unended
    BY DEF GoesOn, Unended, Phase
<1>4. \A r \in Runs : row'[r] # row[r] => ~Quiet(r)
    BY DEF Quiet
<1>5. QED
    BY <1>1, <1>2, <1>3, <1>4 DEF Onward

\* An abort: who is running in L ends, the others keep their phases.
LEMMA AbortActs ==
    ASSUME TypeOK, Told, NEW L \in SUBSET DOMAIN life,
           NEW reason \in {"superseded"} \cup Reasons, Abort(L, reason)
    PROVE  /\ DOMAIN life' = DOMAIN life
           /\ \A i \in DOMAIN life :
                  /\ life'[i].run = life[i].run /\ life'[i].by = life[i].by
                  /\ life'[i].after = life[i].after
                  /\ i \in L /\ Phase(i) = "alive" => life'[i].phase = "ended"
                  /\ ~(i \in L /\ Phase(i) = "alive") => life'[i].phase = Phase(i)
                  /\ i \notin L => life'[i] = life[i]
           /\ \A r \in Runs :
                  \/ row'[r] = row[r] /\ ~\E i \in L : Phase(i) = "alive" /\ life[i].run = r
                  \/ row'[r] = reason /\ \E i \in L : Phase(i) = "alive" /\ life[i].run = r
<1>1. life' = Aborted(L, reason) /\ row' = RowsAfterAbort(L, reason)
    BY DEF Abort
<1>2. DOMAIN life' = DOMAIN life
    BY <1>1 DEF Aborted
<1>3. ASSUME NEW i \in DOMAIN life
      PROVE  /\ life'[i].run = life[i].run /\ life'[i].by = life[i].by
             /\ life'[i].after = life[i].after
             /\ i \in L /\ Phase(i) = "alive" => life'[i].phase = "ended"
             /\ ~(i \in L /\ Phase(i) = "alive") => life'[i].phase = Phase(i)
             /\ i \notin L => life'[i] = life[i]
    <2>1. life[i] \in Life /\ (Phase(i) = "alive" => life[i].abort = None)
        BY LifeTypes DEF Told
    <2>2. CASE i \notin L \/ life[i].abort # None
        <3>1. life'[i] = life[i]
            BY <1>1, <2>2 DEF Aborted
        <3>2. QED
            BY <2>1, <2>2, <3>1 DEF Phase
    <2>3. CASE i \in L /\ life[i].abort = None /\ Phase(i) = "alive"
        <3>1. life'[i] = [life[i] EXCEPT !.abort = reason, !.phase = "ended"]
            BY <1>1, <2>3 DEF Aborted
        <3>2. QED
            BY <2>1, <2>3, <3>1 DEF Life, Phase
    <2>4. CASE i \in L /\ life[i].abort = None /\ Phase(i) # "alive"
        <3>1. life'[i] = [life[i] EXCEPT !.abort = reason]
            BY <1>1, <2>4 DEF Aborted
        <3>2. QED
            BY <2>1, <2>4, <3>1 DEF Life, Phase
    <2>5. QED
        BY <2>2, <2>3, <2>4
<1>4. ASSUME NEW r \in Runs
      PROVE  \/ row'[r] = row[r] /\ ~\E i \in L : Phase(i) = "alive" /\ life[i].run = r
             \/ row'[r] = reason /\ \E i \in L : Phase(i) = "alive" /\ life[i].run = r
    BY <1>1 DEF RowsAfterAbort, Told
<1>5. QED
    BY <1>2, <1>3, <1>4

LEMMA AbortOnward ==
    ASSUME TypeOK, Told, NEW L \in SUBSET DOMAIN life,
           NEW reason \in {"superseded"} \cup Reasons, Abort(L, reason)
    PROVE  Onward
<1>1. DOMAIN life' = DOMAIN life
    BY AbortActs
<1>2. \A i \in DOMAIN life : /\ life'[i].run = life[i].run /\ life'[i].by = life[i].by
                             /\ life'[i].after = life[i].after
    BY AbortActs
<1>3. \A i \in Unended' : i \in Unended
    BY AbortActs DEF Unended, Phase
<1>4. ASSUME NEW r \in Runs, row'[r] # row[r]
      PROVE  ~Quiet(r)
    <2>1. \E i \in L : Phase(i) = "alive" /\ life[i].run = r
        BY <1>4, AbortActs
    <2>2. QED
        BY <2>1 DEF Quiet, Unended
<1>5. QED
    BY <1>1, <1>2, <1>3, <1>4 DEF Onward

LEMMA AbortTold ==
    ASSUME TypeOK, OneProcess, Held, Told, NEW L \in SUBSET DOMAIN life,
           NEW reason \in {"superseded"} \cup Reasons, Abort(L, reason)
    PROVE  Told'
<1>1. ASSUME NEW i \in DOMAIN life'
      PROVE  /\ life'[i].phase = "alive" => life'[i].abort = None /\ row'[life'[i].run] = "running"
             /\ life'[i].phase = "starting" => row'[life'[i].run] \in {"none"} \cup Reasons
    <2>1. i \in DOMAIN life /\ life'[i].run = life[i].run /\ life[i].run \in Runs
        BY AbortActs, LifeTypes
    <2>2. CASE life'[i].phase = "alive"
        <3>1. i \notin L /\ life'[i] = life[i] /\ Phase(i) = "alive"
            BY <2>1, <2>2, AbortActs DEF Phase
        <3>2. ~\E j \in L : Phase(j) = "alive" /\ life[j].run = life[i].run
            BY <2>1, <3>1, OnlyOne DEF Unended
        <3>3. row'[life[i].run] = row[life[i].run]
            BY <2>1, <3>2, AbortActs
        <3>4. QED
            BY <2>1, <2>2, <3>1, <3>3 DEF Told
    <2>3. CASE life'[i].phase = "starting"
        <3>1. Phase(i) = "starting"
            BY <2>1, <2>3, AbortActs DEF Phase
        <3>2. ~\E j \in L : Phase(j) = "alive" /\ life[j].run = life[i].run
            <4>1. ASSUME NEW j \in L, Phase(j) = "alive", life[j].run = life[i].run
                  PROVE  FALSE
                <5>1. i \in Unended /\ j \in Unended
                    BY <2>1, <3>1, <4>1 DEF Unended
                <5>2. i = j
                    BY <4>1, <5>1, OnlyOne
                <5>3. QED
                    BY <3>1, <4>1, <5>2
            <4>2. QED
                BY <4>1
        <3>3. row'[life[i].run] = row[life[i].run]
            BY <2>1, <3>2, AbortActs
        <3>4. QED
            BY <2>1, <2>3, <3>1, <3>3 DEF Told
    <2>4. QED
        BY <2>2, <2>3
<1>2. QED
    BY <1>1 DEF Told, Phase

LEMMA AbortRunning ==
    ASSUME TypeOK, Told, RunningRows, NEW L \in SUBSET DOMAIN life,
           NEW reason \in {"superseded"} \cup Reasons, Abort(L, reason),
           \A s \in Services : service'[s] # "dead" => service[s] # "dead"
    PROVE  RunningRows'
<1>1. ASSUME NEW r \in Runs, row'[r] = "running", \E s \in Services : service'[s] # "dead"
      PROVE  \E i \in Alive' : life'[i].run = r
    <2>1. row[r] = "running" /\ ~\E i \in L : Phase(i) = "alive" /\ life[i].run = r
        BY <1>1, AbortActs DEF Reasons
    <2>2. PICK i \in Alive : life[i].run = r
        BY <1>1, <2>1 DEF RunningRows
    <2>3. i \in DOMAIN life /\ i \notin L /\ Phase(i) = "alive"
        BY <2>1, <2>2 DEF Alive
    <2>4. life'[i] = life[i] /\ i \in DOMAIN life'
        BY <2>3, AbortActs
    <2>5. QED
        BY <2>2, <2>3, <2>4 DEF Alive, Phase
<1>2. QED
    BY <1>1 DEF RunningRows

\* Nothing is launched beside a launch that is not over.
LEMMA EnterLives ==
    ASSUME TypeOK, Lives, NEW s \in Services, NEW r \in Runs, NEW p \in Runs \cup {None},
           Enter(s, r, p, TRUE), service[s] = "open", UNCHANGED <<row, service, closing>>,
           Quiet(r), row[r] \in {"none"} \cup Reasons
    PROVE  Lives'
<1> DEFINE n == Cardinality(DOMAIN life) + 1
           new == [run |-> r, after |-> p, by |-> s, abort |-> None, phase |-> "starting"]
<1>1. life' = [j \in DOMAIN life \cup {n} |-> IF j \in DOMAIN life THEN life[j] ELSE new]
    BY DEF Enter
<1>2. registry' = [registry EXCEPT ![s][r] = n]
    BY DEF Enter
<1> HIDE DEF n
<1>3. DOMAIN life' = DOMAIN life \cup {n}
    BY <1>1
<1>4. \A j \in DOMAIN life : life'[j] = life[j]
    BY <1>1
<1>5. \A j \in DOMAIN life' : j \in DOMAIN life \/ (j = n /\ life'[j] = new)
    BY <1>1
<1>6. /\ new.run = r /\ new.by = s /\ new.after = p /\ new.abort = None /\ new.phase = "starting"
    OBVIOUS
<1> HIDE DEF new
<1>7. Registered'
    BY <1>2, <1>3 DEF Registered, Lives, TypeOK
<1>8. Held'
    <2>1. ASSUME NEW i \in Unended'
          PROVE  /\ service'[life'[i].by] \in {"open", "closing"}
                 /\ registry'[life'[i].by][life'[i].run] = i
        <3>1. CASE i \in DOMAIN life
            <4>1. life'[i] = life[i] /\ i \in Unended
                BY <1>4, <3>1 DEF Unended, Phase
            <4>2. life[i].run # r /\ life[i].run \in Runs /\ life[i].by \in Services
                BY <3>1, <4>1, LifeTypes DEF Quiet
            <4>3. registry'[life[i].by][life[i].run] = registry[life[i].by][life[i].run]
                BY <1>2, <4>2 DEF TypeOK
            <4>4. QED
                BY <4>1, <4>3 DEF Held, Lives
        <3>2. CASE i = n /\ life'[i] = new
            BY <1>2, <1>6, <3>2 DEF TypeOK
        <3>3. QED
            BY <1>5, <3>1, <3>2 DEF Unended
    <2>2. QED
        BY <2>1 DEF Held
<1>9. Told'
    BY <1>4, <1>5, <1>6 DEF Told, Lives, Phase
<1>10. RowsOK'
    BY <1>3, <1>4 DEF RowsOK, Lives
<1>11. RunningRows'
    BY <1>3, <1>4 DEF RunningRows, Lives, Alive, Phase
<1>12. ClosingOK'
    BY <1>4, <1>5, <1>6 DEF ClosingOK, Lives, Unended, Phase
<1>13. QED
    BY <1>7, <1>8, <1>9, <1>10, <1>11, <1>12 DEF Lives

LEMMA OnwardLives ==
    ASSUME TypeOK, Lives, Onward, UNCHANGED <<registry, service, closing>>, Told', RunningRows'
    PROVE  Lives'
<1>1. Registered'
    BY OnwardRegistered DEF Lives
<1>2. Held'
    BY OnwardHeld DEF Lives
<1>3. RowsOK'
    BY OnwardRows DEF Lives
<1>4. ClosingOK'
    BY OnwardClosing DEF Lives
<1>5. QED
    BY <1>1, <1>2, <1>3, <1>4 DEF Lives

\* A launch moves on and its row is not written, or written as it ends.
LEMMA EndingLives ==
    ASSUME TypeOK, OneProcess, Lives, NEW i \in DOMAIN life,
           Phase(i) \in {"starting", "alive", "ended"}, NEW v \in {"ended", "settled"},
           GoesOn(i, v),
           \/ row' = row /\ Phase(i) # "alive"
           \/ \E w \in Terminal : row' = [row EXCEPT ![life[i].run] = w],
           UNCHANGED <<registry, service, closing>>
    PROVE  Onward /\ Lives'
<1>1. i \in Unended /\ life[i].run \in Runs
    BY LifeTypes DEF Unended
<1>2. \A r \in Runs : row'[r] # row[r] => r = life[i].run
    BY DEF TypeOK
<1>3. Onward
    BY <1>1, <1>2, PhaseOnward
<1>4. DOMAIN life' = DOMAIN life /\ \A j \in DOMAIN life : j # i => life'[j] = life[j]
    BY DEF GoesOn
<1>5. life'[i].phase = v
    BY DEF GoesOn
<1>6. Told'
    <2>1. ASSUME NEW j \in DOMAIN life'
          PROVE  /\ life'[j].phase = "alive" =>
                        life'[j].abort = None /\ row'[life'[j].run] = "running"
                 /\ life'[j].phase = "starting" => row'[life'[j].run] \in {"none"} \cup Reasons
        <3>1. CASE j = i
            BY <1>5, <3>1
        <3>2. CASE j # i /\ Phase(j) \notin {"alive", "starting"}
            BY <1>4, <3>2 DEF Phase
        <3>3. CASE j # i /\ Phase(j) \in {"alive", "starting"}
            <4>1. j \in Unended /\ life'[j] = life[j] /\ life[j].run \in Runs
                BY <1>4, <3>3, LifeTypes DEF Unended
            <4>2. life[j].run # life[i].run
                BY <1>1, <3>3, <4>1, OnlyOne DEF Lives
            <4>3. row'[life[j].run] = row[life[j].run]
                BY <1>2, <4>1, <4>2
            <4>4. QED
                BY <4>1, <4>3 DEF Told, Lives, Phase, Unended
        <3>4. QED
            BY <3>1, <3>2, <3>3
    <2>2. QED
        BY <2>1 DEF Told, Phase
<1>7. RunningRows'
    <2>1. ASSUME NEW r \in Runs, row'[r] = "running", \E s \in Services : service'[s] # "dead"
          PROVE  \E j \in Alive' : life'[j].run = r
        <3>1. row[r] = "running" /\ (r = life[i].run => Phase(i) # "alive")
            BY <1>1, <1>2, <2>1 DEF TypeOK, Terminal, Final, Reasons
        <3>2. PICK j \in Alive : life[j].run = r
            BY <2>1, <3>1 DEF RunningRows, Lives
        <3>3. j # i /\ j \in DOMAIN life
            BY <3>1, <3>2 DEF Alive
        <3>4. life'[j] = life[j] /\ j \in DOMAIN life'
            BY <1>4, <3>3
        <3>5. QED
            BY <3>2, <3>4 DEF Alive, Phase
    <2>2. QED
        BY <2>1 DEF RunningRows
<1>8. QED
    BY <1>3, <1>6, <1>7, OnwardLives

LEMMA LaunchLives ==
    ASSUME TypeOK, OneProcess, Lives, NEW i \in DOMAIN life, Launch(i)
    PROVE  Onward /\ Lives'
<1> DEFINE a == life[i].abort
           v == IF a = None THEN "alive" ELSE "ended"
<1>1. /\ Phase(i) = "starting" /\ life' = [life EXCEPT ![i].phase = v]
      /\ row' = [row EXCEPT ![life[i].run] = IF a = None THEN "running" ELSE a]
      /\ UNCHANGED <<registry, service, closing>>
    BY DEF Launch
<1>2. i \in Unended /\ life[i].run \in Runs /\ a \in {None, "superseded"} \cup Reasons
    BY <1>1, LifeTypes DEF Unended
<1>3. \A r \in Runs : row'[r] # row[r] => r = life[i].run
    BY <1>1 DEF TypeOK
<1>4. Onward
    <2>1. GoesOn(i, v)
        BY <1>1, PhaseGoesOn
    <2>2. QED
        BY <1>2, <1>3, <2>1, PhaseOnward
<1>5. \A j \in DOMAIN life : j # i => life'[j] = life[j]
    BY <1>1
<1>6. life'[i].phase = v /\ life'[i].abort = a /\ life'[i].run = life[i].run
    BY <1>1, LifeTypes DEF Life
<1>7. row'[life[i].run] = IF a = None THEN "running" ELSE a
    BY <1>1, <1>2 DEF TypeOK
<1>8. DOMAIN life' = DOMAIN life
    BY <1>1
<1>9. Told'
    <2>1. ASSUME NEW j \in DOMAIN life'
          PROVE  /\ life'[j].phase = "alive" =>
                        life'[j].abort = None /\ row'[life'[j].run] = "running"
                 /\ life'[j].phase = "starting" => row'[life'[j].run] \in {"none"} \cup Reasons
        <3>1. CASE j = i
            BY <1>6, <1>7, <3>1
        <3>2. CASE j # i /\ Phase(j) \notin {"alive", "starting"}
            BY <1>5, <1>8, <3>2 DEF Phase
        <3>3. CASE j # i /\ Phase(j) \in {"alive", "starting"}
            <4>1. j \in Unended /\ life'[j] = life[j] /\ life[j].run \in Runs
                BY <1>5, <1>8, <3>3, LifeTypes DEF Unended
            <4>2. life[j].run # life[i].run
                BY <1>2, <3>3, <4>1, OnlyOne DEF Lives
            <4>3. row'[life[j].run] = row[life[j].run]
                BY <1>3, <4>1, <4>2
            <4>4. QED
                BY <4>1, <4>3 DEF Told, Lives, Phase, Unended
        <3>4. QED
            BY <3>1, <3>2, <3>3
    <2>2. QED
        BY <2>1 DEF Told, Phase
<1>10. RunningRows'
    <2>1. ASSUME NEW r \in Runs, row'[r] = "running", \E s \in Services : service'[s] # "dead"
          PROVE  \E j \in Alive' : life'[j].run = r
        <3>1. CASE r = life[i].run
            <4>1. v = "alive"
                BY <1>2, <1>7, <2>1, <3>1 DEF Reasons
            <4>2. QED
                BY <1>6, <1>8, <3>1, <4>1 DEF Alive, Phase
        <3>2. CASE r # life[i].run
            <4>1. row[r] = "running"
                BY <1>3, <2>1, <3>2
            <4>2. PICK j \in Alive : life[j].run = r
                BY <1>1, <2>1, <4>1 DEF RunningRows, Lives
            <4>3. j # i /\ j \in DOMAIN life
                BY <3>2, <4>2 DEF Alive
            <4>4. life'[j] = life[j] /\ j \in DOMAIN life'
                BY <1>5, <1>8, <4>3
            <4>5. QED
                BY <4>2, <4>4 DEF Alive, Phase
        <3>3. QED
            BY <3>1, <3>2
    <2>2. QED
        BY <2>1 DEF RunningRows
<1>11. QED
    BY <1>1, <1>4, <1>9, <1>10, OnwardLives

\* The three ways to go on towards the settlement.
LEMMA EndsLives ==
    ASSUME TypeOK, OneProcess, Lives, NEW i \in DOMAIN life,
           StartFails(i) \/ Track(i) \/ \E v \in Outcomes : End(i, v)
    PROVE  Onward /\ Lives'
<1>1. CASE StartFails(i)
    <2>1. /\ Phase(i) = "starting" /\ row' = row /\ life' = [life EXCEPT ![i].phase = "ended"]
          /\ UNCHANGED <<registry, service, closing>>
        BY <1>1 DEF StartFails
    <2>2. GoesOn(i, "ended")
        BY <2>1, PhaseGoesOn
    <2>3. QED
        BY <2>1, <2>2, EndingLives
<1>2. CASE Track(i)
    <2>1. /\ Phase(i) = "ended" /\ row' = row
          /\ life' = [life EXCEPT ![i].phase = "settled", ![i].abort = None]
          /\ UNCHANGED <<registry, service, closing>>
        BY <1>2 DEF Track
    <2>2. GoesOn(i, "settled")
        BY <2>1, SettledTypes DEF GoesOn
    <2>3. QED
        BY <2>1, <2>2, EndingLives
<1>3. CASE \E v \in Outcomes : End(i, v)
    <2>1. PICK v \in Outcomes : End(i, v)
        BY <1>3
    <2>2. /\ Phase(i) = "alive" /\ row' = [row EXCEPT ![life[i].run] = v]
          /\ life' = [life EXCEPT ![i].phase = "ended"]
          /\ UNCHANGED <<registry, service, closing>>
        BY <2>1 DEF End, Alive
    <2>3. v \in Terminal /\ GoesOn(i, "ended")
        BY <2>2, PhaseGoesOn DEF Outcomes, Terminal, Final, Reasons
    <2>4. QED
        BY <2>2, <2>3, EndingLives
<1>4. QED
    BY <1>1, <1>2, <1>3

LEMMA AbortLives ==
    ASSUME TypeOK, OneProcess, Lives, NEW L \in SUBSET DOMAIN life,
           NEW reason \in {"superseded"} \cup Reasons, Abort(L, reason),
           UNCHANGED <<registry, service, closing>>
    PROVE  Onward /\ Lives'
<1>1. Onward
    BY AbortOnward DEF Lives
<1>2. Told'
    BY AbortTold DEF Lives
<1>3. RunningRows'
    BY AbortRunning DEF Lives
<1>4. QED
    BY <1>1, <1>2, <1>3, OnwardLives

-----------------------------------------------------------------------------
(* Every action keeps the launches. *)

LEMMA InitLives == Init => TypeOK /\ Lives
<1>1. ASSUME Init
      PROVE  Lives
    <2>1. DOMAIN life = {} /\ \A r \in Runs : row[r] = "none"
        BY <1>1 DEF Init
    <2>2. QED
        BY <1>1, <2>1
           DEF Init, Lives, Registered, Held, Told, RowsOK, RunningRows, ClosingOK, Unended
<1>2. QED
    BY <1>1, InitTypes

\* A new run: nobody has its id.
LEMMA FreshIsNew ==
    ASSUME TypeOK, Lives, NEW r \in Minted, Fresh(r)
    PROVE  /\ r \in Runs /\ Quiet(r) /\ row[r] = "none"
           /\ \A i \in DOMAIN life : life[i].run # r
<1>1. r \notin Used
    <2>1. r \in Minted \ Used
        BY DEF Fresh
    <2>2. QED
        BY <2>1
<1>2. \A i \in DOMAIN life : life[i].run # r
    BY <1>1 DEF Used
<1>3. Quiet(r)
    BY <1>2 DEF Quiet, Unended
<1>4. row[r] = "none"
    BY <1>2 DEF Lives, RowsOK, Runs
<1>5. QED
    BY <1>2, <1>3, <1>4 DEF Runs

LEMMA SubmitLives ==
    ASSUME TypeOK, Lives, NEW s \in Services, NEW r \in Minted, Submit(s, r)
    PROVE  Lives'
<1>1. r \in Runs /\ Quiet(r) /\ row[r] = "none"
    BY FreshIsNew DEF Submit
<1>2. Enter(s, r, None, TRUE) /\ service[s] = "open" /\ UNCHANGED <<row, service, closing>>
    BY DEF Submit
<1>3. QED
    BY <1>1, <1>2, EnterLives

LEMMA ResumeLives ==
    ASSUME TypeOK, OneProcess, Lives, NEW s \in Services, NEW r \in Runs, Resume(s, r)
    PROVE  Lives'
<1>1. Quiet(r) /\ row[r] \in Reasons
    BY NotLiveIsQuiet DEF Lives, Resume, Resumable
<1>2. Enter(s, r, None, TRUE) /\ service[s] = "open" /\ UNCHANGED <<row, service, closing>>
    BY DEF Resume
<1>3. QED
    BY <1>1, <1>2, EnterLives

\* An operation may go on when nobody else has launched its run.
MayGoOn(o) ==
    /\ service[o.by] = "open" /\ o.held = TRUE
    /\ Quiet(o.id) /\ row[o.id] \in {"none"} \cup Reasons

LEMMA GoOnLives ==
    ASSUME TypeOK, Lives, NEW c \in Inside, GoOn(c), MayGoOn(op[c])
    PROVE  Lives'
<1>1. op[c] \in Op
    BY DEF TypeOK, Inside
<1>2. op[c].by \in Services /\ op[c].id \in Runs /\ op[c].after \in Runs \cup {None}
    BY <1>1 DEF Op
<1>3. Enter(op[c].by, op[c].id, op[c].after, TRUE) /\ UNCHANGED <<row, service, closing>>
    BY DEF GoOn, MayGoOn
<1>4. PICK t \in Services : t = op[c].by
    BY <1>2
<1>5. PICK r \in Runs : r = op[c].id
    BY <1>2
<1>6. PICK p \in Runs \cup {None} : p = op[c].after
    BY <1>2
<1>7. Enter(t, r, p, TRUE) /\ service[t] = "open" /\ Quiet(r) /\ row[r] \in {"none"} \cup Reasons
    BY <1>3, <1>4, <1>5, <1>6 DEF MayGoOn
<1>8. QED
    BY <1>3, <1>7, EnterLives

LEMMA Same ==
    ASSUME Lives, UNCHANGED <<row, life, registry, service, closing>>
    PROVE  Lives'
<1>1. Unended' = Unended /\ Alive' = Alive
    BY DEF Unended, Alive, Phase
<1>2. Registered' /\ Held'
    BY <1>1 DEF Lives, Registered, Held
<1>3. Told'
    BY DEF Lives, Told, Phase
<1>4. RowsOK' /\ RunningRows' /\ ClosingOK'
    BY <1>1 DEF Lives, RowsOK, RunningRows, ClosingOK
<1>5. QED
    BY <1>2, <1>3, <1>4 DEF Lives

LEMMA AmendAsksLives ==
    ASSUME TypeOK, OneProcess, Lives, NEW c \in Callers, NEW s \in Services, NEW p \in Runs,
           NEW r \in Minted, AmendAsks(c, s, p, r)
    PROVE  Onward /\ Lives'
<1> DEFINE L == {registry[s][p]}
<1>1. /\ Abort(L, "superseded") /\ UNCHANGED <<registry, service, closing>>
      /\ registry[s][p] # 0
    BY DEF AmendAsks, Live
<1>2. L \in SUBSET DOMAIN life
    BY <1>1 DEF Lives, Registered
<1>3. QED
    BY <1>1, <1>2, AbortLives

LEMMA CancelLives ==
    ASSUME TypeOK, OneProcess, Lives, NEW s \in Services, NEW r \in Runs, Cancel(s, r)
    PROVE  Onward /\ Lives'
<1> DEFINE L == {registry[s][r]}
<1>1. Abort(L, "user") /\ UNCHANGED <<registry, op, service, closing>> /\ registry[s][r] # 0
    BY DEF Cancel, Live
<1>2. L \in SUBSET DOMAIN life
    BY <1>1 DEF Lives, Registered
<1>3. QED
    BY <1>1, <1>2, AbortLives DEF Reasons

LEMMA ForgetLives ==
    ASSUME TypeOK, OneProcess, Lives, NEW s \in Services, NEW r \in Runs, Forget(s, r)
    PROVE  Lives'
<1>1. /\ registry' = [registry EXCEPT ![s][r] = 0] /\ ~Live(s, r)
      /\ UNCHANGED <<row, life, op, service, closing>>
    BY DEF Forget
<1>2. Unended' = Unended /\ Alive' = Alive
    BY <1>1 DEF Unended, Alive, Phase
<1>3. Registered'
    BY <1>1 DEF Registered, Lives, TypeOK
<1>4. Held'
    <2>1. ASSUME NEW i \in Unended
          PROVE  /\ service[life[i].by] \in {"open", "closing"}
                 /\ registry'[life[i].by][life[i].run] = i
        <3>1. life[i].run \in Runs /\ life[i].by \in Services
            BY LifeTypes DEF Unended
        <3>2. life[i].run # r
            BY <1>1, NotLiveIsQuiet DEF Lives, Quiet
        <3>3. registry'[life[i].by][life[i].run] = registry[life[i].by][life[i].run]
            BY <1>1, <3>1, <3>2 DEF TypeOK
        <3>4. QED
            BY <3>3 DEF Lives, Held
    <2>2. QED
        BY <1>1, <1>2, <2>1 DEF Held
<1>5. Told'
    BY <1>1 DEF Lives, Told, Phase
<1>6. RowsOK' /\ RunningRows' /\ ClosingOK'
    BY <1>1, <1>2 DEF Lives, RowsOK, RunningRows, ClosingOK
<1>7. QED
    BY <1>3, <1>4, <1>5, <1>6 DEF Lives

LEMMA CloseLives ==
    ASSUME TypeOK, OneProcess, Lives, NEW s \in Services, Close(s)
    PROVE  Onward /\ Lives'
<1> DEFINE L == Unsettled(s)
<1>1. /\ service[s] = "open" /\ service' = [service EXCEPT ![s] = "closing"]
      /\ closing' = [closing EXCEPT ![s] = L]
      /\ Abort(L, "interrupted") /\ registry' = registry /\ op' = op
    BY DEF Close
<1>2. L \in SUBSET DOMAIN life /\ "interrupted" \in {"superseded"} \cup Reasons
    BY DEF Unsettled, Reasons
<1>3. \A t \in Services : t = s
    BY DEF OneProcess
<1>4. service'[s] = "closing" /\ closing'[s] = L
    BY <1>1 DEF TypeOK
<1>5. Onward
    BY <1>1, <1>2, AbortOnward DEF Lives
<1>6. Registered'
    BY <1>1, <1>5, OnwardRegistered DEF Lives
<1>7. Held'
    BY <1>1, <1>3, <1>4, <1>5, OnwardHeld DEF Lives
<1>8. Told'
    BY <1>1, <1>2, AbortTold DEF Lives
<1>9. RowsOK'
    BY <1>5, OnwardRows DEF Lives
<1>10. RunningRows'
    BY <1>1, <1>2, <1>3, AbortRunning DEF Lives
<1>11. ClosingOK'
    <2>1. ASSUME NEW i \in Unended'
          PROVE  i \in closing'[life'[i].by]
        <3>1. i \in Unended /\ i \in DOMAIN life /\ life'[i].by = life[i].by
            BY <1>5 DEF Onward, Unended
        <3>2. life[i].by = s /\ life[i].run \in Runs
            BY <1>3, <3>1, LifeTypes
        <3>3. registry[s][life[i].run] = i /\ Phase(i) # "settled"
            BY <3>1, <3>2 DEF Lives, Held, Unended
        <3>4. i \in L
            BY <3>1, <3>2, <3>3 DEF Unsettled
        <3>5. QED
            BY <1>4, <3>1, <3>2, <3>4
    <2>2. QED
        BY <2>1 DEF ClosingOK
<1>12. QED
    BY <1>5, <1>6, <1>7, <1>8, <1>9, <1>10, <1>11 DEF Lives

\* When no launch is going on and no row says running, little is left to keep.
LEMMA StillLives ==
    ASSUME Registered', RowsOK', Unended' = {},
           \/ \A r \in Runs : row'[r] # "running"
           \/ \A s \in Services : service'[s] = "dead"
    PROVE  Lives'
<1>1. Held' /\ ClosingOK'
    BY DEF Held, ClosingOK
<1>2. Told'
    BY DEF Told, Unended
<1>3. RunningRows'
    BY DEF RunningRows
<1>4. QED
    BY <1>1, <1>2, <1>3 DEF Lives

LEMMA SettledLives ==
    ASSUME TypeOK, OneProcess, Lives, NEW s \in Services, Settled(s)
    PROVE  Lives'
<1>1. /\ service[s] = "closing" /\ \A i \in closing[s] : Phase(i) = "settled"
      /\ UNCHANGED <<row, life, registry, op>>
    BY DEF Settled
<1>2. \A t \in Services : t = s
    BY DEF OneProcess
<1>3. Unended = {}
    <2>1. ASSUME NEW i \in Unended
          PROVE  FALSE
        <3>1. life[i].by = s
            BY <1>2, LifeTypes DEF Unended
        <3>2. i \in closing[s]
            BY <1>1, <3>1 DEF Lives, ClosingOK
        <3>3. QED
            BY <1>1, <3>2 DEF Unended
    <2>2. QED
        BY <2>1
<1>4. Unended' = {}
    BY <1>1, <1>3 DEF Unended, Phase
<1>5. \A r \in Runs : row'[r] # "running"
    BY <1>1, <1>3 DEF Lives, RunningRows, Alive, Unended
<1>6. Registered' /\ RowsOK'
    BY <1>1 DEF Lives, Registered, RowsOK
<1>7. QED
    BY <1>4, <1>5, <1>6, StillLives

LEMMA ClosedLives ==
    ASSUME TypeOK, OneProcess, Lives, NEW s \in Services, Closed(s)
    PROVE  Lives'
<1>1. service[s] = "cleaning" /\ UNCHANGED <<row, life, registry, op>>
    BY DEF Closed
<1>2. Unended = {}
    BY <1>1, LifeTypes DEF Lives, Held, OneProcess, Unended
<1>3. Unended' = {}
    BY <1>1, <1>2 DEF Unended, Phase
<1>4. \A r \in Runs : row'[r] # "running"
    BY <1>1, <1>2 DEF Lives, RunningRows, Alive, Unended
<1>5. Registered' /\ RowsOK'
    BY <1>1 DEF Lives, Registered, RowsOK
<1>6. QED
    BY <1>3, <1>4, <1>5, StillLives

LEMMA CrashLives ==
    ASSUME TypeOK, OneProcess, Lives, NEW s \in Services, Crash(s)
    PROVE  /\ \A r \in Runs : row'[r] = row[r]
           /\ Lives'
<1>1. \A t \in Services : t = s
    BY DEF OneProcess
<1>2. row' = row /\ DOMAIN life' = DOMAIN life
    BY DEF Crash
<1>3. \A i \in DOMAIN life : life'[i].run = life[i].run
    BY LifeTypes DEF Crash, Life
<1>4. Unended' = {}
    <2>1. ASSUME NEW i \in DOMAIN life
          PROVE  life'[i].phase \in {"settled", "gone"}
        <3>1. life[i] \in Life /\ life[i].by = s
            BY <1>1, LifeTypes
        <3>2. QED
            BY <3>1 DEF Crash, Life, Phase
    <2>2. QED
        BY <1>2, <2>1 DEF Unended, Phase
<1>5. Registered'
    BY <1>1 DEF Crash, Registered, TypeOK
<1>6. RowsOK'
    BY <1>2, <1>3 DEF RowsOK, Lives
<1>7. \A t \in Services : service'[t] = "dead"
    BY <1>1 DEF Crash, TypeOK
<1>8. QED
    BY <1>2, <1>4, <1>5, <1>6, <1>7, StillLives

LEMMA OpenLives ==
    ASSUME TypeOK, OneProcess, Lives, NEW s \in Services, Open(s)
    PROVE  Lives'
<1>1. \A t \in Services : t = s
    BY DEF OneProcess
<1>2. service[s] \in {"closed", "dead"} /\ life' = life
    BY DEF Open
<1>3. Unended = {}
    BY <1>1, <1>2, LifeTypes DEF Lives, Held, Unended
<1>4. Unended' = {}
    BY <1>2, <1>3 DEF Unended, Phase
<1>5. \A r \in Runs : row'[r] # "running" /\ (row'[r] # "none" => row[r] # "none")
    BY DEF Open, Reconciled
<1>6. Registered'
    BY <1>1 DEF Open, Registered, TypeOK
<1>7. RowsOK'
    BY <1>2, <1>5 DEF RowsOK, Lives
<1>8. QED
    BY <1>4, <1>5, <1>6, <1>7, StillLives

LEMMA LivesStep ==
    ASSUME TypeOK, OneProcess, Lives, [Next]_vars,
           \A c \in Inside : GoOn(c) => MayGoOn(op[c])
    PROVE  Lives'
<1>1. CASE \E i \in DOMAIN life : \/ Launch(i) \/ StartFails(i) \/ Track(i)
                                  \/ \E v \in Outcomes : End(i, v)
    BY <1>1, LaunchLives, EndsLives
<1>2. CASE \E c \in Inside : GoOn(c)
    BY <1>2, GoOnLives
<1>3. CASE \E s \in Services : Close(s) \/ Settled(s) \/ Closed(s) \/ Crash(s) \/ Open(s)
    BY <1>3, CloseLives, SettledLives, ClosedLives, CrashLives, OpenLives
<1>4. CASE \E s \in Services : \E r \in Minted : Submit(s, r)
    BY <1>4, SubmitLives
<1>5. CASE \E s \in Services : \E r \in Runs : Forget(s, r) \/ Cancel(s, r) \/ Resume(s, r)
    BY <1>5, ForgetLives, CancelLives, ResumeLives
<1>6. CASE \E c \in Callers : \E s \in Services : \E p \in Runs : \E r \in Minted :
               AmendAsks(c, s, p, r)
    BY <1>6, AmendAsksLives
<1>7. CASE UNCHANGED <<row, life, registry, service, closing>>
    BY <1>7, Same
<1>8. ASSUME NEW c \in Inside, Import(c)
      PROVE  UNCHANGED <<row, life, registry, service, closing>>
    BY <1>8 DEF Import
<1>9. ASSUME NEW s \in Services, NEW i \in Leases, Cleanup(s, i)
      PROVE  UNCHANGED <<row, life, registry, service, closing>>
    BY <1>9 DEF Cleanup, Release, ReleaseFails, Retry
<1>10. ASSUME NEW c \in Callers, NEW s \in Services,
              \/ \E r \in Runs : ResumeAsks(c, s, r)
              \/ \E p \in Runs : \E r \in Minted : AmendSettledRun(c, s, p, r)
              \/ \E p \in Minted : ReviseAsks(c, s, p)
       PROVE  UNCHANGED <<row, life, registry, service, closing>>
    BY <1>10 DEF ResumeAsks, AmendSettledRun, ReviseAsks
<1>11. CASE UNCHANGED vars
    BY <1>7, <1>11 DEF vars
<1>12. QED
    BY <1>1, <1>2, <1>3, <1>4, <1>5, <1>6, <1>7, <1>8, <1>9, <1>10, <1>11 DEF Next, Progress

-----------------------------------------------------------------------------
(* Operations beside each other. *)

\* As long as nobody launches r, what is known of it stays.
Spared(r) == Quiet(r) => Quiet(r)' /\ row'[r] = row[r] /\ from'[r] = from[r]

LEMMA StillApart ==
    ASSUME NEW o \in Op, ApartOK(o), o.stage # "verify" => Spared(o.id)
    PROVE  ApartOK(o)'
<1>1. CASE o.stage = "verify"
    BY <1>1 DEF ApartOK
<1>2. CASE o.stage # "verify"
    <2>1. Quiet(o.id) /\ Quiet(o.id)' /\ row'[o.id] = row[o.id] /\ from'[o.id] = from[o.id]
        BY <1>2 DEF ApartOK, Spared
    <2>2. QED
        BY <1>2, <2>1 DEF ApartOK
<1>3. QED
    BY <1>1, <1>2

\* One operation begins, goes on or ends, the others are spared.
LEMMA OneOfThem ==
    ASSUME TypeOK, OpsApart, NEW c \in Callers, \A d \in Callers : d # c => op'[d] = op[d],
           \A d \in Inside : d # c /\ op[d].stage # "verify" => Spared(op[d].id),
           op'[c] # None =>
               /\ ApartOK(op[c])'
               /\ \A d \in Inside : d # c /\ op'[c].after # None /\ op[d].after # None =>
                     op'[c].id # op[d].id
    PROVE  OpsApart'
<1>1. ASSUME NEW d \in Inside'
      PROVE  /\ ApartOK(op[d])'
             /\ d # c => d \in Inside /\ op'[d] = op[d]
    <2>1. d \in Callers /\ op'[d] # None
        BY DEF Inside
    <2>2. CASE d = c
        BY <2>1, <2>2
    <2>3. CASE d # c
        <3>1. op'[d] = op[d] /\ d \in Inside
            BY <2>1, <2>3 DEF Inside
        <3>2. PICK o \in Op : o = op[d]
            BY <3>1 DEF TypeOK, Inside
        <3>3. ApartOK(o) /\ (o.stage # "verify" => Spared(o.id))
            BY <2>3, <3>1, <3>2 DEF OpsApart
        <3>4. ApartOK(o)'
            BY <3>3, StillApart
        <3>5. QED
            BY <3>1, <3>2, <3>4
    <2>4. QED
        BY <2>2, <2>3
<1>2. ASSUME NEW d \in Inside', NEW e \in Inside',
             op'[d].after # None, op'[e].after # None, op'[d].id = op'[e].id
      PROVE  d = e
    <2>1. CASE d # c /\ e # c
        BY <1>1, <1>2, <2>1 DEF OpsApart
    <2>2. CASE d = c /\ e # c
        <3>1. op'[c] # None /\ e \in Inside /\ op'[e] = op[e]
            BY <1>1, <2>2 DEF Inside
        <3>2. QED
            BY <1>2, <2>2, <3>1
    <2>3. CASE d # c /\ e = c
        <3>1. op'[c] # None /\ d \in Inside /\ op'[d] = op[d]
            BY <1>1, <2>3 DEF Inside
        <3>2. QED
            BY <1>2, <2>3, <3>1
    <2>4. QED
        BY <2>1, <2>2, <2>3
<1>3. QED
    BY <1>1, <1>2 DEF OpsApart

LEMMA NoneOfThem ==
    ASSUME TypeOK, OpsApart, op' = op,
           \A d \in Inside : op[d].stage # "verify" => Spared(op[d].id)
    PROVE  OpsApart'
<1>1. Inside' = Inside
    BY DEF Inside
<1>2. ASSUME NEW d \in Inside
      PROVE  ApartOK(op[d])'
    <2>1. PICK o \in Op : o = op[d]
        BY DEF TypeOK, Inside
    <2>2. ApartOK(o) /\ (o.stage # "verify" => Spared(o.id))
        BY <2>1 DEF OpsApart
    <2>3. ApartOK(o)'
        BY <2>2, StillApart
    <2>4. QED
        BY <2>1, <2>3
<1>3. QED
    BY <1>1, <1>2 DEF OpsApart

LEMMA NobodyInside ==
    ASSUME Inside' = {}
    PROVE  OpsApart'
BY DEF OpsApart

LEMMA OnwardSpares ==
    ASSUME Onward, NEW r \in Runs, Quiet(r) => from'[r] = from[r]
    PROVE  Spared(r)
BY OnwardQuiet DEF Onward, Spared

LEMMA SameSpares ==
    ASSUME UNCHANGED <<row, from, life>>, NEW r
    PROVE  Spared(r)
BY DEF Spared, Quiet, Unended, Phase

LEMMA EnterSpares ==
    ASSUME NEW s, NEW q, NEW p, NEW held, Enter(s, q, p, held), UNCHANGED <<row, from>>,
           NEW r, r # q
    PROVE  Spared(r)
<1> DEFINE n == Cardinality(DOMAIN life) + 1
           new == [run |-> q, after |-> p, by |-> s, abort |-> None, phase |-> "starting"]
<1>1. life' = [j \in DOMAIN life \cup {n} |-> IF j \in DOMAIN life THEN life[j] ELSE new]
    BY DEF Enter
<1> HIDE DEF n
<1>2. \A j \in DOMAIN life' : life'[j] = new \/ (j \in DOMAIN life /\ life'[j] = life[j])
    BY <1>1
<1>3. new.run = q
    OBVIOUS
<1> HIDE DEF new
<1>4. Quiet(r) => Quiet(r)'
    BY <1>2, <1>3 DEF Quiet, Unended, Phase
<1>5. QED
    BY <1>4 DEF Spared

\* What an operation is known to be.
LEMMA OpTypes ==
    ASSUME TypeOK, NEW c \in Inside
    PROVE  /\ c \in Callers /\ op[c] \in Op /\ op[c] # None
           /\ op[c].by \in Services /\ op[c].id \in Runs /\ op[c].after \in Runs \cup {None}
           /\ op[c].stage \in {"verify", "settle", "import"}
BY DEF TypeOK, Op, Inside

LEMMA MayGoOnApart ==
    ASSUME InvApart, Apart, NEW c \in Inside, GoOn(c)
    PROVE  MayGoOn(op[c])
BY DEF InvApart, OpsApart, ApartOK, Apart, GoOn, MayGoOn

LEMMA SubmitApart ==
    ASSUME InvApart, NEW s \in Services, NEW r \in Minted, Submit(s, r)
    PROVE  OpsApart'
<1>1. Enter(s, r, None, TRUE) /\ UNCHANGED <<row, from, op>>
    BY DEF Submit
<1>2. r \notin Used
    <2>1. r \in Minted \ Used
        BY DEF Submit, Fresh
    <2>2. QED
        BY <2>1
<1>3. \A d \in Inside : Spared(op[d].id)
    BY <1>1, <1>2, EnterSpares DEF Used
<1>4. QED
    BY <1>1, <1>3, NoneOfThem DEF InvApart

LEMMA ResumeApart ==
    ASSUME InvApart, NEW s \in Services, NEW r \in Runs, Resume(s, r)
    PROVE  OpsApart'
<1>1. Enter(s, r, None, TRUE) /\ UNCHANGED <<row, from, op>>
    BY DEF Resume
<1>2. row[r] \in Reasons /\ from[r] = None
    BY DEF Resume, Resumable
<1>3. ASSUME NEW d \in Inside, op[d].stage # "verify"
      PROVE  Spared(op[d].id)
    <2>1. op[d].id # r
        BY <1>2, <1>3 DEF InvApart, OpsApart, ApartOK, Reasons
    <2>2. QED
        BY <1>1, <2>1, EnterSpares
<1>4. QED
    BY <1>1, <1>3, NoneOfThem DEF InvApart

\* The run is launched by the operation that has it, and by no other.
LEMMA GoOnApart ==
    ASSUME InvApart, Apart, NEW c \in Inside, GoOn(c)
    PROVE  OpsApart'
<1>1. /\ Enter(op[c].by, op[c].id, op[c].after, op[c].held) /\ UNCHANGED <<row, from>>
      /\ op' = [op EXCEPT ![c] = None] /\ op[c].stage = "import"
    BY DEF GoOn
<1>2. c \in Callers
    BY DEF Inside
<1>3. op'[c] = None /\ \A d \in Callers : d # c => op'[d] = op[d]
    BY <1>1, <1>2 DEF InvApart, TypeOK
<1>4. ASSUME NEW d \in Inside, d # c, op[d].stage # "verify"
      PROVE  Spared(op[d].id)
    <2>1. op[d].id # op[c].id
        <3>1. ApartOK(op[c]) /\ ApartOK(op[d])
            BY DEF InvApart, OpsApart
        <3>2. CASE op[c].after = None /\ op[d].after = None
            BY <1>4, <3>2 DEF Apart
        <3>3. CASE op[c].after # None /\ op[d].after # None
            BY <1>4, <3>3 DEF InvApart, OpsApart
        <3>4. CASE op[c].after = None /\ op[d].after # None
            BY <1>4, <3>1, <3>4 DEF ApartOK, Reasons
        <3>5. CASE op[c].after # None /\ op[d].after = None
            BY <1>1, <3>1, <3>5 DEF ApartOK, Reasons
        <3>6. QED
            BY <3>2, <3>3, <3>4, <3>5
    <2>2. QED
        BY <1>1, <2>1, EnterSpares
<1>5. QED
    BY <1>2, <1>3, <1>4, OneOfThem DEF InvApart

LEMMA ResumeAsksApart ==
    ASSUME InvApart, OneProcess, NEW c \in Callers, NEW s \in Services, NEW r \in Runs,
           ResumeAsks(c, s, r)
    PROVE  OpsApart'
<1>1. UNCHANGED <<row, from, life>>
    BY DEF ResumeAsks
<1>2. Quiet(r) /\ row[r] \in Reasons /\ from[r] # None
    BY NotLiveIsQuiet DEF InvApart, Lives, ResumeAsks, Resumable
<1>3. /\ op'[c] = [stage |-> "import", by |-> s, held |-> TRUE, after |-> None, id |-> r, waits |-> 0]
      /\ \A d \in Callers : d # c => op'[d] = op[d]
    BY DEF ResumeAsks, Ask, InvApart, TypeOK
<1>4. ApartOK(op[c])'
    BY <1>1, <1>2, <1>3 DEF ApartOK, Quiet, Unended, Phase
<1>5. op'[c].after = None
    BY <1>3
<1>6. QED
    BY <1>1, <1>3, <1>4, <1>5, SameSpares, OneOfThem DEF InvApart

\* An amendment has an id nobody else has.
LEMMA AmendApart ==
    ASSUME InvApart, OneProcess, NEW c \in Callers, NEW s \in Services, NEW p \in Runs,
           NEW r \in Minted, AmendAsks(c, s, p, r) \/ AmendSettledRun(c, s, p, r)
    PROVE  OpsApart'
<1>1. /\ Onward /\ from' = from
    <2>1. CASE AmendAsks(c, s, p, r)
        BY <2>1, AmendAsksLives DEF InvApart, AmendAsks
    <2>2. CASE AmendSettledRun(c, s, p, r)
        BY <2>2 DEF AmendSettledRun, Onward, Unended, Phase
    <2>3. QED
        BY <2>1, <2>2
<1>2. /\ \A d \in Callers : d # c => op'[d] = op[d]
      /\ op'[c].held = TRUE /\ op'[c].after = p /\ op'[c].id = r
    BY DEF AmendAsks, AmendSettledRun, Ask, InvApart, TypeOK
<1>3. Fresh(r)
    BY DEF AmendAsks, AmendSettledRun
<1>4. r \in Runs /\ Quiet(r) /\ row[r] = "none"
    BY <1>3, FreshIsNew DEF InvApart
<1>5. Quiet(r)' /\ row'[r] = "none"
    BY <1>1, <1>4, OnwardQuiet DEF Onward
<1>6. p # None /\ r \notin Revised
    BY NoneIsNone, RunServiceAssumption
<1>7. ApartOK(op[c])'
    BY <1>2, <1>5, <1>6 DEF ApartOK
<1>8. r \notin Used
    <2>1. r \in Minted \ Used
        BY <1>3 DEF Fresh
    <2>2. QED
        BY <2>1
<1>9. \A d \in Inside : op'[c].id # op[d].id
    BY <1>2, <1>8 DEF Used
<1>10. \A d \in Inside : Spared(op[d].id)
    BY <1>1, OpTypes, OnwardSpares DEF InvApart
<1>11. QED
    BY <1>2, <1>7, <1>9, <1>10, OneOfThem DEF InvApart

\* Two requests for one revision are one: revisionAdmissions.
LEMMA ReviseAsksApart ==
    ASSUME InvApart, OneProcess, NEW c \in Callers, NEW s \in Services, NEW p \in Minted,
           ReviseAsks(c, s, p)
    PROVE  OpsApart'
<1>1. UNCHANGED <<row, from, life>> /\ RevisionOf[p] # None
    BY DEF ReviseAsks
<1>2. /\ op'[c] = [stage |-> "verify", by |-> s, held |-> TRUE, after |-> p,
                   id |-> RevisionOf[p], waits |-> 0]
      /\ \A d \in Callers : d # c => op'[d] = op[d]
    BY DEF ReviseAsks, Ask, InvApart, TypeOK
<1>3. p # None /\ RevisionOf[p] \in Revised
    BY <1>1, NoneIsNone, RunServiceAssumption DEF Runs
<1>4. ApartOK(op[c])'
    BY <1>2, <1>3 DEF ApartOK
<1>5. ASSUME NEW d \in Inside, op[d].after # None, op[d].id = RevisionOf[p]
      PROVE  FALSE
    <2>1. op[d].after \in Minted /\ RevisionOf[op[d].after] = RevisionOf[p] /\ op[d].held = TRUE
        BY <1>3, <1>5 DEF InvApart, OpsApart, ApartOK
    <2>2. op[d].after = p
        BY <1>1, <2>1, RunServiceAssumption
    <2>3. op[d].by = s
        BY OpTypes DEF InvApart, OneProcess
    <2>4. QED
        BY <1>5, <2>1, <2>2, <2>3 DEF ReviseAsks
<1>6. op'[c].id = RevisionOf[p]
    BY <1>2
<1>7. QED
    BY <1>1, <1>2, <1>4, <1>5, <1>6, SameSpares, OneOfThem DEF InvApart

LEMMA ImportApart ==
    ASSUME InvApart, OneProcess, NEW c \in Inside, Import(c)
    PROVE  OpsApart'
<1> DEFINE o == op[c]
           known == o.stage = "verify" /\ (registry[o.by][o.id] # 0 \/ row[o.id] # "none")
<1>1. UNCHANGED <<row, from, life>> /\ o.stage \in {"settle", "verify"}
    BY DEF Import
<1>2. c \in Callers /\ o \in Op /\ ApartOK(o) /\ o.id \in Runs /\ o.by \in Services
    BY OpTypes DEF InvApart, OpsApart
<1>3. /\ op'[c] = IF row[o.after] \in Terminal /\ ~known
                  THEN [o EXCEPT !.stage = "import", !.waits = 0] ELSE None
      /\ \A d \in Callers : d # c => op'[d] = op[d]
    BY <1>2 DEF Import, InvApart, TypeOK
<1>4. ASSUME op'[c] # None
      PROVE  /\ ApartOK(op[c])'
             /\ op'[c].id = o.id /\ o.after # None
    <2>1. op'[c] = [o EXCEPT !.stage = "import", !.waits = 0] /\ ~known
        BY <1>3, <1>4
    <2>2. /\ op'[c].held = o.held /\ op'[c].id = o.id
          /\ op'[c].after = o.after /\ op'[c].stage = "import"
        BY <1>2, <2>1 DEF Op
    <2>3. o.after # None
        BY <1>1, <1>2 DEF ApartOK
    <2>4. Quiet(o.id) /\ row[o.id] = "none"
        <3>1. CASE o.stage = "settle"
            BY <1>2, <2>3, <3>1 DEF ApartOK
        <3>2. CASE o.stage = "verify"
            <4>1. registry[o.by][o.id] = 0 /\ row[o.id] = "none"
                BY <2>1, <3>2
            <4>2. ~Live(o.by, o.id)
                BY <4>1 DEF Live
            <4>3. QED
                BY <1>2, <4>1, <4>2, NotLiveIsQuiet DEF InvApart, Lives
        <3>3. QED
            BY <1>1, <3>1, <3>2
    <2>5. Quiet(op[c].id)' /\ row'[op'[c].id] = "none"
        BY <1>1, <2>2, <2>4 DEF Quiet, Unended, Phase
    <2>6. ApartOK(op[c])'
        BY <1>2, <2>2, <2>3, <2>5 DEF ApartOK
    <2>7. QED
        BY <2>2, <2>3, <2>6
<1>5. \A d \in Inside : d # c /\ o.after # None /\ op[d].after # None => o.id # op[d].id
    BY DEF InvApart, OpsApart
<1>6. op'[c] # None =>
          /\ ApartOK(op[c])'
          /\ \A d \in Inside : d # c /\ op'[c].after # None /\ op[d].after # None =>
                op'[c].id # op[d].id
    BY <1>4, <1>5
<1>7. \A d \in Inside : Spared(op[d].id)
    BY <1>1, SameSpares
<1>8. QED
    BY <1>2, <1>3, <1>6, <1>7, OneOfThem DEF InvApart

LEMMA LaunchApart ==
    ASSUME InvApart, OneProcess, NEW i \in DOMAIN life, Launch(i)
    PROVE  OpsApart'
<1>1. Onward /\ op' = op
    BY LaunchLives DEF InvApart, Launch
<1>2. i \in Unended
    BY DEF Launch, Unended
<1>3. ASSUME NEW r \in Runs, Quiet(r)
      PROVE  from'[r] = from[r]
    BY <1>2, <1>3 DEF Quiet, Launch, InvApart, TypeOK
<1>4. \A d \in Inside : Spared(op[d].id)
    BY <1>1, <1>3, OpTypes, OnwardSpares DEF InvApart
<1>5. QED
    BY <1>1, <1>4, NoneOfThem DEF InvApart

LEMMA OnwardApart ==
    ASSUME InvApart, Onward, UNCHANGED <<from, op>>
    PROVE  OpsApart'
<1>1. \A d \in Inside : Spared(op[d].id)
    BY OpTypes, OnwardSpares DEF InvApart
<1>2. QED
    BY <1>1, NoneOfThem DEF InvApart

LEMMA SameApart ==
    ASSUME InvApart, UNCHANGED <<row, from, life, op>>
    PROVE  OpsApart'
BY SameSpares, NoneOfThem DEF InvApart

LEMMA ServiceApart ==
    ASSUME InvApart, OneProcess, Apart, Apart', NEW s \in Services,
           Close(s) \/ Settled(s) \/ Closed(s) \/ Crash(s) \/ Open(s)
    PROVE  OpsApart'
<1>1. ASSUME NEW c \in Inside'
      PROVE  FALSE
    <2>1. c \in Inside
        BY DEF Inside, Close, Settled, Closed, Crash, Open
    <2>2. op[c].by = s
        BY <2>1, OpTypes DEF InvApart, OneProcess
    <2>3. service[s] = "open"
        BY <2>1, <2>2 DEF Apart
    <2>4. CASE Close(s)
        <3>1. op' = op /\ service'[s] = "closing"
            BY <2>4 DEF Close, InvApart, TypeOK
        <3>2. QED
            BY <2>2, <3>1 DEF Apart
    <2>5. CASE Crash(s)
        BY <2>1, <2>2, <2>5 DEF Crash, Inside
    <2>6. QED
        BY <2>3, <2>4, <2>5 DEF Settled, Closed, Open
<1>2. QED
    BY <1>1, NobodyInside

LEMMA NextApart ==
    ASSUME InvApart, OneProcess, Apart, Apart', [Next]_vars
    PROVE  InvApart'
<1>1. TypeOK'
    BY NextTypes DEF InvApart
<1>2. Lives'
    BY LivesStep, MayGoOnApart DEF InvApart
<1>3. CASE \E i \in DOMAIN life : \/ Launch(i) \/ StartFails(i) \/ Track(i)
                                  \/ \E v \in Outcomes : End(i, v)
    <2>1. ASSUME NEW i \in DOMAIN life, StartFails(i) \/ Track(i) \/ \E v \in Outcomes : End(i, v)
          PROVE  OpsApart'
        <3>1. Onward
            BY <2>1, EndsLives DEF InvApart
        <3>2. UNCHANGED <<from, op>>
            BY <2>1 DEF StartFails, Track, End
        <3>3. QED
            BY <3>1, <3>2, OnwardApart
    <2>2. QED
        BY <1>1, <1>2, <1>3, <2>1, LaunchApart DEF InvApart
<1>4. CASE \E c \in Inside : Import(c) \/ GoOn(c)
    BY <1>1, <1>2, <1>4, ImportApart, GoOnApart DEF InvApart
<1>5. CASE \E s \in Services : Close(s) \/ Settled(s) \/ Closed(s) \/ Crash(s) \/ Open(s)
    BY <1>1, <1>2, <1>5, ServiceApart DEF InvApart
<1>6. CASE \E s \in Services : \/ \E r \in Minted : Submit(s, r)
                               \/ \E r \in Runs : Resume(s, r)
    BY <1>1, <1>2, <1>6, SubmitApart, ResumeApart DEF InvApart
<1>7. CASE \E s \in Services : \E r \in Runs : Cancel(s, r)
    <2>1. Onward /\ UNCHANGED <<from, op>>
        BY <1>7, CancelLives DEF InvApart, Cancel
    <2>2. QED
        BY <1>1, <1>2, <2>1, OnwardApart DEF InvApart
<1>8. CASE \/ \E s \in Services : \E r \in Runs : Forget(s, r)
           \/ \E s \in Services : \E i \in Leases : Cleanup(s, i)
           \/ UNCHANGED vars
    <2>1. UNCHANGED <<row, from, life, op>>
        BY <1>8 DEF Forget, Cleanup, Release, ReleaseFails, Retry, vars
    <2>2. QED
        BY <1>1, <1>2, <2>1, SameApart DEF InvApart
<1>9. CASE \E c \in Callers : \E s \in Services : \E r \in Runs : ResumeAsks(c, s, r)
    BY <1>1, <1>2, <1>9, ResumeAsksApart DEF InvApart
<1>10. CASE \E c \in Callers : \E s \in Services : \E p \in Runs : \E r \in Minted :
               AmendAsks(c, s, p, r) \/ AmendSettledRun(c, s, p, r)
    BY <1>1, <1>2, <1>10, AmendApart DEF InvApart
<1>11. CASE \E c \in Callers : \E s \in Services : \E p \in Minted : ReviseAsks(c, s, p)
    BY <1>1, <1>2, <1>11, ReviseAsksApart DEF InvApart
<1>12. QED
    BY <1>3, <1>4, <1>5, <1>6, <1>7, <1>8, <1>9, <1>10, <1>11 DEF Next, Progress

LEMMA InitApart == Init => InvApart
<1>1. Init => Inside = {}
    BY DEF Init, Inside
<1>2. QED
    BY <1>1, InitLives DEF InvApart, OpsApart

LEMMA InvApartHolds ==
    ASSUME OneProcess
    PROVE  Spec /\ []Apart => []InvApart
<1>1. InvApart /\ Apart /\ Apart' /\ [Next]_vars => InvApart'
    BY NextApart
<1>2. QED
    BY <1>1, InitApart, PTL DEF Spec

-----------------------------------------------------------------------------
(* What follows for any number of callers in one process. *)

\* Every engine is the one that its service, still open, holds for its run: cancel
\* and close reach it, unless an operation went on after the service was closed.
THEOREM EnginesAreOwned ==
    ASSUME OneProcess
    PROVE  Spec /\ []Apart => []Owned
<1>1. InvApart => Owned
    BY DEF InvApart, Lives, Held, Owned, Unended, Alive
<1>2. QED
    BY <1>1, InvApartHolds, PTL

\* Submissions, amendments, revisions, and resumes of different runs never give one
\* run two engines, however many callers wait at once: only two resumes of the same
\* run can (as the run that lets them shows), or one that outlives its service.
THEOREM OneEngineEach ==
    ASSUME OneProcess
    PROVE  Spec /\ []Apart => []OneEngine
<1>1. ASSUME InvApart
      PROVE  OneEngine
    <2>1. ASSUME NEW i \in Alive, NEW j \in Alive, life[i].run = life[j].run
          PROVE  i = j
        <3>1. i \in Unended /\ j \in Unended
            BY DEF Alive, Unended
        <3>2. QED
            BY <1>1, <2>1, <3>1, OnlyOne DEF InvApart, Lives
    <2>2. QED
        BY <2>1 DEF OneEngine
<1>2. QED
    BY <1>1, InvApartHolds, PTL

\* While a service is open, a row that says running has an engine behind it,
\* whatever crashes came before.
THEOREM RunningRunsRun ==
    ASSUME OneProcess
    PROVE  Spec /\ []Apart => []RunningIsTrue
<1>1. InvApart => RunningIsTrue
    BY DEF InvApart, Lives, RunningRows, RunningIsTrue
<1>2. QED
    BY <1>1, InvApartHolds, PTL

-----------------------------------------------------------------------------
(* The rows. *)

\* Rows that only leave running, for a stop or for good, settle.
LEMMA RowsSettle ==
    ASSUME TypeOK, TypeOK', \A r \in Runs : row'[r] # row[r] =>
               row[r] = "running" /\ row'[r] \in Terminal
    PROVE  Rows!RowsNext
<1> DEFINE S == {r \in Runs : row'[r] # row[r]}
           v == [r \in S |-> row'[r]]
<1>1. v \in [S -> Rows!Final \cup Reasons]
    BY DEF Terminal, Final, Rows!Final
<1>2. \A r \in S : row[r] = "running"
    OBVIOUS
<1>3. row' = [r \in Runs |-> IF r \in S THEN v[r] ELSE row[r]]
    BY DEF TypeOK
<1>4. Rows!Settle(S)
    BY <1>1, <1>2, <1>3 DEF Rows!Settle
<1>5. QED
    BY <1>4 DEF Rows!RowsNext

LEMMA AbortSettles ==
    ASSUME TypeOK, Lives, TypeOK', NEW L \in SUBSET DOMAIN life,
           NEW reason \in {"superseded"} \cup Reasons, Abort(L, reason)
    PROVE  Rows!RowsNext
<1>1. ASSUME NEW r \in Runs, row'[r] # row[r]
      PROVE  row[r] = "running" /\ row'[r] \in Terminal
    <2>1. row'[r] = reason /\ \E i \in L : Phase(i) = "alive" /\ life[i].run = r
        BY <1>1, AbortActs DEF Lives
    <2>2. QED
        BY <2>1 DEF Lives, Told, Terminal, Final
<1>2. QED
    BY <1>1, RowsSettle

LEMMA LaunchBegins ==
    ASSUME TypeOK, Lives, NEW i \in DOMAIN life, Launch(i)
    PROVE  Rows!RowsNext
<1>1. /\ life[i].run \in Runs /\ row[life[i].run] \in {"none"} \cup Reasons
      /\ life[i].abort \in {None, "superseded"} \cup Reasons
    BY LifeTypes DEF Lives, Told, Launch
<1>2. CASE life[i].abort = None
    <2>1. Rows!Begin(life[i].run)
        BY <1>1, <1>2 DEF Launch, Rows!Begin
    <2>2. QED
        BY <1>1, <2>1 DEF Rows!RowsNext
<1>3. CASE life[i].abort # None
    <2>1. Rows!Stillborn(life[i].run)
        BY <1>1, <1>3 DEF Launch, Rows!Stillborn
    <2>2. QED
        BY <1>1, <2>1 DEF Rows!RowsNext
<1>4. QED
    BY <1>2, <1>3

LEMMA RowsStep ==
    ASSUME TypeOK, Lives, [Next]_vars
    PROVE  [Rows!RowsNext]_row
<1>1. TypeOK'
    BY NextTypes
<1>2. ASSUME NEW i \in DOMAIN life, Launch(i)
      PROVE  Rows!RowsNext
    BY <1>2, LaunchBegins
<1>3. ASSUME NEW i \in DOMAIN life, NEW v \in Outcomes, End(i, v)
      PROVE  Rows!RowsNext
    <2>1. row[life[i].run] = "running" /\ row' = [row EXCEPT ![life[i].run] = v]
        BY <1>3 DEF Lives, Told, End, Alive
    <2>2. \A r \in Runs : row'[r] # row[r] => row[r] = "running" /\ row'[r] \in Terminal
        BY <2>1 DEF TypeOK, Outcomes, Terminal, Final, Reasons
    <2>3. QED
        BY <1>1, <2>2, RowsSettle
<1>4. ASSUME NEW s \in Services, NEW r \in Runs, Cancel(s, r)
      PROVE  Rows!RowsNext
    <2>1. Abort({registry[s][r]}, "user") /\ registry[s][r] # 0
        BY <1>4 DEF Cancel, Live
    <2>2. {registry[s][r]} \in SUBSET DOMAIN life
        BY <2>1 DEF Lives, Registered
    <2>3. QED
        BY <1>1, <2>1, <2>2, AbortSettles DEF Reasons
<1>5. ASSUME NEW c \in Callers, NEW s \in Services, NEW p \in Runs, NEW r \in Minted,
             AmendAsks(c, s, p, r)
      PROVE  Rows!RowsNext
    <2>1. Abort({registry[s][p]}, "superseded") /\ registry[s][p] # 0
        BY <1>5 DEF AmendAsks, Live
    <2>2. {registry[s][p]} \in SUBSET DOMAIN life
        BY <2>1 DEF Lives, Registered
    <2>3. QED
        BY <1>1, <2>1, <2>2, AbortSettles
<1>6. ASSUME NEW s \in Services, Close(s)
      PROVE  Rows!RowsNext
    <2>1. Abort(Unsettled(s), "interrupted") /\ Unsettled(s) \in SUBSET DOMAIN life
        BY <1>6 DEF Close, Unsettled
    <2>2. QED
        BY <1>1, <2>1, AbortSettles DEF Reasons
<1>7. ASSUME NEW s \in Services, Open(s)
      PROVE  Rows!RowsNext
    <2>1. \A r \in Runs : row'[r] # row[r] => row[r] = "running" /\ row'[r] \in Terminal
        BY <1>7 DEF Open, Reconciled, Terminal, Reasons
    <2>2. QED
        BY <1>1, <2>1, RowsSettle
<1>8. ASSUME NEW i \in DOMAIN life, StartFails(i) \/ Track(i)
      PROVE  row' = row
    BY <1>8 DEF StartFails, Track
<1>9. ASSUME NEW c \in Inside, Import(c) \/ GoOn(c)
      PROVE  row' = row
    BY <1>9 DEF Import, GoOn
<1>10. ASSUME NEW s \in Services, \/ Settled(s) \/ Closed(s) \/ Crash(s)
                                  \/ \E r \in Runs : Forget(s, r) \/ Resume(s, r)
                                  \/ \E r \in Minted : Submit(s, r)
                                  \/ \E i \in Leases : Cleanup(s, i)
       PROVE  row' = row
    BY <1>10 DEF Settled, Closed, Crash, Forget, Resume, Submit, Cleanup, Release, ReleaseFails, Retry
<1>11. ASSUME NEW c \in Callers, NEW s \in Services,
              \/ \E r \in Runs : ResumeAsks(c, s, r)
              \/ \E p \in Runs : \E r \in Minted : AmendSettledRun(c, s, p, r)
              \/ \E p \in Minted : ReviseAsks(c, s, p)
       PROVE  row' = row
    BY <1>11 DEF ResumeAsks, AmendSettledRun, ReviseAsks
<1>12. CASE UNCHANGED vars
    BY <1>12 DEF vars
<1>13. QED
    BY <1>2, <1>3, <1>4, <1>5, <1>6, <1>7, <1>8, <1>9, <1>10, <1>11, <1>12 DEF Next, Progress

\* The rows are those of RunRows: a run that completed, failed or was superseded
\* never runs again, through resumes, amendments, closing, crashes and reconciliation.
THEOREM RowsImplemented ==
    ASSUME OneProcess
    PROVE  Spec /\ []Apart => ImplementsRows
<1>1. Init => Rows!RowsInit
    BY DEF Init, Rows!RowsInit
<1>2. InvApart /\ [Next]_vars => [Rows!RowsNext]_row
    BY RowsStep DEF InvApart
<1>3. QED
    BY <1>1, <1>2, InvApartHolds, PTL DEF Spec, ImplementsRows, Rows!RowsSpec
-----------------------------------------------------------------------------
(* Callers who come one after another. *)

LEMMA InitInv == Init => Inv
<1>1. Init => \A c \in Callers : op[c] = None
    BY DEF Init
<1>2. QED
    BY <1>1, InitLives DEF Inv, OpsOK

LEMMA MayGoOnInv ==
    ASSUME Inv, NEW c \in Inside, GoOn(c)
    PROVE  MayGoOn(op[c])
<1>1. OpOK(op[c]) /\ op[c].stage = "import"
    BY DEF Inv, OpsOK, Inside, GoOn
<1>2. QED
    BY <1>1 DEF OpOK, MayGoOn

\* An operation that begins alone.
LEMMA Asked ==
    ASSUME Lone, Inv, NEW c \in Callers, op'[c] # None => OpOK(op[c])'
    PROVE  OpsOK'
BY DEF Lone, OpsOK

LEMMA ResumeAsksInv ==
    ASSUME Lone, Inv, NEW c \in Callers, NEW s \in Services, NEW r \in Runs, ResumeAsks(c, s, r)
    PROVE  OpsOK'
<1>1. UNCHANGED <<row, life, registry, service, closing>>
    BY DEF ResumeAsks
<1>2. Quiet(r) /\ row[r] \in Reasons
    BY NotLiveIsQuiet DEF Lone, Inv, Lives, ResumeAsks, Resumable
<1>3. op'[c] = [stage |-> "import", by |-> s, held |-> TRUE, after |-> None, id |-> r, waits |-> 0]
    BY DEF ResumeAsks, Ask, Inv, TypeOK
<1>4. OpOK(op[c])'
    BY <1>1, <1>2, <1>3 DEF OpOK, Quiet, Unended, Phase, ResumeAsks
<1>5. QED
    BY <1>4, Asked

LEMMA AmendAsksInv ==
    ASSUME Lone, Inv, NEW c \in Callers, NEW s \in Services, NEW p \in Runs, NEW r \in Minted,
           AmendAsks(c, s, p, r)
    PROVE  OpsOK'
<1>1. Fresh(r) /\ service[s] = "open" /\ service' = service
    BY DEF AmendAsks
<1>2. Onward
    BY AmendAsksLives DEF Lone, Inv
<1>3. r \in Runs /\ Quiet(r) /\ row[r] = "none" /\ \A i \in DOMAIN life : life[i].run # r
    BY <1>1, FreshIsNew DEF Inv
<1>4. \A i \in Unended : life[i].run = p => i = registry[s][p]
    <2>1. \A i \in Unended : life[i].by = s
        BY LifeTypes DEF Lone, OneProcess, Inv, Unended
    <2>2. QED
        BY <2>1 DEF Inv, Lives, Held
<1>5. op'[c] = [stage |-> "settle", by |-> s, held |-> TRUE, after |-> p, id |-> r,
                waits |-> registry[s][p]]
    BY DEF AmendAsks, Ask, Inv, TypeOK
<1>6. row'[r] = "none" /\ \A i \in DOMAIN life' : life'[i].run # r
    BY <1>2, <1>3 DEF Onward
<1>7. \A i \in Unended' : i \in Unended /\ life'[i].run = life[i].run
    BY <1>2 DEF Onward, Unended
<1>8. \A i \in Unended' : life'[i].run = p => i = registry[s][p]
    BY <1>4, <1>7
<1>9. OpOK(op[c])'
    BY <1>1, <1>5, <1>6, <1>8, NoneIsNone DEF OpOK
<1>10. QED
    BY <1>9, Asked

LEMMA AmendSettledRunInv ==
    ASSUME Lone, Inv, NEW c \in Callers, NEW s \in Services, NEW p \in Runs, NEW r \in Minted,
           AmendSettledRun(c, s, p, r)
    PROVE  OpsOK'
<1>1. UNCHANGED <<row, life, registry, service, closing>>
    BY DEF AmendSettledRun
<1>2. Quiet(r) /\ row[r] = "none"
    BY FreshIsNew DEF Inv, AmendSettledRun
<1>3. Quiet(p) /\ row[p] \in Terminal
    BY NotLiveIsQuiet DEF Lone, Inv, Lives, AmendSettledRun
<1>4. op'[c] = [stage |-> "import", by |-> s, held |-> TRUE, after |-> p, id |-> r, waits |-> 0]
    BY DEF AmendSettledRun, Ask, Inv, TypeOK
<1>5. OpOK(op[c])'
    BY <1>1, <1>2, <1>3, <1>4 DEF OpOK, Quiet, Unended, Phase, AmendSettledRun
<1>6. QED
    BY <1>5, Asked

LEMMA ReviseAsksInv ==
    ASSUME Lone, Inv, NEW c \in Callers, NEW s \in Services, NEW p \in Minted, ReviseAsks(c, s, p)
    PROVE  OpsOK'
<1>1. UNCHANGED <<row, life, registry, service, closing>>
    BY DEF ReviseAsks
<1>2. Quiet(p) /\ p # None
    <2>1. p \in Runs
        BY DEF Runs
    <2>2. QED
        BY <2>1, NotLiveIsQuiet, NoneIsNone DEF Lone, Inv, Lives, ReviseAsks
<1>3. op'[c] = [stage |-> "verify", by |-> s, held |-> TRUE, after |-> p, id |-> RevisionOf[p],
                waits |-> 0]
    BY DEF ReviseAsks, Ask, Inv, TypeOK
<1>4. OpOK(op[c])'
    BY <1>1, <1>2, <1>3 DEF OpOK, Quiet, Unended, Phase, ReviseAsks
<1>5. QED
    BY <1>4, Asked

LEMMA ImportInv ==
    ASSUME Lone, Inv, NEW c \in Inside, Import(c)
    PROVE  OpsOK'
<1> DEFINE o == op[c]
           known == o.stage = "verify" /\ (registry[o.by][o.id] # 0 \/ row[o.id] # "none")
<1>1. UNCHANGED <<row, life, registry, service, closing>>
    BY DEF Import
<1>2. c \in Callers /\ o \in Op /\ OpOK(o)
    BY DEF Inv, TypeOK, OpsOK, Inside
<1>3. op'[c] = IF row[o.after] \in Terminal /\ ~known
                 THEN [o EXCEPT !.stage = "import", !.waits = 0] ELSE None
    BY <1>2 DEF Import, Inv, TypeOK
<1>4. ASSUME op'[c] # None
      PROVE  OpOK(op[c])'
    <2>1. op'[c] = [o EXCEPT !.stage = "import", !.waits = 0] /\ row[o.after] \in Terminal /\ ~known
        BY <1>3, <1>4
    <2>2. /\ op'[c].by = o.by /\ op'[c].held = o.held /\ op'[c].id = o.id
          /\ op'[c].after = o.after /\ op'[c].stage = "import"
        BY <1>2, <2>1 DEF Op
    <2>3. service[o.by] = "open" /\ o.held = TRUE
        BY <1>2 DEF OpOK
    <2>4. Quiet(o.id) /\ row[o.id] = "none" /\ Quiet(o.after)
        <3>1. CASE o.stage = "settle"
            <4>1. /\ row[o.id] = "none" /\ \A i \in DOMAIN life : life[i].run # o.id
                  /\ \A i \in Unended : life[i].run = o.after => i = o.waits
                BY <1>2, <3>1 DEF OpOK
            <4>2. Phase(o.waits) = "settled"
                BY <3>1 DEF Import
            <4>3. QED
                BY <4>1, <4>2 DEF Quiet, Unended
        <3>2. CASE o.stage = "verify"
            <4>1. Quiet(o.after)
                BY <1>2, <3>2 DEF OpOK
            <4>2. registry[o.by][o.id] = 0 /\ row[o.id] = "none"
                BY <2>1, <3>2
            <4>3. ~Live(o.by, o.id) /\ o.by \in Services /\ o.id \in Runs
                BY <1>2, <4>2 DEF Live, Op
            <4>4. QED
                BY <4>1, <4>2, <4>3, NotLiveIsQuiet DEF Lone, Inv, Lives
        <3>3. QED
            BY <3>1, <3>2 DEF Import
    <2>5. QED
        BY <1>1, <2>1, <2>2, <2>3, <2>4 DEF OpOK, Quiet, Unended, Phase
<1>5. QED
    BY <1>2, <1>4, Asked

\* The service ends, or is opened, when nothing is under way in it.
LEMMA ServiceInv ==
    ASSUME Lone, Inv, NEW s \in Services,
           Close(s) \/ Settled(s) \/ Closed(s) \/ Crash(s) \/ Open(s)
    PROVE  OpsOK'
<1>1. \A t \in Services : t = s
    BY DEF Lone, OneProcess
<1>2. ASSUME NEW c \in Callers
      PROVE  op'[c] = None
    <2>1. CASE Close(s)
        BY <2>1, NoneInside DEF Close
    <2>2. CASE Crash(s)
        BY <1>1, <2>2 DEF Crash, Inv, TypeOK, Op
    <2>3. CASE Settled(s) \/ Closed(s) \/ Open(s)
        <3>1. service[s] # "open"
            BY <2>3 DEF Settled, Closed, Open
        <3>2. op[c] = None
            BY <1>1, <3>1 DEF Inv, TypeOK, Op, OpsOK, OpOK
        <3>3. QED
            BY <2>3, <3>2 DEF Settled, Closed, Open
    <2>4. QED
        BY <2>1, <2>2, <2>3
<1>3. QED
    BY <1>2 DEF OpsOK

LEMMA NextInv ==
    ASSUME Lone, Inv, [Next]_vars
    PROVE  Inv'
<1>1. TypeOK'
    BY NextTypes DEF Inv
<1>2. Lives'
    BY LivesStep, MayGoOnInv DEF Inv, Lone
<1>3. CASE \E i \in DOMAIN life : \/ Launch(i) \/ StartFails(i) \/ Track(i)
                                  \/ \E v \in Outcomes : End(i, v)
    <2>1. Onward
        BY <1>3, LaunchLives, EndsLives DEF Inv, Lone
    <2>2. op' = op /\ service' = service
        BY <1>3 DEF Launch, StartFails, Track, End
    <2>3. QED
        BY <1>1, <1>2, <2>1, <2>2, OnwardOps DEF Inv
<1>4. CASE \E s \in Services : \E r \in Runs : Cancel(s, r)
    <2>1. Onward
        BY <1>4, CancelLives DEF Inv, Lone
    <2>2. op' = op /\ service' = service
        BY <1>4 DEF Cancel
    <2>3. QED
        BY <1>1, <1>2, <2>1, <2>2, OnwardOps DEF Inv
<1>5. CASE \E c \in Inside : Import(c)
    BY <1>1, <1>2, <1>5, ImportInv DEF Inv
<1>6. CASE \/ \E c \in Inside : GoOn(c)
           \/ \E s \in Services : \/ \E r \in Minted : Submit(s, r)
                                 \/ \E r \in Runs : Resume(s, r)
    <2>1. ASSUME NEW d \in Callers
          PROVE  op'[d] = None
        <3>1. CASE \E c \in Inside : GoOn(c)
            BY <3>1 DEF GoOn, Inside, Lone, Inv, TypeOK
        <3>2. CASE \E s \in Services : \/ \E r \in Minted : Submit(s, r)
                                      \/ \E r \in Runs : Resume(s, r)
            BY <3>2, NobodyElse DEF Submit, Resume, Inside
        <3>3. QED
            BY <1>6, <3>1, <3>2
    <2>2. QED
        BY <1>1, <1>2, <2>1 DEF Inv, OpsOK
<1>7. CASE \E s \in Services : Close(s) \/ Settled(s) \/ Closed(s) \/ Crash(s) \/ Open(s)
    BY <1>1, <1>2, <1>7, ServiceInv DEF Inv
<1>8. CASE \E c \in Callers : \E s \in Services : \E r \in Runs : ResumeAsks(c, s, r)
    BY <1>1, <1>2, <1>8, ResumeAsksInv DEF Inv
<1>9. CASE \E c \in Callers : \E s \in Services : \E p \in Runs : \E r \in Minted :
               AmendAsks(c, s, p, r) \/ AmendSettledRun(c, s, p, r)
    BY <1>1, <1>2, <1>9, AmendAsksInv, AmendSettledRunInv DEF Inv
<1>10. CASE \E c \in Callers : \E s \in Services : \E p \in Minted : ReviseAsks(c, s, p)
    BY <1>1, <1>2, <1>10, ReviseAsksInv DEF Inv
<1>11. CASE \/ \E s \in Services : \E r \in Runs : Forget(s, r)
            \/ \E s \in Services : \E i \in Leases : Cleanup(s, i)
            \/ UNCHANGED vars
    <2>1. UNCHANGED <<row, life, op, service>>
        BY <1>11 DEF Forget, Cleanup, Release, ReleaseFails, Retry, vars
    <2>2. OpsOK'
        BY <2>1 DEF Inv, OpsOK, OpOK, Quiet, Unended, Phase
    <2>3. QED
        BY <1>1, <1>2, <2>2 DEF Inv
<1>12. QED
    BY <1>3, <1>4, <1>5, <1>6, <1>7, <1>8, <1>9, <1>10, <1>11 DEF Next, Progress

LEMMA InvHolds ==
    ASSUME Lone
    PROVE  Spec => []Inv
<1>1. Inv /\ [Next]_vars => Inv'
    BY NextInv
<1>2. QED
    BY <1>1, InitInv, PTL DEF Spec

\* Only the three entries launch.
LEMMA WhoEnters ==
    ASSUME TypeOK, OneProcess, Lives, [Next]_vars, DOMAIN life' # DOMAIN life
    PROVE  \/ \E s \in Services : \E r \in Runs : Enter(s, r, None, TRUE)
           \/ \E c \in Inside : GoOn(c)
<1>1. ~UNCHANGED life
    OBVIOUS
<1>2. ASSUME NEW i \in DOMAIN life
      PROVE  ~Launch(i) /\ ~StartFails(i) /\ ~Track(i) /\ \A v \in Outcomes : ~End(i, v)
    BY DEF Launch, StartFails, Track, End
<1>3. ASSUME NEW c \in Inside
      PROVE  ~Import(c)
    BY <1>1 DEF Import
<1>4. ASSUME NEW s \in Services
      PROVE  /\ ~Settled(s) /\ ~Closed(s) /\ ~Open(s) /\ ~Crash(s) /\ ~Close(s)
             /\ \A r \in Runs : ~Forget(s, r) /\ ~Cancel(s, r)
             /\ \A i \in Leases : ~Cleanup(s, i)
    BY <1>1, CloseLives, CancelLives
       DEF Cleanup, Release, ReleaseFails, Retry, Settled, Closed, Open, Crash, Forget, Onward
<1>5. ASSUME NEW c \in Callers, NEW s \in Services, NEW p \in Runs
      PROVE  /\ ~ResumeAsks(c, s, p)
             /\ \A r \in Minted : ~AmendAsks(c, s, p, r) /\ ~AmendSettledRun(c, s, p, r)
    BY <1>1, AmendAsksLives DEF ResumeAsks, AmendSettledRun, Onward
<1>6. ASSUME NEW c \in Callers, NEW s \in Services, NEW p \in Minted
      PROVE  ~ReviseAsks(c, s, p)
    BY <1>1 DEF ReviseAsks
<1>7. ASSUME NEW s \in Services, NEW r \in Minted, Submit(s, r)
      PROVE  r \in Runs /\ Enter(s, r, None, TRUE)
    BY <1>7 DEF Submit, Runs
<1>8. ASSUME NEW s \in Services, NEW r \in Runs, Resume(s, r)
      PROVE  Enter(s, r, None, TRUE)
    BY <1>8 DEF Resume
<1>9. QED
    BY <1>1, <1>2, <1>3, <1>4, <1>5, <1>6, <1>7, <1>8 DEF Next, Progress, vars

\* A successor is launched when its predecessor has settled, in the journal and in
\* the registry, and never beside it.
THEOREM SuccessorsWait ==
    ASSUME Lone
    PROVE  Spec => AfterSettlement
<1>1. ASSUME Inv, [Next]_vars, NEW i \in DOMAIN life' \ DOMAIN life, life'[i].after # None
      PROVE  /\ row[life'[i].after] \in Terminal
             /\ \A j \in DOMAIN life : life[j].run = life'[i].after => Phase(j) \in {"settled", "gone"}
    <2>1. DOMAIN life' # DOMAIN life
        BY <1>1
    <2>2. CASE \E s \in Services : \E r \in Runs : Enter(s, r, None, TRUE)
        <3>1. life'[i].after = None
            BY <1>1, <2>2 DEF Enter
        <3>2. QED
            BY <1>1, <3>1
    <2>3. CASE \E c \in Inside : GoOn(c)
        <3>1. PICK c \in Inside : GoOn(c)
            BY <2>3
        <3>2. /\ Enter(op[c].by, op[c].id, op[c].after, op[c].held)
              /\ op[c].after # None => Quiet(op[c].after) /\ row[op[c].after] \in Terminal
            BY <1>1, <3>1 DEF Inv, OpsOK, OpOK, Inside, GoOn
        <3>3. life'[i].after = op[c].after
            BY <1>1, <3>2 DEF Enter
        <3>4. Quiet(op[c].after) /\ row[op[c].after] \in Terminal
            BY <1>1, <3>2, <3>3
        <3>5. ASSUME NEW j \in DOMAIN life, life[j].run = op[c].after
              PROVE  Phase(j) \in {"settled", "gone"}
            <4>1. Phase(j) \in {"starting", "alive", "ended", "settled", "gone"}
                BY <1>1, LifeTypes DEF Inv, Phase
            <4>2. QED
                BY <3>4, <3>5, <4>1 DEF Quiet, Unended
        <3>6. QED
            BY <3>3, <3>4, <3>5
    <2>4. QED
        BY <1>1, <2>1, <2>2, <2>3, WhoEnters DEF Lone, Inv
<1>2. Inv /\ [Next]_vars =>
          [\A i \in DOMAIN life' \ DOMAIN life : life'[i].after # None =>
              /\ row[life'[i].after] \in Terminal
              /\ \A j \in DOMAIN life : life[j].run = life'[i].after =>
                    Phase(j) \in {"settled", "gone"}]_vars
    BY <1>1
<1>3. QED
    BY <1>2, InvHolds, PTL DEF Spec, AfterSettlement
=============================================================================
