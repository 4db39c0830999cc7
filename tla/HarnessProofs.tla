--------------------------- MODULE HarnessProofs ---------------------------
(***************************************************************************)
(* What Harness's run checks with two subagents and three requests, for    *)
(* every script: the types, the single verdict, that a completion is never *)
(* taken for a crash and that an ask never overtakes the creation of its   *)
(* subagent.  The invariants that concern the enders (Ended), the          *)
(* completion line (Heard) and the handles (Known) are inductive one after *)
(* the other.                                                              *)
(***************************************************************************)
EXTENDS Harness, TLAPS

-----------------------------------------------------------------------------
(* Lines and sequences of lines. *)

\* A line is known by its kind.
LEMMA LineFacts ==
    ASSUME NEW l \in Line
    PROVE  /\ l.kind = "create-actor" =>
                l.handle \in Handles /\ l = [kind |-> "create-actor", handle |-> l.handle]
           /\ l.kind = "request" =>
                l.id \in Requests /\ l = [kind |-> "request", id |-> l.id]
           /\ l.kind = "complete" => l.ok \in BOOLEAN
  BY DEF Line, Created, Asked, Completed, Broken

\* Reading the first of some lines.
LEMMA TailFacts ==
    ASSUME NEW S, NEW s \in Seq(S), s # <<>>
    PROVE  /\ Head(s) \in S /\ Head(s) = s[1]
           /\ Tail(s) \in Seq(S) /\ Len(Tail(s)) = Len(s) - 1 /\ Len(s) \in Nat \ {0}
           /\ \A i \in 1..(Len(s) - 1) : Tail(s)[i] = s[i + 1]
  OBVIOUS

\* Writing one more line.
LEMMA AppendFacts ==
    ASSUME NEW S, NEW s \in Seq(S), NEW l \in S
    PROVE  /\ Append(s, l) \in Seq(S) /\ Len(Append(s, l)) = Len(s) + 1 /\ Len(s) \in Nat
           /\ \A i \in 1..Len(s) : Append(s, l)[i] = s[i]
           /\ Append(s, l)[Len(s) + 1] = l
  OBVIOUS

\* What is left when a process dies are lines it wrote, in their places, and
\* perhaps a broken one.
LEMMA FlushedFacts ==
    ASSUME NEW s \in Seq(Line), NEW f \in Flushed(s)
    PROVE  /\ f \in Seq(Line)
           /\ \A i \in DOMAIN f : f[i] = Broken \/ (i \in DOMAIN s /\ f[i] = s[i])
           /\ \A i \in DOMAIN f : f[i] # Broken => \A j \in 1..i : j \in DOMAIN s /\ f[j] = s[j]
  <1> DEFINE upTo(n) == SubSeq(s, 1, n)
  <1>1. \A n \in 0..Len(s) : /\ upTo(n) \in Seq(Line) /\ Len(upTo(n)) = n
                             /\ \A i \in 1..n : upTo(n)[i] = s[i]
    OBVIOUS
  <1>2. Broken \in Line
    BY DEF Line
  <1>3. CASE \E n \in 0..Len(s) : f = upTo(n)
    <2>1. PICK n \in 0..Len(s) : f = upTo(n)
      BY <1>3
    <2>2. DOMAIN f = 1..n
      BY <1>1, <2>1
    <2>3. QED
      BY <1>1, <2>1, <2>2
  <1>4. CASE \E n \in 1..Len(s) : f = Append(upTo(n - 1), Broken)
    <2>1. PICK n \in 1..Len(s) : f = Append(upTo(n - 1), Broken)
      BY <1>4
    <2> DEFINE g == upTo(n - 1)
    <2>2. n - 1 \in 0..Len(s) /\ n \in Nat
      OBVIOUS
    <2>3. g \in Seq(Line) /\ Len(g) = n - 1 /\ \A i \in 1..(n - 1) : g[i] = s[i]
      BY <1>1, <2>2
    <2> HIDE DEF g
    <2>4. f = Append(g, Broken)
      BY <2>1 DEF g
    <2>5. /\ f \in Seq(Line) /\ Len(f) = n /\ f[n] = Broken
          /\ \A i \in 1..(n - 1) : f[i] = s[i]
      BY <1>2, <2>2, <2>3, <2>4
    <2>6. DOMAIN f = 1..n /\ DOMAIN s = 1..Len(s)
      BY <2>5
    <2>7. QED
      BY <2>2, <2>5, <2>6
  <1>5. QED
    BY <1>3, <1>4 DEF Flushed

-----------------------------------------------------------------------------
(* Types. *)

LEMMA TypeInit == Init => TypeOK
  <1>1. <<>> \in Seq(Line) /\ <<>> \in Seq(Requests)
    OBVIOUS
  <1>2. QED
    BY <1>1, Zenon DEF Init, TypeOK, Processes

LEMMA TypeStep == TypeOK /\ [Next]_vars => TypeOK'
  <1> SUFFICES ASSUME TypeOK, [Next]_vars PROVE TypeOK'
    OBVIOUS
  <1> USE HarnessAssumption
  <1>1. CASE ReadCreate
    BY <1>1, TailFacts, LineFacts DEF ReadCreate, TypeOK, NextLine, Judge, Listening, bridge, sandbox, Verdicts
  <1>2. CASE ReadRequest
    <2>1. out' \in Seq(Line) /\ Head(out).id \in Requests
      BY <1>2, TailFacts, LineFacts DEF ReadRequest, NextLine, TypeOK
    <2>2. inp' \in Seq(Requests) /\ atEngine' \subseteq Requests
      <3> DEFINE r == Head(out).id
      <3>1. inp' \in {inp, Append(inp, r)} /\ atEngine' \in {atEngine, atEngine \cup {r}}
        BY <1>2 DEF ReadRequest, Respond, Unknown
      <3>2. r \in Requests
        BY <2>1
      <3> HIDE DEF r
      <3>3. Append(inp, r) \in Seq(Requests)
        BY <3>2 DEF TypeOK
      <3>4. QED
        BY <3>1, <3>2, <3>3 DEF TypeOK
    <2>3. UNCHANGED <<status, actorMap, bridge, signal, process, sandbox>>
      BY <1>2 DEF ReadRequest
    <2>4. QED
      BY <2>1, <2>2, <2>3 DEF TypeOK, bridge, sandbox
  <1>3. CASE ReadComplete
    BY <1>3, TailFacts DEF ReadComplete, TypeOK, NextLine, Judge, Listening, bridge, sandbox, Verdicts
  <1>4. CASE ReadBroken
    BY <1>4, TailFacts DEF ReadBroken, TypeOK, NextLine, Judge, Listening, bridge, sandbox, Verdicts
  <1>5. CASE SpawnError
    BY <1>5 DEF SpawnError, TypeOK, Judge, bridge, sandbox, Verdicts, Processes
  <1>6. CASE Close
    BY <1>6 DEF Close, TypeOK, Judge, bridge, sandbox, Verdicts, Processes
  <1>7. CASE Finalize
    BY <1>7 DEF Finalize, TypeOK, engine, sandbox, Verdicts, Processes
  <1>8. CASE Die
    BY <1>8, FlushedFacts DEF Die, TypeOK, engine, bridge, sandbox, Processes
  <1>9. CASE StartFails
    BY <1>9 DEF StartFails, TypeOK, Judge, bridge, sandbox, Verdicts, Processes
  <1>10. CASE Start
    BY <1>10 DEF Start, TypeOK, sandbox, Verdicts, Processes
  <1>11. ASSUME NEW h \in Handles, Create(h) PROVE TypeOK'
    <2>1. [kind |-> "create-actor", handle |-> h] \in Line
      BY DEF Line, Created
    <2>2. QED
      BY <1>11, <2>1 DEF Create, Emit, TypeOK, engine, bridge
  <1>12. ASSUME NEW r \in Requests, Ask(r) PROVE TypeOK'
    <2>1. [kind |-> "request", id |-> r] \in Line
      BY DEF Line, Asked
    <2>2. QED
      BY <1>12, <2>1 DEF Ask, Emit, TypeOK, engine, bridge
  <1>13. ASSUME NEW ok \in BOOLEAN, Finish(ok) PROVE TypeOK'
    <2>1. [kind |-> "complete", ok |-> ok] \in Line
      BY DEF Line, Completed
    <2>2. QED
      BY <1>13, <2>1 DEF Finish, Emit, TypeOK, engine, bridge
  <1>14. CASE Deliver
    BY <1>14, TailFacts DEF Deliver, TypeOK, engine, bridge
  <1>15. CASE Exit
    BY <1>15 DEF Exit, TypeOK, engine, bridge, sandbox, Processes
  <1>16. CASE Timer
    BY <1>16 DEF Timer, TypeOK, Judge, bridge, sandbox, Verdicts
  <1>17. ASSUME NEW r \in Requests, Answer(r) PROVE TypeOK'
    BY <1>17 DEF Answer, Respond, TypeOK, bridge, sandbox
  <1>18. ASSUME NEW reason \in Reasons, Abort(reason) PROVE TypeOK'
    BY <1>18 DEF Abort, Judge, TypeOK, bridge, sandbox, Verdicts
  <1>19. ASSUME NEW v \in {"errored", "provider"}, Decide(v) PROVE TypeOK'
    BY <1>19 DEF Decide, TypeOK, bridge, sandbox, Verdicts
  <1>20. CASE UNCHANGED vars
    BY <1>20 DEF vars, TypeOK
  <1>21. QED
    BY <1>1, <1>2, <1>3, <1>4, <1>5, <1>6, <1>7, <1>8, <1>9, <1>10, <1>11, <1>12, <1>13,
       <1>14, <1>15, <1>16, <1>17, <1>18, <1>19, <1>20 DEF Next, Progress, Over

\* The variables of the harness keep their types: only known requests, handles
\* and verdicts are ever on the pipes, with the engine or returned.
THEOREM TypeCorrect == Spec => []TypeOK
  BY TypeInit, TypeStep, PTL DEF Spec

-----------------------------------------------------------------------------
(* The enders. *)

\* Before there is a process nothing has happened; a bridge that listens to
\* nothing, one that has returned and one that kills its process have a verdict;
\* a process exits once its script has ended.
Ended ==
    /\ process = "none" => status = "running" /\ script = "running" /\ ~attached
    /\ process # "none" /\ ~attached => status # "running"
    /\ returned # None => status # "running"
    /\ process = "killed" => status # "running"
    /\ process = "exited" => script # "running"

ControlInv == TypeOK /\ Ended /\ AbortedNeverRuns

\* A verdict, once given, is not taken back, and what is returned is it.
VerdictLaw == (status # "running" => status' = status) /\ (returned' = returned \/ returned' = status')

LEMMA ControlInit == Init => ControlInv
  <1>1. Init => Ended /\ AbortedNeverRuns
    BY DEF Init, Ended, AbortedNeverRuns
  <1>2. QED
    BY <1>1, TypeInit DEF ControlInv

LEMMA ControlStep == ControlInv /\ [Next]_vars => ControlInv' /\ VerdictLaw
  <1> SUFFICES ASSUME ControlInv, [Next]_vars PROVE ControlInv' /\ VerdictLaw
    OBVIOUS
  <1> USE HarnessAssumption
  <1>1. TypeOK /\ Ended /\ AbortedNeverRuns
    BY DEF ControlInv
  <1>2. TypeOK'
    BY <1>1, TypeStep
  <1> DEFINE Goal == Ended' /\ AbortedNeverRuns' /\ VerdictLaw
  <1> SUFFICES Goal
    BY <1>2 DEF ControlInv
  <1>3. CASE ReadCreate
    BY <1>1, <1>3 DEF ReadCreate, NextLine, Judge, Listening, bridge, sandbox, Ended, AbortedNeverRuns, VerdictLaw
  <1>4. CASE ReadRequest
    <2>1. UNCHANGED <<status, actorMap, bridge, signal, process, sandbox>>
      BY <1>4 DEF ReadRequest
    <2>2. QED
      BY <1>1, <2>1 DEF bridge, sandbox, Ended, AbortedNeverRuns, VerdictLaw
  <1>5. CASE ReadComplete
    BY <1>1, <1>5 DEF ReadComplete, NextLine, Judge, Listening, bridge, sandbox, Ended, AbortedNeverRuns, VerdictLaw
  <1>6. CASE ReadBroken
    BY <1>1, <1>6 DEF ReadBroken, NextLine, Judge, Listening, bridge, sandbox, Ended, AbortedNeverRuns, VerdictLaw
  <1>7. CASE SpawnError
    BY <1>1, <1>7 DEF SpawnError, Judge, Listening, bridge, sandbox, Ended, AbortedNeverRuns, VerdictLaw
  <1>8. CASE Close
    BY <1>1, <1>8 DEF Close, Judge, Listening, bridge, sandbox, Ended, AbortedNeverRuns, VerdictLaw
  <1>9. CASE Finalize
    BY <1>1, <1>9 DEF Finalize, engine, sandbox, Ended, AbortedNeverRuns, VerdictLaw
  <1>10. CASE Die
    BY <1>1, <1>10 DEF Die, engine, bridge, sandbox, Ended, AbortedNeverRuns, VerdictLaw
  <1>11. CASE StartFails
    BY <1>1, <1>11 DEF StartFails, Judge, bridge, sandbox, Ended, AbortedNeverRuns, VerdictLaw
  <1>12. CASE Start
    <2>1. signal # None => signal # "running"
      BY <1>1 DEF TypeOK
    <2>2. QED
      BY <1>1, <1>12, <2>1 DEF Start, sandbox, Ended, AbortedNeverRuns, VerdictLaw
  <1>13. ASSUME NEW h \in Handles, Create(h) PROVE Goal
    BY <1>1, <1>13 DEF Create, Emit, engine, bridge, Ended, AbortedNeverRuns, VerdictLaw
  <1>14. ASSUME NEW r \in Requests, Ask(r) PROVE Goal
    BY <1>1, <1>14 DEF Ask, Emit, engine, bridge, Ended, AbortedNeverRuns, VerdictLaw
  <1>15. ASSUME NEW ok \in BOOLEAN, Finish(ok) PROVE Goal
    BY <1>1, <1>15 DEF Finish, Running, Emit, engine, bridge, Ended, AbortedNeverRuns, VerdictLaw
  <1>16. CASE Deliver
    BY <1>1, <1>16 DEF Deliver, engine, bridge, Ended, AbortedNeverRuns, VerdictLaw
  <1>17. CASE Exit
    BY <1>1, <1>17 DEF Exit, engine, bridge, sandbox, Ended, AbortedNeverRuns, VerdictLaw
  <1>18. CASE Timer
    BY <1>1, <1>18 DEF Timer, Judge, Listening, bridge, sandbox, Ended, AbortedNeverRuns, VerdictLaw
  <1>19. ASSUME NEW r \in Requests, Answer(r) PROVE Goal
    BY <1>1, <1>19 DEF Answer, bridge, sandbox, Ended, AbortedNeverRuns, VerdictLaw
  <1>20. ASSUME NEW reason \in Reasons, Abort(reason) PROVE Goal
    BY <1>1, <1>20 DEF Abort, Judge, Listening, bridge, sandbox, Ended, AbortedNeverRuns, VerdictLaw
  <1>21. ASSUME NEW v \in {"errored", "provider"}, Decide(v) PROVE Goal
    BY <1>1, <1>21 DEF Decide, bridge, sandbox, Ended, AbortedNeverRuns, VerdictLaw
  <1>22. CASE UNCHANGED vars
    BY <1>1, <1>22 DEF vars, Ended, AbortedNeverRuns, VerdictLaw
  <1>23. QED
    BY <1>3, <1>4, <1>5, <1>6, <1>7, <1>8, <1>9, <1>10, <1>11, <1>12, <1>13, <1>14, <1>15,
       <1>16, <1>17, <1>18, <1>19, <1>20, <1>21, <1>22 DEF Next, Progress, Over

LEMMA Control == Spec => []ControlInv
  BY ControlInit, ControlStep, PTL DEF Spec

\* A run that was aborted before its sandbox was started, by a signal the bridge
\* finds aborted already or by its handler, has a verdict: it does not run on.
THEOREM AbortIsNeverMissed == Spec => []AbortedNeverRuns
  BY Control, PTL DEF ControlInv

\* Whatever the order in which script, pipes, process, timer, abort and engine
\* end a run, one verdict stands and it is the one the caller gets.
THEOREM FirstVerdictStands == Spec => OneVerdict
  <1>1. ControlInv /\ [Next]_vars =>
            /\ [status # "running" => UNCHANGED status]_status
            /\ [returned' = status]_returned
    <2>1. ControlInv /\ [Next]_vars /\ returned' # returned => returned' = status
      <3>1. SUFFICES ASSUME ControlInv, [Next]_vars, returned' # returned
                     PROVE  returned' = status
        OBVIOUS
      <3>2. Finalize => returned' = status
        BY DEF Finalize
      <3>3. ~Finalize => UNCHANGED returned
        BY <3>1 DEF Next, Progress, ReadCreate, ReadRequest, ReadComplete, ReadBroken, SpawnError,
             Close, Die, StartFails, Start, Create, Ask, Finish, Deliver, Exit, Timer, Answer,
             Abort, Decide, Over, bridge, vars
      <3>4. QED
        BY <3>1, <3>2, <3>3
    <2>2. QED
      BY <2>1, ControlStep DEF VerdictLaw
  <1>2. QED
    BY <1>1, Control, PTL DEF Spec, OneVerdict

-----------------------------------------------------------------------------
(* The order of the lines. *)

\* A script that has ended in a process nobody killed has said so, and the line
\* is still on its way unless the run has its verdict.
Heard ==
    script # "running" /\ process \in {"alive", "exited"} /\ status = "running" =>
        \E i \in DOMAIN out : out[i].kind = "complete"

\* A handle the bridge knows, or hears of within the first n lines.
Told(h, n) ==
    h \in actorMap \/ \E j \in 1..n : out[j] = [kind |-> "create-actor", handle |-> h]

Known ==
    status = "running" =>
        /\ process \in {"none", "alive"} => \A h \in made : Told(h, Len(out))
        /\ \A i \in DOMAIN out :
              out[i].kind = "request" /\ HandleOf[out[i].id] # None =>
                  Told(HandleOf[out[i].id], i - 1)

OrderInv == ControlInv /\ Heard /\ Known

LEMMA OrderInit == Init => OrderInv
  <1>1. Init => Heard /\ Known
    BY DEF Init, Heard, Known
  <1>2. QED
    BY <1>1, ControlInit DEF OrderInv

\* A step that touches neither pipe nor handles.
LEMMA Elsewhere ==
    ASSUME Heard, Known, UNCHANGED <<out, actorMap, made, script>>,
           status' = "running" => status = "running",
           script # "running" /\ process' \in {"alive", "exited"} => process \in {"alive", "exited"},
           process' \in {"none", "alive"} => process \in {"none", "alive"}
    PROVE  Heard' /\ Known'
  BY DEF Heard, Known, Told

\* The bridge reads a line that is neither the completion nor a handle.
LEMMA ReadOne ==
    ASSUME OrderInv, out # <<>>, out' = Tail(out), UNCHANGED <<made, script, process>>,
           status' = "running" =>
               /\ status = "running" /\ Head(out).kind # "complete"
               /\ actorMap' = IF Head(out).kind = "create-actor"
                              THEN actorMap \cup {Head(out).handle} ELSE actorMap
    PROVE  Heard' /\ Known'
  <1> SUFFICES ASSUME status' = "running" PROVE Heard' /\ Known'
    BY DEF Heard, Known
  <1>1. out \in Seq(Line)
    BY DEF OrderInv, ControlInv, TypeOK
  <1>2. /\ Head(out) = out[1] /\ Len(out) \in Nat \ {0}
        /\ Len(out') = Len(out) - 1 /\ DOMAIN out' = 1..(Len(out) - 1)
        /\ DOMAIN out = 1..Len(out)
        /\ \A i \in 1..(Len(out) - 1) : out'[i] = out[i + 1]
    BY <1>1, TailFacts
  <1>3. status = "running" /\ out[1].kind # "complete"
    BY <1>2
  <1>4. Heard'
    <2>1. SUFFICES ASSUME script # "running", process \in {"alive", "exited"}
                   PROVE  \E i \in DOMAIN out' : out'[i].kind = "complete"
      BY DEF Heard
    <2>2. PICK i \in DOMAIN out : out[i].kind = "complete"
      BY <1>3, <2>1 DEF OrderInv, Heard
    <2>3. i # 1 /\ i - 1 \in DOMAIN out' /\ out'[i - 1] = out[i]
      BY <1>2, <1>3, <2>2
    <2>4. QED
      BY <2>2, <2>3
  <1>5. ASSUME NEW h, NEW n \in 0..Len(out), Told(h, n) PROVE h \in actorMap' \/
               \E j \in 1..(n - 1) : out'[j] = [kind |-> "create-actor", handle |-> h]
    <2>1. CASE h \in actorMap
      BY <2>1
    <2>2. CASE \E j \in 1..n : out[j] = [kind |-> "create-actor", handle |-> h]
      <3>1. PICK j \in 1..n : out[j] = [kind |-> "create-actor", handle |-> h]
        BY <2>2
      <3>2. CASE j = 1
        <4>1. Head(out).kind = "create-actor" /\ Head(out).handle = h
          BY <1>2, <3>1, <3>2
        <4>2. QED
          BY <4>1
      <3>3. CASE j # 1
        <4>1. j - 1 \in 1..(n - 1) /\ j - 1 \in 1..(Len(out) - 1)
          BY <1>2, <3>3
        <4>2. out'[j - 1] = out[j]
          BY <1>2, <4>1
        <4>3. QED
          BY <3>1, <4>1, <4>2
      <3>4. QED
        BY <3>2, <3>3
    <2>3. QED
      BY <1>5, <2>1, <2>2 DEF Told
  <1>6. Known'
    <2>1. Known /\ status = "running"
      BY <1>3 DEF OrderInv
    <2>2. ASSUME process \in {"none", "alive"}, NEW h \in made PROVE Told(h, Len(out))'
      <3>1. Told(h, Len(out)) /\ Len(out) \in 0..Len(out)
        BY <1>2, <2>1, <2>2 DEF Known
      <3>2. QED
        BY <1>2, <1>5, <3>1 DEF Told
    <2>3. ASSUME NEW i \in DOMAIN out', out'[i].kind = "request", HandleOf[out'[i].id] # None
          PROVE  Told(HandleOf[out[i].id], i - 1)'
      <3>1. i + 1 \in DOMAIN out /\ out'[i] = out[i + 1] /\ i \in 0..Len(out)
        BY <1>2
      <3>2. (i + 1) - 1 = i
        BY <1>2
      <3>3. Told(HandleOf[out[i + 1].id], i)
        BY <2>1, <2>3, <3>1, <3>2 DEF Known
      <3> DEFINE h == HandleOf[out'[i].id]
      <3>4. Told(h, i)
        BY <3>1, <3>3
      <3> HIDE DEF h
      <3>5. h \in actorMap' \/
            \E j \in 1..(i - 1) : out'[j] = [kind |-> "create-actor", handle |-> h]
        BY <1>5, <3>1, <3>4
      <3>6. QED
        BY <3>5 DEF h, Told
    <2>4. QED
      BY <2>2, <2>3 DEF Known
  <1>7. QED
    BY <1>4, <1>6

\* The script writes a line; an ask names only handles it has.
LEMMA WriteOne ==
    ASSUME OrderInv, NEW l \in Line, out' = Append(out, l), UNCHANGED <<status, actorMap, process>>,
           process \in {"alive", "killed"},
           script' # "running" => script # "running" \/ l.kind = "complete",
           made' = IF l.kind = "create-actor" THEN made \cup {l.handle} ELSE made,
           l.kind = "request" => HandleOf[l.id] \in made \cup {None}
    PROVE  Heard' /\ Known'
  <1> SUFFICES ASSUME status = "running" PROVE Heard' /\ Known'
    BY DEF Heard, Known
  <1>1. out \in Seq(Line) /\ process = "alive"
    BY DEF OrderInv, ControlInv, TypeOK, Ended
  <1>2. /\ Len(out') = Len(out) + 1 /\ Len(out) \in Nat /\ DOMAIN out = 1..Len(out)
        /\ DOMAIN out' = 1..(Len(out) + 1)
        /\ \A i \in 1..Len(out) : out'[i] = out[i]
        /\ out'[Len(out) + 1] = l
    BY <1>1, AppendFacts
  <1>3. Heard'
    BY <1>1, <1>2 DEF OrderInv, Heard
  <1>4. ASSUME NEW h, NEW n \in 0..Len(out), Told(h, n)
        PROVE  h \in actorMap' \/
               \E j \in 1..n : out'[j] = [kind |-> "create-actor", handle |-> h]
    BY <1>2, <1>4 DEF Told
  <1>5. Known /\ Len(out) \in 0..Len(out)
    BY <1>2 DEF OrderInv
  <1>6. ASSUME NEW h \in made' PROVE Told(h, Len(out))'
    <2>1. CASE h \in made
      <3>1. Told(h, Len(out))
        BY <1>1, <1>5, <2>1 DEF Known
      <3>2. QED
        BY <1>2, <1>4, <1>5, <3>1 DEF Told
    <2>2. CASE l.kind = "create-actor" /\ h = l.handle
      <3>1. l = [kind |-> "create-actor", handle |-> h]
        BY <2>2, LineFacts
      <3>2. QED
        BY <1>2, <3>1 DEF Told
    <2>3. QED
      BY <1>6, <2>1, <2>2
  <1>7. ASSUME NEW i \in DOMAIN out', out'[i].kind = "request", HandleOf[out'[i].id] # None
        PROVE  Told(HandleOf[out[i].id], i - 1)'
    <2>1. CASE i \in 1..Len(out)
      <3>1. out'[i] = out[i] /\ i - 1 \in 0..Len(out)
        BY <1>2, <2>1
      <3>2. Told(HandleOf[out[i].id], i - 1)
        BY <1>2, <1>5, <1>7, <2>1, <3>1 DEF Known
      <3>3. QED
        BY <1>4, <3>1, <3>2 DEF Told
    <2>2. CASE i = Len(out) + 1
      <3>1. out'[i] = l /\ i - 1 = Len(out)
        BY <1>2, <2>2
      <3>2. HandleOf[l.id] \in made
        BY <1>7, <3>1
      <3>3. Told(HandleOf[l.id], Len(out))
        BY <1>1, <1>5, <3>2 DEF Known
      <3>4. QED
        BY <1>4, <1>5, <3>1, <3>3 DEF Told
    <2>3. QED
      BY <1>2, <2>1, <2>2
  <1>8. QED
    BY <1>3, <1>6, <1>7 DEF Known

LEMMA OrderStep == OrderInv /\ [Next]_vars => OrderInv'
  <1> SUFFICES ASSUME OrderInv, [Next]_vars PROVE Heard' /\ Known'
    BY ControlStep DEF OrderInv
  <1>1. ControlInv /\ TypeOK /\ Ended /\ Heard /\ Known /\ (status # "running" => status' = status)
    BY ControlStep DEF OrderInv, ControlInv, VerdictLaw
  <1>2. CASE ReadCreate
    <2>1. out # <<>> /\ Head(out) \in Line /\ Head(out).kind = "create-actor"
      BY <1>1, <1>2, TailFacts DEF ReadCreate, NextLine, TypeOK
    <2>2. Head(out).kind # "complete"
      BY <2>1
    <2>3. status' = "running" =>
              status = "running" /\ actorMap' = actorMap \cup {Head(out).handle}
      BY <1>1, <1>2 DEF ReadCreate, Judge
    <2>4. out' = Tail(out) /\ UNCHANGED <<made, script, process>>
      BY <1>2 DEF ReadCreate, NextLine, sandbox
    <2>5. QED
      BY <2>1, <2>2, <2>3, <2>4, ReadOne
  <1>3. CASE ReadRequest
    <2>1. out # <<>> /\ Head(out).kind = "request" /\ out' = Tail(out)
      BY <1>3 DEF ReadRequest, NextLine
    <2>2. UNCHANGED <<status, actorMap, bridge, signal, process, sandbox>>
      BY <1>3 DEF ReadRequest
    <2>3. UNCHANGED <<status, actorMap, made, script, process>>
      BY <2>2 DEF sandbox
    <2>4. Head(out).kind # "complete" /\ Head(out).kind # "create-actor"
      BY <2>1
    <2>5. QED
      BY <2>1, <2>3, <2>4, ReadOne
  <1>4. CASE ReadComplete \/ ReadBroken
    <2>1. status' # "running"
      BY <1>1, <1>4 DEF ReadComplete, ReadBroken, Judge
    <2>2. QED
      BY <2>1 DEF Heard, Known
  <1>5. CASE SpawnError
    <2>1. status' # "running"
      BY <1>1, <1>5 DEF SpawnError, Judge, Listening, Ended
    <2>2. QED
      BY <2>1 DEF Heard, Known
  <1>6. CASE Close \/ StartFails \/ Timer
    <2>1. status' # "running"
      BY <1>1, <1>6 DEF Close, StartFails, Timer, Judge
    <2>2. QED
      BY <2>1 DEF Heard, Known
  <1>7. CASE Finalize
    BY <1>1, <1>7 DEF Finalize, engine, sandbox, Heard, Known
  <1>8. CASE Die
    <2>1. /\ process' = "dead" /\ out' \in Flushed(out) /\ out \in Seq(Line)
          /\ UNCHANGED <<status, actorMap, made, script>>
      BY <1>1, <1>8 DEF Die, engine, sandbox, TypeOK
    <2>2. /\ out' \in Seq(Line)
          /\ \A i \in DOMAIN out' :
                out'[i] # Broken => \A j \in 1..i : j \in DOMAIN out /\ out'[j] = out[j]
      BY <2>1, FlushedFacts
    <2>3. ASSUME status = "running", NEW i \in DOMAIN out',
                 out'[i].kind = "request", HandleOf[out'[i].id] # None
          PROVE  Told(HandleOf[out[i].id], i - 1)'
      <3>1. out'[i] # Broken /\ i \in 1..i /\ i \in Nat
        BY <2>2, <2>3 DEF Broken
      <3>2. \A j \in 1..i : j \in DOMAIN out /\ out'[j] = out[j]
        BY <2>2, <3>1
      <3>3. Told(HandleOf[out[i].id], i - 1)
        BY <1>1, <2>3, <3>1, <3>2 DEF Known
      <3>4. \A j \in 1..(i - 1) : out'[j] = out[j]
        BY <3>1, <3>2
      <3>5. out'[i] = out[i]
        BY <3>1, <3>2
      <3>6. QED
        BY <2>1, <3>3, <3>4, <3>5 DEF Told
    <2>4. QED
      BY <2>1, <2>3 DEF Heard, Known
  <1>9. CASE Start
    <2>1. UNCHANGED <<out, actorMap, made, script>> /\ process = "none" /\ script = "running"
      BY <1>1, <1>9 DEF Start, sandbox, Ended
    <2>2. QED
      BY <1>1, <2>1, Elsewhere
  <1>10. ASSUME NEW h \in Handles, Create(h) PROVE Heard' /\ Known'
    <2> DEFINE l == [kind |-> "create-actor", handle |-> h]
    <2>1. l \in Line /\ l.kind = "create-actor" /\ l.handle = h
      BY DEF Line, Created
    <2>2. /\ out' = Append(out, l) /\ made' = made \cup {h}
          /\ UNCHANGED <<status, actorMap, process, script>> /\ process \in {"alive", "killed"}
      BY <1>10 DEF Create, Emit, Running, engine
    <2> HIDE DEF l
    <2>3. QED
      BY <2>1, <2>2, WriteOne
  <1>11. ASSUME NEW r \in Requests, Ask(r) PROVE Heard' /\ Known'
    <2> DEFINE l == [kind |-> "request", id |-> r]
    <2>1. l \in Line /\ l.kind = "request" /\ l.id = r
      BY DEF Line, Asked
    <2>2. /\ out' = Append(out, l) /\ HandleOf[r] \in made \cup {None}
          /\ UNCHANGED <<status, actorMap, process, script, made>> /\ process \in {"alive", "killed"}
      BY <1>11 DEF Ask, Emit, Running, engine
    <2> HIDE DEF l
    <2>3. QED
      BY <2>1, <2>2, WriteOne
  <1>12. ASSUME NEW ok \in BOOLEAN, Finish(ok) PROVE Heard' /\ Known'
    <2> DEFINE l == [kind |-> "complete", ok |-> ok]
    <2>1. l \in Line /\ l.kind = "complete"
      BY DEF Line, Completed
    <2>2. /\ out' = Append(out, l)
          /\ UNCHANGED <<status, actorMap, process, made>> /\ process \in {"alive", "killed"}
      BY <1>12 DEF Finish, Emit, Running, engine
    <2> HIDE DEF l
    <2>3. QED
      BY <2>1, <2>2, WriteOne
  <1>13. CASE Deliver
    BY <1>1, <1>13, Elsewhere DEF Deliver, engine, bridge
  <1>14. CASE Exit
    BY <1>1, <1>14, Elsewhere DEF Exit, engine, bridge, sandbox
  <1>15. ASSUME NEW r \in Requests, Answer(r) PROVE Heard' /\ Known'
    BY <1>1, <1>15, Elsewhere DEF Answer, bridge, sandbox
  <1>16. ASSUME NEW reason \in Reasons, Abort(reason) PROVE Heard' /\ Known'
    BY <1>1, <1>16, Elsewhere DEF Abort, bridge, sandbox
  <1>17. ASSUME NEW v \in {"errored", "provider"}, Decide(v) PROVE Heard' /\ Known'
    BY <1>1, <1>17, Elsewhere DEF Decide, bridge, sandbox
  <1>18. CASE UNCHANGED vars
    BY <1>1, <1>18, Elsewhere DEF vars
  <1>19. QED
    BY <1>2, <1>3, <1>4, <1>5, <1>6, <1>7, <1>8, <1>9, <1>10, <1>11, <1>12, <1>13, <1>14,
       <1>15, <1>16, <1>17, <1>18 DEF Next, Progress, Over

LEMMA Order == Spec => []OrderInv
  BY OrderInit, OrderStep, PTL DEF Spec

\* A script that ended in a process nobody killed is judged by what it said, and
\* its exit is never taken for a crash, for any number of lines before.
THEOREM CompletionIsHeard == Spec => []CompleteIsHeard
  <1>1. OrderInv => CompleteIsHeard
    <2>1. SUFFICES ASSUME OrderInv, process = "exited", out = <<>>, status = "running"
                   PROVE  FALSE
      BY DEF CompleteIsHeard
    <2>2. script # "running"
      BY <2>1 DEF OrderInv, ControlInv, Ended
    <2>3. QED
      BY <2>1, <2>2 DEF OrderInv, Heard
  <1>2. QED
    BY <1>1, Order, PTL

\* While a run goes on no ask is refused for its handle: the creation of the
\* subagent was read before, for any script and any handles the engine refuses.
THEOREM HandlesAreKnown == Spec => []HandleKnown
  <1>1. OrderInv => HandleKnown
    <2>1. SUFFICES ASSUME OrderInv, out # <<>>, Head(out).kind = "request", status = "running",
                          HandleOf[Head(out).id] # None
                   PROVE  HandleOf[Head(out).id] \in actorMap
      BY DEF HandleKnown, Unknown
    <2>2. 1 \in DOMAIN out /\ Head(out) = out[1]
      BY <2>1, TailFacts DEF OrderInv, ControlInv, TypeOK
    <2>3. Told(HandleOf[out[1].id], 0)
      BY <2>1, <2>2 DEF OrderInv, Known
    <2>4. QED
      BY <2>2, <2>3 DEF Told
  <1>2. QED
    BY <1>1, Order, PTL

-----------------------------------------------------------------------------
(* Where a request is. *)

At(s, x) == {i \in DOMAIN s : s[i] = x}
Once(s, x) == \A i, j \in At(s, x) : i = j

\* Writing puts a line at the end, reading takes the first away.
LEMMA AtAppend ==
    ASSUME NEW S, NEW s \in Seq(S), NEW l \in S, NEW x
    PROVE  /\ l # x => At(Append(s, l), x) = At(s, x)
           /\ At(Append(s, x), x) # {}
           /\ At(s, x) = {} => Once(Append(s, l), x)
  <1>1. /\ Len(Append(s, l)) = Len(s) + 1 /\ Len(s) \in Nat
        /\ DOMAIN Append(s, l) = 1..(Len(s) + 1) /\ DOMAIN s = 1..Len(s)
        /\ \A i \in 1..Len(s) : Append(s, l)[i] = s[i]
        /\ Append(s, l)[Len(s) + 1] = l
    BY AppendFacts
  <1>2. l # x => At(Append(s, l), x) = At(s, x)
    BY <1>1 DEF At
  <1>3. At(Append(s, x), x) # {}
    <2>1. Len(s) + 1 \in DOMAIN Append(s, x) /\ Append(s, x)[Len(s) + 1] = x
      BY <1>1
    <2>2. QED
      BY <2>1 DEF At
  <1>4. ASSUME At(s, x) = {} PROVE Once(Append(s, l), x)
    <2>1. \A i \in At(Append(s, l), x) : i = Len(s) + 1
      BY <1>1, <1>4 DEF At
    <2>2. QED
      BY <2>1 DEF Once
  <1>5. QED
    BY <1>2, <1>3, <1>4

LEMMA AtTail ==
    ASSUME NEW S, NEW s \in Seq(S), s # <<>>, NEW x
    PROVE  /\ Head(s) # x => (At(Tail(s), x) = {} <=> At(s, x) = {})
           /\ Head(s) = x => At(s, x) # {}
           /\ Once(s, x) => Once(Tail(s), x)
           /\ Once(s, x) /\ Head(s) = x => At(Tail(s), x) = {}
  <1>1. /\ Head(s) = s[1] /\ Len(s) \in Nat \ {0} /\ DOMAIN s = 1..Len(s)
        /\ DOMAIN Tail(s) = 1..(Len(s) - 1)
        /\ \A i \in 1..(Len(s) - 1) : Tail(s)[i] = s[i + 1]
    BY TailFacts
  <1>2. \A i \in At(Tail(s), x) : i \in Nat /\ i >= 1 /\ i + 1 \in At(s, x)
    BY <1>1 DEF At
  <1>3. \A i \in At(s, x) : i # 1 => i - 1 \in At(Tail(s), x)
    BY <1>1 DEF At
  <1>4. Head(s) = x <=> 1 \in At(s, x)
    BY <1>1 DEF At
  <1>5. Head(s) # x => (At(Tail(s), x) = {} <=> At(s, x) = {})
    BY <1>2, <1>3, <1>4
  <1>6. ASSUME Once(s, x) PROVE Once(Tail(s), x)
    <2>1. SUFFICES ASSUME NEW i \in At(Tail(s), x), NEW j \in At(Tail(s), x) PROVE i = j
      BY DEF Once
    <2>2. i \in Nat /\ j \in Nat /\ i + 1 = j + 1
      BY <1>2, <1>6 DEF Once
    <2>3. QED
      BY <2>2
  <1>7. ASSUME Once(s, x), Head(s) = x PROVE At(Tail(s), x) = {}
    <2>1. SUFFICES ASSUME NEW i \in At(Tail(s), x) PROVE FALSE
      OBVIOUS
    <2>2. i \in Nat /\ i >= 1 /\ i + 1 = 1
      BY <1>2, <1>4, <1>7 DEF Once
    <2>3. QED
      BY <2>2
  <1>8. QED
    BY <1>4, <1>5, <1>6, <1>7

Call(r) == [kind |-> "request", id |-> r]

\* A request is on one of three ways, or on none; it is on one while the script
\* waits for it.
Placed(r) ==
    /\ r \in pending <=> At(out, Call(r)) # {} \/ r \in atEngine \/ At(inp, r) # {}
    /\ Once(out, Call(r)) /\ Once(inp, r)
    /\ At(out, Call(r)) # {} => r \notin atEngine /\ At(inp, r) = {}
    /\ r \in atEngine => At(inp, r) = {}

PlaceInv ==
    /\ process = "none" => pending = {}
    /\ pending \subseteq asked
    /\ process \in {"none", "alive", "killed"} => \A r \in Requests : Placed(r)

LEMMA PlaceInit == Init => PlaceInv
  <1>1. Init => \A r \in Requests : Placed(r)
    BY DEF Init, Placed, At, Once
  <1>2. QED
    BY <1>1 DEF Init, PlaceInv

\* A step that leaves the ways of the requests alone, or ends the process.
LEMMA NoWay ==
    ASSUME PlaceInv, UNCHANGED <<pending, asked>>,
           process' = "none" => process = "none",
           process' \in {"none", "alive", "killed"} =>
               process \in {"none", "alive", "killed"} /\ UNCHANGED <<out, atEngine, inp>>
    PROVE  PlaceInv'
  BY DEF PlaceInv, Placed, At, Once

\* A line that is no request is read, or written.
LEMMA OtherLine ==
    ASSUME TypeOK, PlaceInv, UNCHANGED <<pending, asked, atEngine, inp, process>>,
           \/ out # <<>> /\ out' = Tail(out) /\ Head(out).kind # "request"
           \/ \E l \in Line : out' = Append(out, l) /\ l.kind # "request"
    PROVE  PlaceInv'
  <1>1. SUFFICES ASSUME process \in {"none", "alive", "killed"}, NEW r \in Requests
                 PROVE  Placed(r)'
    BY DEF PlaceInv
  <1>2. Placed(r) /\ out \in Seq(Line)
    BY <1>1 DEF PlaceInv, TypeOK
  <1>3. CASE out # <<>> /\ out' = Tail(out) /\ Head(out).kind # "request"
    <2>1. Head(out) # Call(r)
      BY <1>3 DEF Call
    <2>2. (At(out', Call(r)) = {} <=> At(out, Call(r)) = {}) /\ Once(out', Call(r))
      BY <1>2, <1>3, <2>1, AtTail DEF Placed
    <2>3. QED
      BY <1>2, <2>2 DEF Placed, Call, At, Once
  <1>4. CASE \E l \in Line : out' = Append(out, l) /\ l.kind # "request"
    <2>1. PICK l \in Line : out' = Append(out, l) /\ l # Call(r)
      BY <1>4 DEF Call
    <2>2. At(out', Call(r)) = At(out, Call(r))
      BY <1>2, <2>1, AtAppend
    <2>3. QED
      BY <1>2, <2>2 DEF Placed, Call, Once, At
  <1>5. QED
    BY <1>3, <1>4

\* The answer of r starts on its way: from the engine, or at once.
LEMMA AnswerPlaced ==
    ASSUME TypeOK, NEW q \in Requests, NEW r \in Requests, inp' = Append(inp, q),
           At(inp, q) = {}, Once(inp, r)
    PROVE  /\ Once(inp', r)
           /\ At(inp', q) # {}
           /\ r # q => At(inp', r) = At(inp, r)
  <1>1. inp \in Seq(Requests)
    BY DEF TypeOK
  <1>2. At(inp', q) # {} /\ (r # q => At(inp', r) = At(inp, r))
    BY <1>1, AtAppend
  <1>3. Once(inp', r)
    <2>1. CASE r = q
      BY <1>1, <2>1, AtAppend
    <2>2. CASE r # q
      BY <1>2, <2>2 DEF Once
    <2>3. QED
      BY <2>1, <2>2
  <1>4. QED
    BY <1>2, <1>3

LEMMA PlaceStep == ControlInv /\ PlaceInv /\ [Next]_vars => PlaceInv'
  <1> SUFFICES ASSUME ControlInv, PlaceInv, [Next]_vars PROVE PlaceInv'
    OBVIOUS
  <1>1. TypeOK /\ Ended
    BY DEF ControlInv
  <1>2. out \in Seq(Line) /\ inp \in Seq(Requests) /\ atEngine \subseteq Requests
    BY <1>1 DEF TypeOK
  <1>3. CASE ReadCreate
    BY <1>1, <1>3, OtherLine DEF ReadCreate, NextLine, sandbox
  <1>4. CASE ReadComplete \/ ReadBroken
    BY <1>1, <1>4, OtherLine DEF ReadComplete, ReadBroken, NextLine, sandbox
  <1>5. CASE ReadRequest
    <2> DEFINE q == Head(out).id
    <2>1. /\ out # <<>> /\ Head(out) = Call(q) /\ q \in Requests /\ out' = Tail(out)
          /\ process # "none"
      <3>1. out # <<>> /\ Head(out).kind = "request" /\ out' = Tail(out) /\ attached
        BY <1>5 DEF ReadRequest, NextLine, Listening
      <3>2. QED
        BY <1>1, <1>2, <3>1, TailFacts, LineFacts DEF Call, Ended
    <2>2. UNCHANGED <<pending, asked, process>>
      <3>1. UNCHANGED <<status, actorMap, bridge, signal, process, sandbox>>
        BY <1>5 DEF ReadRequest
      <3>2. QED
        BY <3>1 DEF sandbox
    <2>3. \/ atEngine' = atEngine \cup {q} /\ inp' = inp
          \/ atEngine' = atEngine /\ inp' = IF process \in {"alive", "killed"}
                                            THEN Append(inp, q) ELSE inp
      BY <1>5 DEF ReadRequest, Respond, Unknown
    <2> HIDE DEF q
    <2>4. SUFFICES ASSUME process \in {"alive", "killed"}, NEW r \in Requests PROVE Placed(r)'
      BY <2>1, <2>2 DEF PlaceInv
    <2>5. Placed(r) /\ Placed(q)
      BY <2>1, <2>4 DEF PlaceInv
    <2>6. At(out, Call(q)) # {} /\ q \notin atEngine /\ At(inp, q) = {} /\ q \in pending
      BY <1>2, <2>1, <2>5, AtTail DEF Placed
    <2>7. Once(out', Call(r))
      BY <1>2, <2>1, <2>5, AtTail DEF Placed
    <2>8. CASE r = q
      <3>1. At(out', Call(r)) = {}
        BY <1>2, <2>1, <2>5, <2>8, AtTail DEF Placed
      <3>2. CASE atEngine' = atEngine \cup {q} /\ inp' = inp
        BY <2>2, <2>5, <2>6, <2>7, <2>8, <3>1, <3>2 DEF Placed, Call
      <3>3. CASE atEngine' = atEngine /\ inp' = Append(inp, q)
        <4>1. Once(inp', r) /\ At(inp', r) # {}
          BY <1>1, <2>1, <2>5, <2>6, <2>8, <3>3, AnswerPlaced DEF Placed
        <4>2. QED
          BY <2>2, <2>6, <2>7, <2>8, <3>1, <3>3, <4>1 DEF Placed, Call
      <3>4. QED
        BY <2>3, <2>4, <3>2, <3>3
    <2>9. CASE r # q
      <3>1. Head(out) # Call(r)
        BY <2>1, <2>9 DEF Call
      <3>2. At(out', Call(r)) = {} <=> At(out, Call(r)) = {}
        BY <1>2, <2>1, <3>1, AtTail
      <3>3. CASE atEngine' = atEngine \cup {q} /\ inp' = inp
        BY <2>2, <2>5, <2>7, <2>9, <3>2, <3>3 DEF Placed, Call
      <3>4. CASE atEngine' = atEngine /\ inp' = Append(inp, q)
        <4>1. Once(inp', r) /\ At(inp', r) = At(inp, r)
          BY <1>1, <2>1, <2>5, <2>6, <2>9, <3>4, AnswerPlaced DEF Placed
        <4>2. QED
          BY <2>2, <2>5, <2>7, <3>2, <3>4, <4>1 DEF Placed, Call
      <3>5. QED
        BY <2>3, <2>4, <3>3, <3>4
    <2>10. QED
      BY <2>8, <2>9
  <1>6. CASE SpawnError \/ Close \/ StartFails \/ Timer
    BY <1>6, NoWay DEF SpawnError, Close, StartFails, Timer, bridge, sandbox
  <1>7. CASE Finalize
    BY <1>7, NoWay DEF Finalize, engine, sandbox
  <1>8. CASE Die \/ Exit
    BY <1>8, NoWay DEF Die, Exit, engine, bridge, sandbox
  <1>9. CASE Start
    BY <1>9, NoWay DEF Start, sandbox
  <1>10. ASSUME NEW h \in Handles, Create(h) PROVE PlaceInv'
    <2>1. [kind |-> "create-actor", handle |-> h] \in Line
      BY DEF Line, Created
    <2>2. QED
      BY <1>1, <1>10, <2>1, OtherLine DEF Create, Emit, engine
  <1>11. ASSUME NEW ok \in BOOLEAN, Finish(ok) PROVE PlaceInv'
    <2>1. [kind |-> "complete", ok |-> ok] \in Line
      BY DEF Line, Completed
    <2>2. QED
      BY <1>1, <1>11, <2>1, OtherLine DEF Finish, Emit, engine
  <1>12. ASSUME NEW q \in Requests, Ask(q) PROVE PlaceInv'
    <2>1. /\ process' = process /\ process \in {"alive", "killed"} /\ q \notin asked
          /\ asked' = asked \cup {q} /\ pending' = pending \cup {q}
          /\ out' = Append(out, Call(q)) /\ atEngine' = atEngine /\ inp' = inp
      BY <1>12 DEF Ask, Running, Emit, engine, Call
    <2>2. ASSUME NEW r \in Requests PROVE Placed(r)'
      <3>1. Placed(r) /\ Placed(q) /\ q \notin pending
        BY <2>1 DEF PlaceInv
      <3>2. At(out, Call(q)) = {} /\ q \notin atEngine /\ At(inp, q) = {}
        BY <3>1 DEF Placed
      <3>3. Call(q) \in Line
        BY DEF Call, Line, Asked
      <3>4. CASE r = q
        <4>1. Once(out', Call(r)) /\ At(out', Call(r)) # {}
          BY <1>2, <2>1, <3>2, <3>3, <3>4, AtAppend
        <4>2. QED
          BY <2>1, <3>1, <3>2, <3>4, <4>1 DEF Placed, Call
      <3>5. CASE r # q
        <4>1. Call(q) # Call(r)
          BY <3>5 DEF Call
        <4>2. At(out', Call(r)) = At(out, Call(r))
          BY <1>2, <2>1, <3>3, <4>1, AtAppend
        <4>3. Once(out', Call(r))
          BY <3>1, <4>2 DEF Placed, Once
        <4>4. QED
          BY <2>1, <3>1, <3>5, <4>2, <4>3 DEF Placed, Call
      <3>6. QED
        BY <3>4, <3>5
    <2>3. QED
      BY <2>1, <2>2 DEF PlaceInv
  <1>13. CASE Deliver
    <2> DEFINE q == Head(inp)
    <2>1. /\ process' = process /\ process \in {"alive", "killed"} /\ inp # <<>>
          /\ asked' = asked /\ pending' = pending \ {q} /\ inp' = Tail(inp)
          /\ out' = out /\ atEngine' = atEngine
      BY <1>13 DEF Deliver, Running, engine, bridge
    <2>2. q \in Requests
      BY <1>2, <2>1, TailFacts
    <2>3. ASSUME NEW r \in Requests PROVE Placed(r)'
      <3>1. Placed(r) /\ Once(inp', r)
        BY <1>2, <2>1, AtTail DEF PlaceInv, Placed
      <3>2. CASE r = q
        <4>1. At(inp, r) # {} /\ At(inp', r) = {}
          BY <1>2, <2>1, <3>1, <3>2, AtTail DEF Placed
        <4>2. QED
          BY <2>1, <3>1, <3>2, <4>1 DEF Placed, Call
      <3>3. CASE r # q
        <4>1. At(inp', r) = {} <=> At(inp, r) = {}
          BY <1>2, <2>1, <3>3, AtTail
        <4>2. QED
          BY <2>1, <3>1, <3>3, <4>1 DEF Placed, Call
      <3>4. QED
        BY <3>2, <3>3
    <2>4. QED
      BY <2>1, <2>3 DEF PlaceInv
  <1>14. ASSUME NEW q \in Requests, Answer(q) PROVE PlaceInv'
    <2>1. /\ process' = process /\ asked' = asked /\ pending' = pending /\ out' = out
          /\ q \in atEngine /\ atEngine' = atEngine \ {q}
          /\ inp' = IF process \in {"alive", "killed"} THEN Append(inp, q) ELSE inp
      BY <1>14 DEF Answer, Respond, bridge, sandbox
    <2>2. SUFFICES ASSUME process \in {"none", "alive", "killed"}, NEW r \in Requests
                   PROVE  Placed(r)'
      BY <2>1 DEF PlaceInv
    <2>3. Placed(r) /\ Placed(q)
      BY <2>2 DEF PlaceInv
    <2>4. q \in pending /\ At(inp, q) = {} /\ At(out, Call(q)) = {}
      BY <2>1, <2>3 DEF Placed
    <2>5. process # "none" /\ inp' = Append(inp, q)
      BY <2>1, <2>2, <2>4 DEF PlaceInv
    <2>6. /\ Once(inp', r) /\ At(inp', q) # {}
          /\ r # q => At(inp', r) = At(inp, r)
      BY <1>1, <2>3, <2>4, <2>5, AnswerPlaced DEF Placed
    <2>7. QED
      BY <2>1, <2>3, <2>4, <2>6 DEF Placed, Call
  <1>15. ASSUME NEW reason \in Reasons, Abort(reason) PROVE PlaceInv'
    BY <1>15, NoWay DEF Abort, bridge, sandbox
  <1>16. ASSUME NEW v \in {"errored", "provider"}, Decide(v) PROVE PlaceInv'
    BY <1>16, NoWay DEF Decide, bridge, sandbox
  <1>17. CASE UNCHANGED vars
    BY <1>17, NoWay DEF vars
  <1>18. QED
    BY <1>3, <1>4, <1>5, <1>6, <1>7, <1>8, <1>9, <1>10, <1>11, <1>12, <1>13, <1>14, <1>15,
       <1>16, <1>17 DEF Next, Progress, Over

\* No answer is lost, none is given twice: a request the script waits for is on
\* its way, with the engine or on its way back, and in one place only.
THEOREM NoAnswerLostOrTwice == Spec => []PendingIsSomewhere
  <1>1. PlaceInv => PendingIsSomewhere
    <2>1. SUFFICES ASSUME PlaceInv, Running, NEW r \in Requests PROVE Placed(r)
      BY DEF PendingIsSomewhere, Placed, At, Once, Call
    <2>2. QED
      BY <2>1 DEF PlaceInv, Running
  <1>2. Spec => []PlaceInv
    BY PlaceInit, PlaceStep, Control, PTL DEF Spec
  <1>3. QED
    BY <1>1, <1>2, PTL
=============================================================================
