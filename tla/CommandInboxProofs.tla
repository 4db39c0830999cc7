------------------------- MODULE CommandInboxProofs -------------------------
(***************************************************************************)
(* That no input runs twice and that a written turn stays known, for any   *)
(* number of commands and calls, any size of the table and all faults.     *)
(* The first does not look at the table of settled answers; the second     *)
(* does: the table remembers no failure of an input that was used, but for *)
(* a goal.                                                                 *)
(***************************************************************************)
EXTENDS CommandInbox, TLAPS, SequenceTheorems

\* The part of the state that decides whether a command is run.
Types ==
    /\ row \in [Commands -> {"none", "admitted", "promoted", "cancelled", "discarded"}]
    /\ turn \in [Commands -> {"none", "has", "wrote", "dropped"}]
    /\ inFlight \in [Commands -> Calls \cup {None}]
    /\ live \in [Commands -> Final \cup {None}]
    /\ index \in [at : {"none", "loading", "ready"}, by : Calls \cup {None},
                  facts : [Commands -> Fact]]
    /\ loads \in [Calls -> [at : {"none", "live", "cold", "read"}, facts : [Commands -> Fact]]]
    /\ keyGate \in [Commands -> Seq(Calls)]
    /\ call \in [Calls -> Call]
    /\ handed \in [Commands -> Nat] /\ written \in [Commands -> Nat]

\* A call that is under way has a command; one that looks it up, or waits for it,
\* is first at the gate of its command.
Gated ==
    \A k \in Calls :
        /\ call[k].at # "done" => call[k].cmd \in Commands
        /\ call[k].at \in {"final", "load", "fact", "session"} =>
              keyGate[call[k].cmd] # <<>> /\ Head(keyGate[call[k].cmd]) = k

\* Nobody executes the command that is looked up, and it is not pinned; the one
\* that is executed is in flight.
Exclusive ==
    \A k \in Calls :
        /\ call[k].at \in {"load", "fact", "session"} =>
              inFlight[call[k].cmd] = None /\ live[call[k].cmd] = None
        /\ call[k].at \in {"admit", "execute", "handed", "wrote", "goal"} =>
              inFlight[call[k].cmd] = k

Used(c) == handed[c] > 0 \/ written[c] > 0
Over(c) == row[c] \in {"promoted", "cancelled", "discarded"}

\* A command that is about to run has not been used.
Unused ==
    \A k \in Calls : call[k].at \in {"admit", "execute"} => ~Used(call[k].cmd)

\* An input in the hands of a turn is pinned until what became of it is ingested;
\* so is that of a goal, which no turn has.
Pinned ==
    /\ \A k \in Calls : call[k].at = "execute" =>
          live[call[k].cmd] # None /\ row[call[k].cmd] # "none"
    /\ \A k \in Calls : call[k].at \in {"wrote", "goal"} =>
          /\ call[k].cmd \in Goals /\ row[call[k].cmd] = "promoted" /\ turn[call[k].cmd] = "none"
          /\ call[k].at = "wrote" <=> live[call[k].cmd] # None
    /\ \A c \in Commands :
          /\ turn[c] # "none" => live[c] # None /\ handed[c] > 0 /\ row[c] # "none"
          /\ turn[c] = "has" => written[c] = 0
          /\ turn[c] \in {"wrote", "dropped"} => Over(c)

Counted ==
    \A c \in Commands :
        /\ handed[c] \in 0..1 /\ written[c] \in 0..1
        /\ written[c] > 0 <=> row[c] = "promoted"

\* Who begins a load waits for it.
Loading ==
    /\ \A k \in Calls :
        /\ loads[k].at # "none" => call[k].at = "load" /\ call[k].via = k
        /\ call[k].at = "load" => call[k].via \in Calls
    /\ index.at = "loading" => index.by \in Calls

\* What a source that is up to date says of a command whose input is used up.
Says(c, f) ==
    \/ row[c] = "promoted" /\ f = "transcript"
    \/ row[c] \in {"cancelled", "discarded"} /\ f = "discarded"

\* A used command that is not pinned is over, and the index, or the load that
\* will be it, knows.
IndexKnows ==
    \A c \in Commands : Used(c) /\ live[c] = None =>
        /\ Over(c)
        /\ index.at = "ready" => Says(c, index.facts[c])
        /\ index.at = "loading" /\ loads[index.by].at = "read" =>
              Says(c, loads[index.by].facts[c])

\* So does the call that looks it up, which may wait for a load that is
\* invalidated: it was not when the call began to wait.
Knowing(k) ==
    /\ call[k].at = "fact" => call[k].fact = "error" \/ Says(call[k].cmd, call[k].fact)
    /\ call[k].source = "discarded" => row[call[k].cmd] # "promoted"
    /\ call[k].at = "load" /\ loads[call[k].via].at = "read" =>
          Says(call[k].cmd, loads[call[k].via].facts[call[k].cmd])

CallKnows ==
    \A k \in Calls :
        call[k].at \in {"load", "fact"} /\ Used(call[k].cmd) => Knowing(k)

Inv ==
    /\ Types /\ Gated /\ Exclusive /\ Unused /\ Pinned
    /\ Counted /\ Loading /\ IndexKnows /\ CallKnows

-----------------------------------------------------------------------------
(* One lemma for each kind of step. *)

\* A call joins or leaves a gate.
LEMMA GateFacts ==
    ASSUME NEW g \in Seq(Calls), NEW k \in Calls
    PROVE  /\ Append(g, k) \in Seq(Calls) /\ Append(g, k) # <<>>
           /\ Head(Append(g, k)) = IF g = <<>> THEN k ELSE Head(g)
           /\ g # <<>> => Tail(g) \in Seq(Calls)
  BY HeadTailAppend, AppendProperties, HeadTailProperties

\* A call takes a step on its way.
LEMMA CallFacts ==
    ASSUME Types, NEW k \in Calls, call[k].cmd \in Commands,
           NEW a \in {"done", "key", "final", "load", "fact", "session", "admit", "execute",
                      "handed", "wrote", "goal"}
    PROVE  /\ call[k] \in Call
           /\ [call[k] EXCEPT !.at = a] \in Call
           /\ [call[k] EXCEPT !.at = a, !.second = FALSE] \in Call
           /\ \A c \in Commands : \A s \in BOOLEAN :
                 [Idle EXCEPT !.at = a, !.cmd = c, !.second = s] \in Call
  <1>1. call[k] \in Call
    BY DEF Types
  <1>2. QED
    BY <1>1 DEF Call, Idle, Fact

\* What the steps that answer a call and do nothing else have in common.
AnswerOnly(k) ==
    /\ call[k].at \in {"key", "fact", "session"}
    /\ keyGate[call[k].cmd] # <<>> /\ Head(keyGate[call[k].cmd]) = k
    /\ Answer(k)
    /\ UNCHANGED <<turn, inFlight, live, index, loads, row, handed, written>>

\* Who comes last to a gate does not change who is first.
LEMMA ArriveKeeps ==
    ASSUME Inv, NEW k \in Calls, Arrive(k)
    PROVE  Inv'
  <1> USE InboxAssumption DEF Inv, Arrive, Idle
  <1>1. Types'
    <2>1. PICK c \in Commands :
            /\ call' = [call EXCEPT ![k] = [Idle EXCEPT !.at = "key", !.cmd = c]]
            /\ keyGate' = [keyGate EXCEPT ![c] = Append(@, k)]
      OBVIOUS
    <2>2. [Idle EXCEPT !.at = "key", !.cmd = c] \in Call
      BY DEF Call, Fact
    <2>3. call' \in [Calls -> Call]
      BY <2>1, <2>2 DEF Types
    <2>4. keyGate' \in [Commands -> Seq(Calls)]
      BY <2>1, GateFacts DEF Types
    <2> QED
      BY <2>3, <2>4 DEF Types
  <1>2. Gated'
    <2>1. PICK c \in Commands :
            /\ call' = [call EXCEPT ![k] = [Idle EXCEPT !.at = "key", !.cmd = c]]
            /\ keyGate' = [keyGate EXCEPT ![c] = Append(@, k)]
      OBVIOUS
    <2>2. \A w \in Calls : w # k => call'[w] = call[w]
      BY <2>1 DEF Types
    <2>3. call'[k].at = "key" /\ call'[k].cmd = c
      BY <2>1 DEF Types
    <2>4. \A d \in Commands : keyGate[d] # <<>> =>
            keyGate'[d] # <<>> /\ Head(keyGate'[d]) = Head(keyGate[d])
      BY <2>1, GateFacts DEF Types
    <2> QED
      BY <2>2, <2>3, <2>4 DEF Types, Gated
  <1>3. Exclusive'
    BY DEF Exclusive
  <1>4. Unused'
    BY DEF Unused, Used
  <1>5. Pinned'
    BY DEF Pinned, Over
  <1>6. Counted'
    BY DEF Counted
  <1>7. Loading'
    BY DEF Loading
  <1>8. IndexKnows'
    BY DEF IndexKnows, Used, Over, Says
  <1>9. CallKnows'
    BY DEF CallKnows, Knowing, Used, Says
  <1> QED
    BY <1>1, <1>2, <1>3, <1>4, <1>5, <1>6, <1>7, <1>8, <1>9

\* A call that waits for an outcome asks nothing more.
LEMMA AwaitKeeps ==
    ASSUME Inv, NEW k \in Calls, AwaitFinal(k)
    PROVE  Inv'
  <1> USE InboxAssumption DEF Inv, AwaitFinal, Inside, memory
  <1>1. Types'
    <2>1. call' \in [Calls -> Call]
      <3>1. [call[k] EXCEPT !.at = "final", !.second = FALSE] \in Call
        BY CallFacts DEF Gated
      <3> QED
        BY <3>1 DEF Types
    <2> QED
      BY <2>1 DEF Types
  <1>2. Gated'
    BY DEF Types, Gated
  <1>3. Exclusive'
    BY DEF Types, Exclusive
  <1>4. Unused'
    BY DEF Types, Unused, Used
  <1>5. Pinned'
    BY DEF Types, Pinned, Over
  <1>6. Counted'
    BY DEF Counted
  <1>7. Loading'
    BY DEF Types, Loading
  <1>8. IndexKnows'
    BY DEF IndexKnows, Used, Over, Says
  <1>9. CallKnows'
    <2> SUFFICES ASSUME NEW w \in Calls, (call[w].at \in {"load", "fact"})', Used(call[w].cmd)'
                 PROVE  Knowing(w)'
      BY DEF CallKnows, Knowing
    <2>1. call'[w] = call[w]
      BY DEF Types, Call
    <2>2. Used(call[w].cmd) /\ UNCHANGED <<row, loads>>
      BY <2>1 DEF Used
    <2>3. Knowing(w)
      BY <2>1, <2>2 DEF CallKnows, Knowing
    <2> QED
      BY <2>1, <2>2, <2>3 DEF Knowing, Says
  <1> QED
    BY <1>1, <1>2, <1>3, <1>4, <1>5, <1>6, <1>7, <1>8, <1>9

\* A call that returns was first at its gate, or executes nothing.
LEMMA AnswerKeeps ==
    ASSUME Inv, NEW k \in Calls, AnswerOnly(k)
    PROVE  Inv'
  <1> USE InboxAssumption DEF Inv, AnswerOnly, Answer, Leave, Idle
  <1>1. Types'
    BY DEF Types, Gated, Call, Fact, Final
  <1>2. Gated'
    BY DEF Types, Gated
  <1>3. Exclusive'
    BY DEF Exclusive
  <1>4. Unused'
    BY DEF Unused, Used
  <1>5. Pinned'
    BY DEF Pinned, Over
  <1>6. Counted'
    BY DEF Counted
  <1>7. Loading'
    BY DEF Loading
  <1>8. IndexKnows'
    BY DEF IndexKnows, Used, Over, Says
  <1>9. CallKnows'
    BY DEF CallKnows, Knowing, Used, Says
  <1> QED
    BY <1>1, <1>2, <1>3, <1>4, <1>5, <1>6, <1>7, <1>8, <1>9

\* The commands that calls look up are over when they are used: no row of theirs changes.
LEMMA ReadKeeps ==
    ASSUME Inv, NEW k \in Calls, Read(k)
    PROVE  Inv'
  <1> USE InboxAssumption DEF Inv, Read, FactOf
  <1>1. Types'
    BY DEF Types, Fact
  <1>2. Gated'
    BY DEF Gated
  <1>3. Exclusive'
    BY DEF Exclusive
  <1>4. Unused'
    BY DEF Unused, Used
  <1>5. Pinned'
    BY DEF Types, Gated, Pinned, Over
  <1>6. Counted'
    BY DEF Counted
  <1>7. Loading'
    BY DEF Loading
  <1>8. IndexKnows'
    BY DEF IndexKnows, Used, Over, Says
  <1>9. CallKnows'
    <2> SUFFICES ASSUME NEW w \in Calls, (call[w].at \in {"load", "fact"})', Used(call[w].cmd)'
                 PROVE  Knowing(w)'
      BY DEF CallKnows, Knowing
    <2>1. Used(call[w].cmd) /\ UNCHANGED <<call, handed, written>>
      BY DEF Used
    <2>2. Knowing(w)
      BY <2>1 DEF CallKnows, Knowing
    <2>3. call[w].cmd \in Commands /\ Over(call[w].cmd)
      BY <2>1 DEF Types, Gated, Exclusive, IndexKnows
    <2>4. row'[call[w].cmd] = row[call[w].cmd]
      BY <2>3 DEF Types, Over
    <2>5. Says(call[w].cmd, loads'[k].facts[call[w].cmd])
      BY <2>3 DEF Types, Over, Says
    <2>6. call[w].at = "load" => call[w].via \in Calls
      BY DEF Loading
    <2>7. \A v \in Calls : v # k => loads'[v] = loads[v]
      BY DEF Types
    <2> QED
      BY <2>1, <2>2, <2>4, <2>5, <2>6, <2>7 DEF Knowing, Says
  <1> QED
    BY <1>1, <1>2, <1>3, <1>4, <1>5, <1>6, <1>7, <1>8, <1>9

\* The key gate is kept while the call waits for the session.
LEMMA QueueKeeps ==
    ASSUME Inv, NEW k \in Calls, QueueForSession(k)
    PROVE  Inv'
  <1> USE InboxAssumption DEF Inv, QueueForSession, NotFound, Idle
  <1>1. Types'
    BY DEF Types, Gated, Call, Fact, Final
  <1>2. Gated'
    BY DEF Gated
  <1>3. Exclusive'
    BY DEF Exclusive
  <1>4. Unused'
    BY DEF Unused, Used
  <1>5. Pinned'
    BY DEF Pinned, Over
  <1>6. Counted'
    BY DEF Counted
  <1>7. Loading'
    BY DEF Loading
  <1>8. IndexKnows'
    BY DEF IndexKnows, Used, Over, Says
  <1>9. CallKnows'
    BY DEF CallKnows, Knowing, Used, Says
  <1> QED
    BY <1>1, <1>2, <1>3, <1>4, <1>5, <1>6, <1>7, <1>8, <1>9

\* All sources were asked: who executes has not been used, nor is it in flight.
LEMMA ExecuteKeeps ==
    ASSUME Inv, NEW k \in Calls, Execute(k)
    PROVE  Inv'
  <1> USE InboxAssumption DEF Inv, Execute, NotFound, Idle, Leave
  <1>1. Types'
    <2>1. call' \in [Calls -> Call]
      BY DEF Types, Gated, Call, Fact
    <2>2. keyGate' \in [Commands -> Seq(Calls)]
      BY DEF Types, Gated
    <2>3. inFlight' \in [Commands -> Calls \cup {None}]
      BY DEF Types, Gated
    <2> QED
      BY <2>1, <2>2, <2>3 DEF Types
  <1>2. Gated'
    BY DEF Types, Gated
  <1>3. Exclusive'
    BY DEF Types, Gated, Exclusive
  <1>4. Unused'
    <2>1. ~Used(call[k].cmd)
      BY DEF Types, Gated, Exclusive, CallKnows, Knowing, IndexKnows, Used, Over, Says, Call
    <2> QED
      BY <2>1 DEF Types, Unused, Used
  <1>5. Pinned'
    BY DEF Pinned, Over
  <1>6. Counted'
    BY DEF Counted
  <1>7. Loading'
    BY DEF Loading
  <1>8. IndexKnows'
    BY DEF IndexKnows, Used, Over, Says
  <1>9. CallKnows'
    BY DEF CallKnows, Knowing, Used, Says
  <1> QED
    BY <1>1, <1>2, <1>3, <1>4, <1>5, <1>6, <1>7, <1>8, <1>9

\* The command is pinned before a turn may have its input.
LEMMA AdmitKeeps ==
    ASSUME Inv, NEW k \in Calls, Admit(k)
    PROVE  Inv'
  <1> USE InboxAssumption DEF Inv, Admit
  <1>1. Types'
    <2>1. call' \in [Calls -> Call]
      <3>1. [call[k] EXCEPT !.at = "execute"] \in Call
        BY CallFacts DEF Gated
      <3> QED
        BY <3>1 DEF Types
    <2>2. /\ row' \in [Commands -> {"none", "admitted", "promoted", "cancelled", "discarded"}]
          /\ live' \in [Commands -> Final \cup {None}]
      BY DEF Types, Final
    <2> QED
      BY <2>1, <2>2 DEF Types
  <1>2. Gated'
    BY DEF Gated
  <1>3. Exclusive'
    BY DEF Exclusive
  <1>4. Unused'
    BY DEF Unused, Used
  <1>5. Pinned'
    <2> DEFINE c == call[k].cmd
    <2>1. /\ c \in Commands /\ call'[k].cmd = c /\ live'[c] # None /\ row'[c] # "none"
          /\ \A w \in Calls : w # k => call'[w] = call[w]
          /\ \A d \in Commands : d # c => row'[d] = row[d] /\ live'[d] = live[d]
          /\ row[c] # "none" => row'[c] = row[c]
      BY DEF Types, Gated, Call
    <2>2. \A w \in Calls : call'[w].at \in {"wrote", "goal"} => w # k /\ call[w].cmd # c
      BY <2>1 DEF Types, Gated, Exclusive, Call
    <2> QED
      BY <2>1, <2>2 DEF Gated, Pinned, Over
  <1>6. Counted'
    BY DEF Counted
  <1>7. Loading'
    BY DEF Loading
  <1>8. IndexKnows'
    BY DEF IndexKnows, Used, Over, Says
  <1>9. CallKnows'
    BY DEF CallKnows, Knowing, Used, Says
  <1> QED
    BY <1>1, <1>2, <1>3, <1>4, <1>5, <1>6, <1>7, <1>8, <1>9

\* The input is given away for the first time.
LEMMA HandOverKeeps ==
    ASSUME Inv, NEW k \in Calls, HandOver(k)
    PROVE  Inv'
  <1> USE InboxAssumption DEF Inv, HandOver
  <1>1. Types'
    <2>1. call' \in [Calls -> Call]
      <3>1. [call[k] EXCEPT !.at = "handed"] \in Call
        BY CallFacts DEF Gated
      <3> QED
        BY <3>1 DEF Types
    <2>2. /\ turn' \in [Commands -> {"none", "has", "wrote", "dropped"}]
          /\ handed' \in [Commands -> Nat]
      BY DEF Types, Gated
    <2> QED
      BY <2>1, <2>2 DEF Types
  <1>2. Gated'
    BY DEF Gated
  <1>3. Exclusive'
    BY DEF Exclusive
  <1>4. Unused'
    BY DEF Types, Gated, Exclusive, Unused, Used
  <1>5. Pinned'
    BY DEF Types, Gated, Exclusive, Unused, Pinned, Counted, Used, Over, Call,
         Final
  <1>6. Counted'
    BY DEF Types, Gated, Unused, Pinned, Counted, Used, Over, Call
  <1>7. Loading'
    BY DEF Loading
  <1>8. IndexKnows'
    BY DEF Types, Gated, Exclusive, Unused, Pinned, Counted, Loading,
         IndexKnows, Used, Over, Says, Call, Final
  <1>9. CallKnows'
    BY DEF Types, Gated, Exclusive, IndexKnows, CallKnows, Knowing, Used, Says
  <1> QED
    BY <1>1, <1>2, <1>3, <1>4, <1>5, <1>6, <1>7, <1>8, <1>9

\* At most the row was written; the outcome goes to whoever waits for it.
LEMMA RefuseKeeps ==
    ASSUME Inv, NEW k \in Calls, RefuseAdmission(k)
    PROVE  Inv'
  <1> USE InboxAssumption DEF Inv, RefuseAdmission, Settle, SettleInto, Idle
  <1>1. Types'
    <2>1. /\ call' \in [Calls -> Call] /\ keyGate' \in [Commands -> Seq(Calls)]
          /\ inFlight' \in [Commands -> Calls \cup {None}]
      BY DEF Types, Gated, Call, Fact
    <2>2. row' \in [Commands -> {"none", "admitted", "promoted", "cancelled", "discarded"}]
      <3> DEFINE left == [row EXCEPT ![call[k].cmd] = IF @ = "none" THEN "admitted" ELSE @]
      <3>1. row' = row \/ row' = left
        OBVIOUS
      <3>2. left \in [Commands -> {"none", "admitted", "promoted", "cancelled", "discarded"}]
        BY DEF Types
      <3> QED
        BY <3>1, <3>2 DEF Types
    <2> QED
      BY <2>1, <2>2 DEF Types
  <1> DEFINE c == call[k].cmd
  <1>11. /\ \A d \in Commands : row[d] # "none" => row'[d] = row[d]
         /\ \A w \in Calls : call'[w].at # "done" => w # k /\ call'[w] = call[w]
    <2>1. row' = row \/ row' = [row EXCEPT ![c] = IF @ = "none" THEN "admitted" ELSE @]
      OBVIOUS
    <2> QED
      BY <2>1 DEF Types
  <1>2. Gated'
    BY DEF Gated
  <1>3. Exclusive'
    BY DEF Exclusive
  <1>4. Unused'
    BY DEF Unused, Used
  <1>5. Pinned'
    BY <1>11 DEF Gated, Pinned, Over
  <1>6. Counted'
    BY DEF Types, Counted
  <1>7. Loading'
    BY DEF Loading
  <1>8. IndexKnows'
    BY <1>11 DEF IndexKnows, Used, Over, Says
  <1>9. CallKnows'
    <2>1. \A w \in Calls : call'[w].at \in {"load", "fact"} =>
            /\ call'[w] = call[w] /\ call[w].cmd # call[k].cmd
            /\ row'[call[w].cmd] = row[call[w].cmd]
      BY DEF Types, Gated, Exclusive
    <2> QED
      BY <2>1 DEF Types, Gated, CallKnows, Knowing, Used, Says
  <1> QED
    BY <1>1, <1>2, <1>3, <1>4, <1>5, <1>6, <1>7, <1>8, <1>9

\* The pin stays until the turn is done with the input.
LEMMA ReturnKeeps ==
    ASSUME Inv, NEW k \in Calls, Return(k)
    PROVE  Inv'
  <1> USE InboxAssumption DEF Inv, Return, Settle, SettleInto, Idle
  <1>1. Types'
    <2>1. call' \in [Calls -> Call]
      BY DEF Types, Call, Fact
    <2>2. keyGate' \in [Commands -> Seq(Calls)]
      BY DEF Types, Gated
    <2>3. /\ inFlight' \in [Commands -> Calls \cup {None}]
          /\ live' \in [Commands -> Final \cup {None}]
      BY DEF Types, Final
    <2> QED
      BY <2>1, <2>2, <2>3 DEF Types
  <1>2. Gated'
    BY DEF Gated
  <1>3. Exclusive'
    BY DEF Types, Gated, Exclusive
  <1>4. Unused'
    BY DEF Unused, Used
  <1>5. Pinned'
    BY DEF Types, Gated, Pinned, Over
  <1>6. Counted'
    BY DEF Counted
  <1>7. Loading'
    BY DEF Loading
  <1>8. IndexKnows'
    BY DEF Types, IndexKnows, Used, Over, Says
  <1>9. CallKnows'
    BY DEF CallKnows, Knowing, Used, Says
  <1> QED
    BY <1>1, <1>2, <1>3, <1>4, <1>5, <1>6, <1>7, <1>8, <1>9

\* The pin goes with the failure: no turn has the input, and that of a goal which is
\* written was released before.
LEMMA ExecuteFailsKeeps ==
    ASSUME Inv, NEW k \in Calls, ExecuteFails(k)
    PROVE  Inv'
  <1> USE InboxAssumption DEF Inv, ExecuteFails, Settle, SettleInto, Idle
  <1>1. Types'
    <2>1. call' \in [Calls -> Call]
      BY DEF Types, Call, Fact
    <2>2. keyGate' \in [Commands -> Seq(Calls)]
      BY DEF Types, Gated
    <2>3. /\ inFlight' \in [Commands -> Calls \cup {None}]
          /\ live' \in [Commands -> Final \cup {None}]
      BY DEF Types, Final
    <2>4. row' \in [Commands -> {"none", "admitted", "promoted", "cancelled", "discarded"}]
      <3> DEFINE cancelled == [row EXCEPT ![call[k].cmd] = IF @ = "admitted" THEN "cancelled" ELSE @]
      <3>1. row' = row \/ row' = cancelled
        OBVIOUS
      <3>2. cancelled \in [Commands -> {"none", "admitted", "promoted", "cancelled", "discarded"}]
        BY DEF Types
      <3> QED
        BY <3>1, <3>2 DEF Types
    <2> QED
      BY <2>1, <2>2, <2>3, <2>4 DEF Types
  <1>2. Gated'
    BY DEF Gated
  <1>3. Exclusive'
    BY DEF Exclusive
  <1>4. Unused'
    BY DEF Unused, Used
  <1>5. Pinned'
    BY DEF Types, Gated, Exclusive, Unused, Pinned, Counted, Used, Over, Call,
         Final
  <1>6. Counted'
    BY DEF Types, Counted
  <1>7. Loading'
    BY DEF Loading
  <1>8. IndexKnows'
    BY DEF Types, Gated, Exclusive, Unused, Pinned, Counted, Loading,
         IndexKnows, Used, Over, Says, Call, Final
  <1>9. CallKnows'
    <2>1. \A w \in Calls : call'[w].at \in {"load", "fact"} =>
            /\ call'[w] = call[w] /\ call[w].cmd # call[k].cmd
            /\ row'[call[w].cmd] = row[call[w].cmd]
      BY DEF Types, Gated, Exclusive
    <2> QED
      BY <2>1 DEF Types, Gated, CallKnows, Knowing, Used, Says
  <1> QED
    BY <1>1, <1>2, <1>3, <1>4, <1>5, <1>6, <1>7, <1>8, <1>9

\* The input of a goal is written for the first time, and pinned as long as the index
\* may not know.
LEMMA GoalWritesKeeps ==
    ASSUME Inv, NEW k \in Calls, GoalWrites(k)
    PROVE  Inv'
  <1> USE InboxAssumption DEF Inv, GoalWrites, memory
  <1> DEFINE c == call[k].cmd
  <1>1. Types'
    <2>1. call' \in [Calls -> Call]
      <3>1. [call[k] EXCEPT !.at = "wrote"] \in Call
        BY CallFacts DEF Gated
      <3> QED
        BY <3>1 DEF Types
    <2>2. /\ row' \in [Commands -> {"none", "admitted", "promoted", "cancelled", "discarded"}]
          /\ handed' \in [Commands -> Nat] /\ written' \in [Commands -> Nat]
      BY DEF Types, Gated
    <2> QED
      BY <2>1, <2>2 DEF Types
  <1>2. /\ c \in Commands /\ ~Used(c) /\ handed[c] = 0 /\ written[c] = 0
        /\ inFlight[c] = k /\ live[c] # None /\ turn[c] = "none"
    BY DEF Types, Gated, Exclusive, Unused, Used, Pinned, Counted
  <1>3. \A w \in Calls : w # k => call'[w] = call[w]
    BY DEF Types
  <1>4. call'[k].at = "wrote" /\ call'[k].cmd = c
    BY DEF Types, Call
  <1>5. \A w \in Calls : w # k /\ call[w].at # "done" /\ call[w].at # "key" /\ call[w].at # "final" =>
            call[w].cmd # c
    BY <1>2 DEF Types, Exclusive, Call
  <1>6. /\ \A d \in Commands : d # c => row'[d] = row[d] /\ handed'[d] = handed[d] /\ written'[d] = written[d]
        /\ row'[c] = "promoted" /\ handed'[c] = 1 /\ written'[c] = 1
    BY <1>2 DEF Types
  <1>7. Gated'
    BY <1>3, <1>4 DEF Gated
  <1>8. Exclusive'
    BY <1>2, <1>3, <1>4 DEF Exclusive
  <1>9. Unused'
    BY <1>3, <1>4, <1>5, <1>6 DEF Gated, Unused, Used
  <1>10. Pinned'
    BY <1>2, <1>3, <1>4, <1>5, <1>6 DEF Gated, Pinned, Over
  <1>11. Counted'
    BY <1>6 DEF Counted
  <1>12. Loading'
    BY <1>3, <1>4 DEF Loading
  <1>13. IndexKnows'
    BY <1>2, <1>6 DEF IndexKnows, Used, Over, Says
  <1>14. CallKnows'
    <2> SUFFICES ASSUME NEW w \in Calls, (call[w].at \in {"load", "fact"})', Used(call[w].cmd)'
                 PROVE  Knowing(w)'
      BY DEF CallKnows, Knowing
    <2>1. w # k /\ call'[w] = call[w] /\ call[w].cmd \in Commands /\ call[w].cmd # c
      BY <1>3, <1>4, <1>5 DEF Gated
    <2>2. Used(call[w].cmd) /\ row'[call[w].cmd] = row[call[w].cmd]
      BY <1>6, <2>1 DEF Used
    <2>3. Knowing(w)
      BY <2>1, <2>2 DEF CallKnows
    <2> QED
      BY <2>1, <2>2, <2>3 DEF Knowing, Says
  <1> QED
    BY <1>1, <1>7, <1>8, <1>9, <1>10, <1>11, <1>12, <1>13, <1>14

\* The pin of a goal goes with the index.
LEMMA GoalIngestedKeeps ==
    ASSUME Inv, NEW k \in Calls, GoalIngested(k)
    PROVE  Inv'
  <1> USE InboxAssumption DEF Inv, GoalIngested, NoIndex, NoFacts
  <1> DEFINE c == call[k].cmd
  <1>1. Types'
    <2>1. call' \in [Calls -> Call]
      <3>1. [call[k] EXCEPT !.at = "goal"] \in Call
        BY CallFacts DEF Gated
      <3> QED
        BY <3>1 DEF Types
    <2>2. live' \in [Commands -> Final \cup {None}]
      BY DEF Types
    <2> QED
      BY <2>1, <2>2 DEF Types, Fact
  <1>2. c \in Commands /\ inFlight[c] = k /\ row[c] = "promoted" /\ turn[c] = "none" /\ c \in Goals
    BY DEF Gated, Exclusive, Pinned
  <1>3. \A w \in Calls : w # k => call'[w] = call[w]
    BY DEF Types
  <1>4. call'[k].at = "goal" /\ call'[k].cmd = c
    BY DEF Types, Call
  <1>5. \A w \in Calls : w # k /\ call[w].at # "done" /\ call[w].at # "key" /\ call[w].at # "final" =>
            call[w].cmd # c
    BY <1>2 DEF Types, Exclusive, Call
  <1>6. live'[c] = None /\ \A d \in Commands : d # c => live'[d] = live[d]
    BY <1>2 DEF Types
  <1>7. Gated'
    BY <1>3, <1>4 DEF Gated
  <1>8. Exclusive'
    BY <1>2, <1>3, <1>4, <1>5, <1>6 DEF Gated, Exclusive
  <1>9. Unused' /\ Counted'
    BY <1>3, <1>4 DEF Unused, Used, Counted
  <1>10. Pinned'
    BY <1>2, <1>3, <1>4, <1>5, <1>6 DEF Gated, Pinned, Over
  <1>11. Loading'
    BY <1>3, <1>4 DEF Loading
  <1>12. IndexKnows'
    BY <1>2, <1>6 DEF IndexKnows, Used, Over
  <1>13. CallKnows'
    BY <1>3, <1>4 DEF CallKnows, Knowing, Used, Says
  <1> QED
    BY <1>1, <1>7, <1>8, <1>9, <1>10, <1>11, <1>12, <1>13

\* The transcript has the input and the row says so, in one step.
LEMMA WriteKeeps ==
    ASSUME Inv, NEW c \in Commands, Write(c)
    PROVE  Inv'
  <1> USE InboxAssumption DEF Inv, Write
  <1>1. Types'
    BY DEF Types, Fact
  <1>2. Gated'
    BY DEF Gated
  <1>3. Exclusive'
    BY DEF Exclusive
  <1>4. Unused'
    <2>1. \A w \in Calls : call[w].at \in {"admit", "execute"} => call[w].cmd # c
      BY DEF Types, Unused, Used, Pinned
    <2> QED
      BY <2>1 DEF Types, Gated, Unused, Used
  <1>5. Pinned'
    BY DEF Types, Pinned, Over
  <1>6. Counted'
    BY DEF Types, Gated, Unused, Pinned, Counted, Used, Over, Call
  <1>7. Loading'
    BY DEF Loading
  <1>8. IndexKnows'
    BY DEF Types, Gated, Exclusive, Unused, Pinned, Counted, Loading,
         IndexKnows, Used, Over, Says, Call, Final
  <1>9. CallKnows'
    BY DEF Types, Gated, Exclusive, Unused, Pinned, Counted, Loading,
         IndexKnows, CallKnows, Knowing, Used, Over, Says, Call, Final
  <1> QED
    BY <1>1, <1>2, <1>3, <1>4, <1>5, <1>6, <1>7, <1>8, <1>9

\* The row is cancelled, and the pin stays until that is ingested.
LEMMA DropKeeps ==
    ASSUME Inv, NEW c \in Commands, Drop(c)
    PROVE  Inv'
  <1> USE InboxAssumption DEF Inv, Drop
  <1>1. Types'
    BY DEF Types, Fact
  <1>2. Gated'
    BY DEF Gated
  <1>3. Exclusive'
    BY DEF Exclusive
  <1>4. Unused'
    BY DEF Unused, Used
  <1>5. Pinned'
    BY DEF Types, Pinned, Over
  <1>6. Counted'
    BY DEF Counted
  <1>7. Loading'
    BY DEF Loading
  <1>8. IndexKnows'
    BY DEF IndexKnows, Used, Over, Says
  <1>9. CallKnows'
    BY DEF CallKnows, Knowing, Used, Says
  <1> QED
    BY <1>1, <1>2, <1>3, <1>4, <1>5, <1>6, <1>7, <1>8, <1>9

\* The turn is gone and the pin stays.
LEMMA LoseKeeps ==
    ASSUME Inv, NEW c \in Commands, Lose(c)
    PROVE  Inv'
  <1> USE InboxAssumption DEF Inv, Lose
  <1>1. Types'
    BY DEF Types, Fact
  <1>2. Gated'
    BY DEF Gated
  <1>3. Exclusive'
    BY DEF Exclusive
  <1>4. Unused'
    BY DEF Unused, Used
  <1>5. Pinned'
    BY DEF Pinned, Over
  <1>6. Counted'
    BY DEF Counted
  <1>7. Loading'
    BY DEF Loading
  <1>8. IndexKnows'
    BY DEF IndexKnows, Used, Over, Says
  <1>9. CallKnows'
    BY DEF CallKnows, Knowing, Used, Says
  <1> QED
    BY <1>1, <1>2, <1>3, <1>4, <1>5, <1>6, <1>7, <1>8, <1>9

\* The pin goes with the index: what is read from then on knows the row.
LEMMA IngestKeeps ==
    ASSUME Inv, NEW c \in Commands, Ingest(c)
    PROVE  Inv'
  <1> USE InboxAssumption DEF Inv, Ingest, IngestWith, NoIndex, NoFacts
  <1>1. Types'
    BY DEF Types, Fact
  <1>2. Gated'
    BY DEF Gated
  <1>3. Exclusive'
    BY DEF Exclusive
  <1>4. Unused'
    BY DEF Unused, Used
  <1>5. Pinned'
    BY DEF Types, Gated, Exclusive, Unused, Pinned, Counted, Used, Over, Call,
         Final
  <1>6. Counted'
    BY DEF Counted
  <1>7. Loading'
    BY DEF Loading
  <1>8. IndexKnows'
    BY DEF Types, Gated, Exclusive, Unused, Pinned, Counted, Loading,
         IndexKnows, Used, Over, Says, Call, Final
  <1>9. CallKnows'
    BY DEF CallKnows, Knowing, Used, Says
  <1> QED
    BY <1>1, <1>2, <1>3, <1>4, <1>5, <1>6, <1>7, <1>8, <1>9

\* A session that is resumed makes the rows left behind be over.
LEMMA SweepKeeps ==
    ASSUME Inv, Sweep
    PROVE  Inv'
  <1> USE InboxAssumption DEF Inv, Sweep
  <1>1. Types'
    BY DEF Types, Fact
  <1>2. Gated'
    BY DEF Gated
  <1>3. Exclusive'
    BY DEF Exclusive
  <1>4. Unused'
    BY DEF Unused, Used
  <1>5. Pinned'
    BY DEF Types, Gated, Pinned, Over
  <1>6. Counted'
    BY DEF Counted
  <1>7. Loading'
    BY DEF Loading
  <1>8. IndexKnows'
    BY DEF IndexKnows, Used, Over, Says
  <1>9. CallKnows'
    BY DEF Types, Gated, CallKnows, Knowing, Used, Says
  <1> QED
    BY <1>1, <1>2, <1>3, <1>4, <1>5, <1>6, <1>7, <1>8, <1>9

\* A new process: only the rows and what they say are left.
LEMMA CrashKeeps ==
    ASSUME Inv, Crash
    PROVE  Inv'
  <1> USE InboxAssumption DEF Inv, Crash, Fresh, NoLoad, NoIndex, NoFacts, Idle
  <1>1. Types'
    BY DEF Types, Gated, Call, Fact, Final
  <1>2. Gated'
    BY DEF Gated
  <1>3. Exclusive'
    BY DEF Exclusive
  <1>4. Unused'
    BY DEF Unused, Used
  <1>5. Pinned'
    BY DEF Pinned, Over
  <1>6. Counted'
    BY DEF Counted
  <1>7. Loading'
    BY DEF Loading
  <1>8. IndexKnows'
    BY DEF Types, Gated, Exclusive, Unused, Pinned, Counted, Loading,
         IndexKnows, Used, Over, Says, Call, Final
  <1>9. CallKnows'
    BY DEF CallKnows, Knowing, Used, Says
  <1> QED
    BY <1>1, <1>2, <1>3, <1>4, <1>5, <1>6, <1>7, <1>8, <1>9

\* What the two steps that look the command up have in common: the call is inside
\* of the gate of its command, and who asks for the second source was told by an
\* index that is up to date that the transcript does not hold the input.
LEMMA AskKeeps ==
    ASSUME Inv, NEW k \in Calls, NEW source \in {"transcript", "discarded"}, Ask(k, source),
           call[k].at \in {"key", "fact", "session"}, call[k].cmd \in Commands,
           keyGate[call[k].cmd] # <<>>, Head(keyGate[call[k].cmd]) = k,
           inFlight[call[k].cmd] = None, live[call[k].cmd] = None,
           source = "discarded" /\ Used(call[k].cmd) => row[call[k].cmd] # "promoted",
           UNCHANGED <<session, turn, inFlight, live, keyGate, row, handed, written>>
    PROVE  Inv'
  <1> DEFINE c == call[k].cmd
             r == call'[k]
  <1> USE InboxAssumption DEF Inv
  <1>1. call[k] \in Call /\ index.by \in Calls \cup {None} /\ index.facts \in [Commands -> Fact]
    BY DEF Types
  \* The call has its answer, or waits for a load, perhaps its own.
  <1>2. /\ call' \in [Calls -> Call] /\ \A w \in Calls : w # k => call'[w] = call[w]
        /\ r.cmd = c /\ r.source = source
        /\ \/ /\ index.at = "ready" /\ r.at = "fact" /\ r.fact = index.facts[c]
              /\ UNCHANGED <<index, loads>>
           \/ /\ index.at = "loading" /\ r.at = "load" /\ r.via = index.by /\ index.by # k
              /\ UNCHANGED <<index, loads>>
           \/ /\ r.at = "load" /\ r.via = k
              /\ index' = [NoIndex EXCEPT !.at = "loading", !.by = k]
              /\ \E how \in {"cold", "live"} : loads' = [loads EXCEPT ![k].at = how]
    <2>1. CASE index.at = "ready"
      <3> DEFINE new == [call[k] EXCEPT !.at = "fact", !.source = source,
                                        !.fact = index.facts[c], !.via = None]
      <3>1. /\ new \in Call /\ new.cmd = c /\ new.source = source
            /\ new.at = "fact" /\ new.fact = index.facts[c]
        BY <1>1 DEF Call
      <3> HIDE DEF new
      <3>2. call' = [call EXCEPT ![k] = new] /\ UNCHANGED <<index, loads>>
        BY <2>1 DEF Ask, new
      <3> QED
        BY <2>1, <3>1, <3>2 DEF Types
    <2>2. CASE index.at # "ready"
      <3> DEFINE by == IF index.at = "loading" THEN index.by ELSE k
                 new == [call[k] EXCEPT !.at = "load", !.source = source, !.via = by,
                                        !.fact = "absent"]
      <3>1. by \in Calls
        BY DEF Loading
      <3>2. /\ new \in Call /\ new.cmd = c /\ new.source = source
            /\ new.at = "load" /\ new.via = by
        BY <1>1, <3>1 DEF Call, Fact
      <3>3. call' = [call EXCEPT ![k] = new]
        BY <2>2 DEF Ask
      <3>4. CASE by = k
        BY <2>2, <3>2, <3>3, <3>4 DEF Ask, Types
      <3>5. CASE by # k
        <4>1. UNCHANGED <<index, loads>>
          BY <2>2, <3>5 DEF Ask
        <4>2. index.at = "loading" /\ by = index.by
          BY <3>5
        <4> HIDE DEF new, by
        <4> QED
          BY <3>2, <3>3, <3>5, <4>1, <4>2 DEF Types
      <3> QED
        BY <3>4, <3>5
    <2> QED
      BY <2>1, <2>2
  <1>3. /\ index' \in [at : {"none", "loading", "ready"}, by : Calls \cup {None},
                       facts : [Commands -> Fact]]
        /\ loads' \in [Calls -> [at : {"none", "live", "cold", "read"},
                                 facts : [Commands -> Fact]]]
    <2>1. [NoIndex EXCEPT !.at = "loading", !.by = k] \in
            [at : {"none", "loading", "ready"}, by : Calls \cup {None}, facts : [Commands -> Fact]]
      BY DEF NoIndex, NoFacts, Fact
    <2>2. ASSUME NEW how \in {"cold", "live"}
          PROVE  [loads[k] EXCEPT !.at = how] \in
                    [at : {"none", "live", "cold", "read"}, facts : [Commands -> Fact]]
      BY DEF Types
    <2>3. UNCHANGED index \/ index' = [NoIndex EXCEPT !.at = "loading", !.by = k]
      BY <1>2
    <2>4. \/ UNCHANGED loads
          \/ \E how \in {"cold", "live"} : loads' = [loads EXCEPT ![k] = [loads[k] EXCEPT !.at = how]]
      BY <1>2
    <2>5. index' \in [at : {"none", "loading", "ready"}, by : Calls \cup {None},
                      facts : [Commands -> Fact]]
      BY <2>1, <2>3 DEF Types
    <2>6. loads' \in [Calls -> [at : {"none", "live", "cold", "read"}, facts : [Commands -> Fact]]]
      <3>1. CASE UNCHANGED loads
        BY <3>1 DEF Types
      <3>2. ASSUME NEW how \in {"cold", "live"},
                   loads' = [loads EXCEPT ![k] = [loads[k] EXCEPT !.at = how]]
            PROVE  loads' \in [Calls -> [at : {"none", "live", "cold", "read"},
                                         facts : [Commands -> Fact]]]
        <4> DEFINE new == [loads[k] EXCEPT !.at = how]
        <4>1. new \in [at : {"none", "live", "cold", "read"}, facts : [Commands -> Fact]]
          BY <2>2
        <4> HIDE DEF new
        <4>2. loads' = [loads EXCEPT ![k] = new]
          BY <3>2 DEF new
        <4> QED
          BY <4>1, <4>2 DEF Types
      <3> QED
        BY <2>4, <3>1, <3>2
    <2> QED
      BY <2>5, <2>6
  <1>4. /\ \A v \in Calls : v # k => loads'[v] = loads[v]
        /\ UNCHANGED loads \/ (loads'[k].at \in {"cold", "live"} /\ r.at = "load" /\ r.via = k)
        /\ loads[k].at = "none"
    BY <1>2 DEF Types, Loading
  <1>5. UNCHANGED index \/ (index'.at = "loading" /\ index'.by = k /\ loads'[k].at # "read")
    BY <1>2, <1>4 DEF NoIndex, Types
  <1> HIDE DEF r, Ask
  <1>6. r.at \in {"fact", "load"}
    BY <1>2
  <1>7. Types'
    BY <1>2, <1>3 DEF Types
  <1>8. Gated'
    BY <1>2, <1>6 DEF Gated, r
  <1>9. Exclusive'
    BY <1>2, <1>6 DEF Exclusive, r
  <1>10. Unused' /\ Pinned' /\ Counted'
    BY <1>2, <1>6 DEF Unused, Used, Pinned, Counted, Over, r
  <1>11. Loading'
    BY <1>2, <1>4, <1>5 DEF Loading, r
  <1>12. IndexKnows'
    BY <1>4, <1>5 DEF IndexKnows, Loading, Used, Over, Says
  <1>13. CallKnows'
    <2> SUFFICES ASSUME NEW w \in Calls, (call[w].at \in {"load", "fact"})', Used(call[w].cmd)'
                 PROVE  Knowing(w)'
      BY DEF CallKnows, Knowing
    <2>1. Used(call'[w].cmd) /\ UNCHANGED row
      BY DEF Used
    <2>2. CASE w # k
      <3>1. Knowing(w) /\ call'[w] = call[w]
        BY <1>2, <2>1, <2>2 DEF CallKnows
      <3>2. call[w].at = "load" /\ loads'[call[w].via].at = "read" =>
               loads'[call[w].via] = loads[call[w].via]
        BY <1>4 DEF Loading
      <3> QED
        BY <2>1, <3>1, <3>2 DEF Knowing, Says
    <2>3. CASE w = k
      <3>1. Used(c) /\ Over(c) /\ r.cmd = c /\ r.source = source
        BY <1>2, <2>1, <2>3 DEF IndexKnows, r
      <3> QED
        BY <1>2, <1>4, <2>1, <2>3, <3>1 DEF Knowing, Says, IndexKnows, r
    <2> QED
      BY <2>2, <2>3
  <1> QED
    BY <1>7, <1>8, <1>9, <1>10, <1>11, <1>12, <1>13

\* The lookup inside of a gate begins with the transcript.
LEMMA AskIndexKeeps ==
    ASSUME Inv, NEW k \in Calls, AskIndex(k)
    PROVE  Inv'
  <1>1. /\ call[k].at \in {"key", "session"} /\ call[k].cmd \in Commands
        /\ keyGate[call[k].cmd] # <<>> /\ Head(keyGate[call[k].cmd]) = k
    BY DEF AskIndex, Inside, Inv, Gated
  <1> QED
    BY <1>1, AskKeeps DEF AskIndex

\* The second source is asked when the first did not know the command.
LEMMA AskNextKeeps ==
    ASSUME Inv, NEW k \in Calls, AskNext(k)
    PROVE  Inv'
  <1>1. /\ call[k].at = "fact" /\ call[k].cmd \in Commands
        /\ keyGate[call[k].cmd] # <<>> /\ Head(keyGate[call[k].cmd]) = k
        /\ inFlight[call[k].cmd] = None /\ live[call[k].cmd] = None
    BY DEF AskNext, Inv, Gated, Exclusive
  <1>2. Used(call[k].cmd) => row[call[k].cmd] # "promoted"
    BY DEF AskNext, Inv, CallKnows, Knowing, Says
  <1> QED
    BY <1>1, <1>2, AskKeeps DEF AskNext

\* What the end of a load, good or bad, has in common: whoever waited for it has
\* been told.
LEMMA HeardKeeps ==
    ASSUME Inv, NEW k \in Calls, NEW fact \in [Commands -> Fact \cup {"error"}],
           loads[k].at # "none", call' = Heard(k, fact), loads' = [loads EXCEPT ![k] = NoLoad],
           \A c \in Commands : fact[c] = "error" \/ (loads[k].at = "read" /\ fact[c] = loads[k].facts[c]),
           \/ UNCHANGED index
           \/ index' = NoIndex
           \/ /\ index.at = "loading" /\ index.by = k /\ loads[k].at = "read"
              /\ index' = [at |-> "ready", by |-> None, facts |-> loads[k].facts],
           UNCHANGED <<session, turn, inFlight, live, keyGate, row, handed, written>>
    PROVE  Inv'
  <1> USE InboxAssumption DEF Inv
  <1> DEFINE Waits(w) == call[w].at = "load" /\ call[w].via = k
  <1>1. /\ call' \in [Calls -> Call]
        /\ \A w \in Calls : ~Waits(w) => call'[w] = call[w]
        /\ \A w \in Calls : Waits(w) =>
              /\ call'[w].at = "fact" /\ call'[w].cmd = call[w].cmd
              /\ call'[w].source = call[w].source /\ call'[w].fact = fact[call[w].cmd]
    <2> DEFINE new(w) == [call[w] EXCEPT !.at = "fact", !.via = None, !.fact = fact[call[w].cmd]]
    <2>1. ASSUME NEW w \in Calls, Waits(w)
          PROVE  /\ new(w) \in Call
                 /\ new(w).at = "fact" /\ new(w).cmd = call[w].cmd
                 /\ new(w).source = call[w].source /\ new(w).fact = fact[call[w].cmd]
      <3>1. call[w] \in Call /\ call[w].cmd \in Commands
        BY <2>1 DEF Types, Gated
      <3> QED
        BY <3>1 DEF Call
    <2>2. call' = [w \in Calls |-> IF Waits(w) THEN new(w) ELSE call[w]]
      BY DEF Heard
    <2> HIDE DEF new
    <2> QED
      BY <2>1, <2>2 DEF Types
  <1>2. /\ loads' \in [Calls -> [at : {"none", "live", "cold", "read"}, facts : [Commands -> Fact]]]
        /\ loads'[k].at = "none" /\ \A v \in Calls : v # k => loads'[v] = loads[v]
    BY DEF Types, NoLoad, NoFacts, Fact
  <1>3. index' \in [at : {"none", "loading", "ready"}, by : Calls \cup {None}, facts : [Commands -> Fact]]
    BY DEF Types, NoIndex, NoFacts, Fact
  <1>4. UNCHANGED index \/ index'.at = "none"
        \/ /\ index.at = "loading" /\ index.by = k /\ loads[k].at = "read"
           /\ index'.at = "ready" /\ index'.facts = loads[k].facts
    BY DEF NoIndex
  <1> HIDE DEF Waits
  <1>5. Types'
    BY <1>1, <1>2, <1>3 DEF Types
  <1>6. \A w \in Calls : Waits(w) =>
            /\ call[w].at = "load" /\ call[w].cmd \in Commands
            /\ inFlight[call[w].cmd] = None /\ live[call[w].cmd] = None
            /\ keyGate[call[w].cmd] # <<>> /\ Head(keyGate[call[w].cmd]) = w
    BY DEF Waits, Gated, Exclusive
  <1>7. Gated'
    BY <1>1, <1>6 DEF Gated
  <1>8. Exclusive'
    BY <1>1, <1>6 DEF Exclusive
  <1>9. Unused' /\ Pinned' /\ Counted'
    BY <1>1 DEF Unused, Used, Pinned, Counted, Over
  <1>10. Loading'
    BY <1>1, <1>2, <1>4 DEF Loading, Waits
  <1>11. IndexKnows'
    BY <1>2, <1>4 DEF IndexKnows, Loading, Used, Over, Says
  <1>12. CallKnows'
    <2> SUFFICES ASSUME NEW w \in Calls, (call[w].at \in {"load", "fact"})', Used(call[w].cmd)'
                 PROVE  Knowing(w)'
      BY DEF CallKnows, Knowing
    <2>1. Used(call'[w].cmd) /\ UNCHANGED row
      BY DEF Used
    <2>2. CASE Waits(w)
      <3>1. Knowing(w) /\ call[w].at = "load" /\ call[w].via = k /\ call[w].cmd \in Commands
        BY <1>1, <1>6, <2>1, <2>2 DEF CallKnows, Waits
      <3> QED
        BY <1>1, <2>1, <2>2, <3>1 DEF Knowing, Says
    <2>3. CASE ~Waits(w)
      <3>1. Knowing(w) /\ call'[w] = call[w]
        BY <1>1, <2>1, <2>3 DEF CallKnows
      <3>2. call[w].at = "load" => loads'[call[w].via] = loads[call[w].via]
        BY <1>2, <2>3 DEF Loading, Waits
      <3> QED
        BY <2>1, <3>1, <3>2 DEF Knowing, Says
    <2> QED
      BY <2>2, <2>3
  <1> QED
    BY <1>5, <1>7, <1>8, <1>9, <1>10, <1>11, <1>12

\* Those who wait are told what was read, and the index keeps it if it may.
LEMMA LoadKeeps ==
    ASSUME Inv, NEW k \in Calls, Load(k)
    PROVE  Inv'
  <1>1. loads[k].facts \in [Commands -> Fact \cup {"error"}]
    BY DEF Inv, Types
  <1> QED
    BY <1>1, HeardKeeps DEF Load, LoadFor

\* Those who wait are told of the failure.
LEMMA LoadFailsKeeps ==
    ASSUME Inv, NEW k \in Calls, LoadFails(k)
    PROVE  Inv'
  <1> DEFINE errors == [c \in Commands |-> "error"]
  <1>1. errors \in [Commands -> Fact \cup {"error"}] /\ \A c \in Commands : errors[c] = "error"
    OBVIOUS
  <1>2. call' = Heard(k, errors) /\ loads[k].at # "none"
    BY DEF LoadFails
  <1> HIDE DEF errors
  <1> QED
    BY <1>1, <1>2, HeardKeeps DEF LoadFails

-----------------------------------------------------------------------------
\* The invariant holds at first.
LEMMA Start == Init => Inv
  <1> SUFFICES ASSUME Init PROVE Inv
    OBVIOUS
  <1>1. Types
    BY InboxAssumption DEF Init, Fresh, Types, Idle, Call, Fact, NoIndex, NoLoad, NoFacts
  <1>2. Gated /\ Exclusive /\ Unused /\ CallKnows
    BY DEF Init, Idle, Gated, Exclusive, Unused, CallKnows
  <1>3. Pinned /\ Counted
    BY DEF Init, Fresh, Idle, Pinned, Counted, Over
  <1>4. Loading /\ IndexKnows
    BY DEF Init, Fresh, Idle, NoLoad, NoIndex, Loading, IndexKnows, Used
  <1> QED
    BY <1>1, <1>2, <1>3, <1>4 DEF Inv

\* The answers that change nothing but the gates.
LEMMA Answers ==
    ASSUME Inv, NEW k \in Calls,
           \/ AnswerLive(k) \/ AnswerSettled(k) \/ AnswerError(k)
           \/ AnswerFact(k) \/ AnswerUnknown(k) \/ Reject(k)
    PROVE  AnswerOnly(k)
  <1> USE DEF Inv, Gated, AnswerOnly
  <1>1. CASE AnswerLive(k)
    BY <1>1 DEF AnswerLive, Inside
  <1>2. CASE AnswerSettled(k)
    BY <1>2 DEF AnswerSettled, Inside
  <1>3. CASE AnswerError(k)
    BY <1>3 DEF AnswerError
  <1>4. CASE AnswerFact(k)
    BY <1>4 DEF AnswerFact
  <1>5. CASE AnswerUnknown(k)
    BY <1>5 DEF AnswerUnknown, NotFound
  <1>6. CASE Reject(k)
    BY <1>6 DEF Reject, NotFound
  <1> QED
    BY <1>1, <1>2, <1>3, <1>4, <1>5, <1>6

\* Every step keeps it; what Resume and Deactivate change it does not mention.
LEMMA Step == Inv /\ [Next]_vars => Inv'
  <1> SUFFICES ASSUME Inv, [Next]_vars PROVE Inv'
    OBVIOUS
  <1> USE DEF Next
  <1>1. ASSUME NEW k \in Calls, Arrive(k) \/ Loaded(k) PROVE Inv'
    BY <1>1, ArriveKeeps, ReadKeeps, LoadKeeps, LoadFailsKeeps DEF Loaded
  <1>2. ASSUME NEW k \in Calls, Proceed(k) PROVE Inv'
    BY <1>2, AwaitKeeps, Answers, AnswerKeeps, AskIndexKeeps, AskNextKeeps, QueueKeeps,
       ExecuteKeeps, AdmitKeeps, RefuseKeeps, HandOverKeeps, GoalWritesKeeps, GoalIngestedKeeps,
       ReturnKeeps, ExecuteFailsKeeps
       DEF Proceed
  <1>3. ASSUME NEW c \in Commands, Write(c) \/ Drop(c) \/ Lose(c) \/ Ingest(c) PROVE Inv'
    BY <1>3, WriteKeeps, DropKeeps, LoseKeeps, IngestKeeps
  <1>4. CASE Resume \/ Deactivate \/ UNCHANGED vars
    <2>1. UNCHANGED <<row, turn, inFlight, live, index, loads, keyGate, call, handed, written>>
      BY <1>4 DEF Resume, Deactivate, vars, memory
    <2> QED
      BY <2>1 DEF Inv, Types, Gated, Exclusive, Unused, Used, Pinned, Counted, Over, Loading,
         IndexKnows, CallKnows, Knowing, Says
  <1>5. CASE Sweep \/ Crash
    BY <1>5, SweepKeeps, CrashKeeps
  <1> QED
    BY <1>1, <1>2, <1>3, <1>4, <1>5

\* An input gets into the transcript once, and to a turn once in a process, for
\* any number of commands and calls, any size of the table, and every fault
\* (CommandInbox, PersistentCommandIndex and v4-gateway-ingest.ts).
THEOREM RunsOnce == Spec => []OnceEach
  <1>1. Inv => OnceEach
    <2> SUFFICES ASSUME Inv, NEW c \in Commands
                 PROVE  handed[c] <= 1 /\ written[c] <= 1
      BY DEF OnceEach
    <2>1. handed[c] \in 0..1 /\ written[c] \in 0..1
      BY DEF Inv, Counted
    <2> QED
      BY <2>1
  <1> QED
    BY <1>1, Start, Step, PTL DEF Spec

-----------------------------------------------------------------------------
(* The table of settled answers. *)

Entry == [cmd : Commands, ack : Final]

\* A command has one answer in the table.
Single(s) == \A i, j \in DOMAIN s : s[i].cmd = s[j].cmd => i = j

\* No pin is a failure, and one that the table remembers is not about an input that
\* was used or that is about to be, if it is not a goal.
Told ==
    /\ \A i \in DOMAIN settled : settled[i].ack = "failed" /\ settled[i].cmd \notin Goals =>
          /\ ~Used(settled[i].cmd)
          /\ \A k \in Calls : call[k].at = "execute" => call[k].cmd # settled[i].cmd
    /\ \A c \in Commands : live[c] # "failed"

UsedNext(c) == handed'[c] > 0 \/ written'[c] > 0

Table == settled \in Seq(Entry) /\ Single(settled) /\ Told

\* Taking out one element of a sequence.
LEMMA RemoveAtFacts ==
    ASSUME NEW S, NEW s \in Seq(S), NEW i \in 1..Len(s)
    PROVE  /\ RemoveAt(s, i) \in Seq(S) /\ Len(RemoveAt(s, i)) = Len(s) - 1
           /\ \A j \in 1..(Len(s) - 1) :
                 RemoveAt(s, i)[j] = IF j < i THEN s[j] ELSE s[j + 1]
  <1> DEFINE l == SubSeq(s, 1, i - 1)
             r == SubSeq(s, i + 1, Len(s))
  <1>1. /\ l \in Seq(S) /\ Len(l) = i - 1
        /\ \A j \in 1..(i - 1) : l[j] = s[j]
    OBVIOUS
  <1>2. /\ r \in Seq(S) /\ Len(r) = Len(s) - i
        /\ \A j \in 1..(Len(s) - i) : r[j] = s[i + j]
    OBVIOUS
  <1> HIDE DEF l, r
  <1>3. /\ l \o r \in Seq(S) /\ Len(l \o r) = Len(s) - 1
        /\ \A j \in 1..(Len(s) - 1) : (l \o r)[j] = IF j < i THEN l[j] ELSE r[j - i + 1]
    <2>1. l \o r \in Seq(S) /\ Len(l \o r) = Len(l) + Len(r) /\ Len(s) \in Nat
      BY <1>1, <1>2
    <2>2. Len(l \o r) = Len(s) - 1
      BY <1>1, <1>2, <2>1
    <2>3. ASSUME NEW j \in 1..(Len(s) - 1)
          PROVE  (l \o r)[j] = IF j < i THEN l[j] ELSE r[j - i + 1]
      <3>1. (l \o r)[j] = IF j <= Len(l) THEN l[j] ELSE r[j - Len(l)]
        BY <1>1, <1>2, <2>1, <2>2
      <3>2. (j <= Len(l) <=> j < i) /\ j - Len(l) = j - i + 1
        BY <1>1
      <3> QED
        BY <3>1, <3>2
    <2> QED
      BY <2>1, <2>2, <2>3
  <1>4. \A j \in 1..(Len(s) - 1) : (l \o r)[j] = IF j < i THEN s[j] ELSE s[j + 1]
    <2> TAKE j \in 1..(Len(s) - 1)
    <2>1. CASE j < i
      BY <1>1, <1>3, <2>1
    <2>2. CASE ~(j < i)
      <3>1. j - i + 1 \in 1..(Len(s) - i) /\ i + (j - i + 1) = j + 1
        BY <2>2
      <3> QED
        BY <1>2, <1>3, <2>2, <3>1
    <2> QED
      BY <2>1, <2>2
  <1> QED
    BY <1>3, <1>4 DEF RemoveAt, l, r

\* Forgetting the answer of a command: the others stay.
LEMMA WithoutFacts ==
    ASSUME settled \in Seq(Entry), Single(settled), NEW c
    PROVE  /\ Without(c) \in Seq(Entry) /\ Single(Without(c))
           /\ \A j \in DOMAIN Without(c) : Without(c)[j].cmd # c
           /\ \A j \in DOMAIN Without(c) : \E i \in DOMAIN settled : Without(c)[j] = settled[i]
  <1>1. CASE \E i \in DOMAIN settled : settled[i].cmd = c
    <2> DEFINE n == CHOOSE i \in DOMAIN settled : settled[i].cmd = c
    <2>1. n \in 1..Len(settled) /\ settled[n].cmd = c
      BY <1>1
    <2> HIDE DEF n
    <2> DEFINE w == RemoveAt(settled, n)
    <2>2. /\ w \in Seq(Entry) /\ Len(w) = Len(settled) - 1
          /\ \A j \in 1..(Len(settled) - 1) : w[j] = IF j < n THEN settled[j] ELSE settled[j + 1]
      BY <2>1, RemoveAtFacts
    <2> HIDE DEF w
    <2>3. DOMAIN w = 1..(Len(settled) - 1) /\ Len(settled) \in Nat
      BY <2>2
    <2> DEFINE from(j) == IF j < n THEN j ELSE j + 1
    <2>4. ASSUME NEW j \in DOMAIN w
          PROVE  from(j) \in DOMAIN settled /\ w[j] = settled[from(j)] /\ w[j].cmd # c
      <3>1. from(j) \in 1..Len(settled) /\ from(j) # n /\ w[j] = settled[from(j)]
        BY <2>1, <2>2, <2>3
      <3>2. DOMAIN settled = 1..Len(settled)
        OBVIOUS
      <3> HIDE DEF from
      <3> QED
        BY <2>1, <3>1, <3>2 DEF Single
    <2>5. Single(w)
      <3> SUFFICES ASSUME NEW i \in DOMAIN w, NEW j \in DOMAIN w, w[i].cmd = w[j].cmd
                   PROVE  i = j
        BY DEF Single
      <3>1. from(i) = from(j)
        <4> HIDE DEF from
        <4> QED
          BY <2>4 DEF Single
      <3> QED
        BY <2>1, <2>3, <3>1
    <2>6. Without(c) = w
      BY <1>1 DEF Without, w, n
    <2> HIDE DEF from
    <2> QED
      BY <2>2, <2>4, <2>5, <2>6
  <1>2. CASE ~\E i \in DOMAIN settled : settled[i].cmd = c
    BY <1>2 DEF Without
  <1> QED
    BY <1>1, <1>2

\* Remembering one: it is new, and the others were there.
LEMMA RememberFacts ==
    ASSUME settled \in Seq(Entry), Single(settled), NEW c \in Commands, NEW a \in Final,
           NEW s, s = Append(Without(c), [cmd |-> c, ack |-> a]) \/ s = Remember(c, a)
    PROVE  /\ s \in Seq(Entry) /\ Single(s)
           /\ \A j \in DOMAIN s :
                 \/ s[j] = [cmd |-> c, ack |-> a]
                 \/ s[j].cmd # c /\ \E i \in DOMAIN settled : s[j] = settled[i]
  <1> DEFINE w == Without(c)
             e == [cmd |-> c, ack |-> a]
             kept == Append(w, e)
  <1>1. /\ w \in Seq(Entry) /\ Single(w)
        /\ \A j \in DOMAIN w : w[j].cmd # c
        /\ \A j \in DOMAIN w : \E i \in DOMAIN settled : w[j] = settled[i]
    BY WithoutFacts
  <1> HIDE DEF w
  <1>2. e \in Entry /\ e.cmd = c
    BY DEF Entry
  <1> HIDE DEF e
  <1>3. /\ kept \in Seq(Entry) /\ Len(kept) = Len(w) + 1 /\ Len(w) \in Nat
        /\ kept[Len(w) + 1] = e /\ \A j \in 1..Len(w) : kept[j] = w[j]
        /\ DOMAIN w = 1..Len(w) /\ DOMAIN kept = 1..(Len(w) + 1)
    BY <1>1, <1>2
  <1> HIDE DEF kept
  <1>4. /\ Single(kept)
        /\ \A j \in DOMAIN kept :
              kept[j] = e \/ (kept[j].cmd # c /\ \E i \in DOMAIN settled : kept[j] = settled[i])
    <2>1. ASSUME NEW j \in DOMAIN kept
          PROVE  \/ j = Len(w) + 1 /\ kept[j] = e
                 \/ /\ j \in DOMAIN w /\ kept[j] = w[j] /\ w[j].cmd # c
                    /\ \E i \in DOMAIN settled : kept[j] = settled[i]
      <3>1. j = Len(w) + 1 \/ j \in 1..Len(w)
        BY <1>3
      <3> QED
        BY <1>1, <1>3, <3>1
    <2>2. Single(kept)
      BY <1>1, <1>2, <2>1 DEF Single
    <2> QED
      BY <2>1, <2>2
  <1>5. s = kept \/ s = Tail(kept)
    BY DEF Remember, kept, w, e
  <1>6. /\ Tail(kept) \in Seq(Entry) /\ DOMAIN Tail(kept) = 1..Len(w)
        /\ \A j \in 1..Len(w) : Tail(kept)[j] = kept[j + 1]
    BY <1>3
  <1>7. /\ Single(Tail(kept))
        /\ \A j \in DOMAIN Tail(kept) :
              \/ Tail(kept)[j] = e
              \/ Tail(kept)[j].cmd # c /\ \E i \in DOMAIN settled : Tail(kept)[j] = settled[i]
    <2>1. \A j \in DOMAIN Tail(kept) :
              j \in Nat /\ j + 1 \in DOMAIN kept /\ Tail(kept)[j] = kept[j + 1]
      BY <1>3, <1>6
    <2>2. Single(Tail(kept))
      <3> SUFFICES ASSUME NEW i \in DOMAIN Tail(kept), NEW j \in DOMAIN Tail(kept),
                          Tail(kept)[i].cmd = Tail(kept)[j].cmd
                   PROVE  i = j
        BY DEF Single
      <3>1. i + 1 = j + 1
        BY <1>4, <2>1 DEF Single
      <3> QED
        BY <2>1, <3>1
    <2> QED
      BY <1>4, <2>1, <2>2
  <1>8. CASE s = kept
    BY <1>3, <1>4, <1>8 DEF e
  <1>9. CASE s = Tail(kept)
    BY <1>6, <1>7, <1>9 DEF e
  <1> QED
    BY <1>5, <1>8, <1>9

\* No call comes to its execution.
NoneAdmitted ==
    \A k \in Calls : call'[k].at = "execute" => call[k].at = "execute" /\ call'[k].cmd = call[k].cmd

\* The steps that leave the table, or forget it all.
LEMMA TableStays ==
    ASSUME Inv, Table, settled' = settled \/ settled' = <<>>, NoneAdmitted,
           \A c \in Commands : live'[c] # "failed",
           \A i \in DOMAIN settled : settled[i].ack = "failed" /\ settled[i].cmd \notin Goals =>
                ~UsedNext(settled[i].cmd)
    PROVE  Table'
  <1>1. CASE settled' = settled
    <2>1. Told'
      BY <1>1 DEF Table, Told, NoneAdmitted, UsedNext, Used
    <2> QED
      BY <1>1, <2>1 DEF Table, Single
  <1>2. CASE settled' = <<>>
    BY <1>2 DEF Table, Told, Single
  <1> QED
    BY <1>1, <1>2

\* Those that remember an answer.
LEMMA TableGrows ==
    ASSUME Inv, Table, NoneAdmitted, UNCHANGED <<handed, written>>,
           \A c \in Commands : live'[c] # "failed",
           NEW c \in Commands, NEW a \in Final,
           settled' = Append(Without(c), [cmd |-> c, ack |-> a]) \/ settled' = Remember(c, a),
           a = "failed" /\ c \notin Goals =>
              ~Used(c) /\ \A k \in Calls : call'[k].at = "execute" => call'[k].cmd # c
    PROVE  Table'
  <1>1. /\ settled' \in Seq(Entry) /\ Single(settled')
        /\ \A j \in DOMAIN settled' :
              \/ settled'[j] = [cmd |-> c, ack |-> a]
              \/ settled'[j].cmd # c /\ \E i \in DOMAIN settled : settled'[j] = settled[i]
    BY RememberFacts DEF Table
  <1>2. ASSUME NEW j \in DOMAIN settled', settled'[j].ack = "failed", settled'[j].cmd \notin Goals
        PROVE  /\ ~UsedNext(settled'[j].cmd)
               /\ \A k \in Calls : call'[k].at = "execute" => call'[k].cmd # settled'[j].cmd
    <2>1. CASE settled'[j] = [cmd |-> c, ack |-> a]
      <3>1. settled'[j].cmd = c /\ a = "failed" /\ c \notin Goals
        BY <1>2, <2>1
      <3> QED
        BY <3>1 DEF UsedNext, Used
    <2>2. CASE \E i \in DOMAIN settled : settled'[j] = settled[i]
      <3>1. PICK i \in DOMAIN settled : settled'[j] = settled[i]
        BY <2>2
      <3>2. /\ ~Used(settled[i].cmd)
            /\ \A k \in Calls : call[k].at = "execute" => call[k].cmd # settled[i].cmd
        BY <1>2, <3>1 DEF Table, Told
      <3> QED
        BY <3>1, <3>2 DEF UsedNext, Used, NoneAdmitted
    <2> QED
      BY <1>1, <2>1, <2>2
  <1>3. Told'
    BY <1>2 DEF Told, UsedNext, Used
  <1> QED
    BY <1>1, <1>3 DEF Table, Single

\* Admission makes the table forget the command.
LEMMA TableForgets ==
    ASSUME Inv, Table, NEW k \in Calls, Admit(k)
    PROVE  Table'
  <1> DEFINE c == call[k].cmd
  <1>1. /\ settled' \in Seq(Entry) /\ Single(settled')
        /\ \A j \in DOMAIN settled' : settled'[j].cmd # c
        /\ \A j \in DOMAIN settled' : \E i \in DOMAIN settled : settled'[j] = settled[i]
    BY WithoutFacts DEF Admit, Table
  <1>2. /\ \A w \in Calls : w # k => call'[w] = call[w]
        /\ call'[k].cmd = c
    BY DEF Inv, Types, Call, Admit
  <1>3. \A d \in Commands : live'[d] # "failed"
    BY DEF Inv, Types, Table, Told, Admit
  <1>4. UNCHANGED <<handed, written>>
    BY DEF Admit
  <1>5. ASSUME NEW j \in DOMAIN settled', settled'[j].ack = "failed", settled'[j].cmd \notin Goals
        PROVE  /\ ~UsedNext(settled'[j].cmd)
               /\ \A w \in Calls : call'[w].at = "execute" => call'[w].cmd # settled'[j].cmd
    <2>1. PICK i \in DOMAIN settled : settled'[j] = settled[i]
      BY <1>1
    <2>2. /\ ~Used(settled'[j].cmd)
          /\ \A w \in Calls : call[w].at = "execute" => call[w].cmd # settled'[j].cmd
      BY <1>5, <2>1 DEF Table, Told
    <2>3. \A w \in Calls : call'[w].at = "execute" => call'[w].cmd # settled'[j].cmd
      <3> SUFFICES ASSUME NEW w \in Calls, call'[w].at = "execute"
                   PROVE  call'[w].cmd # settled'[j].cmd
        OBVIOUS
      <3>1. CASE w = k
        BY <1>1, <1>2, <3>1
      <3>2. CASE w # k
        BY <1>2, <2>1, <2>2, <3>2
      <3> QED
        BY <3>1, <3>2
    <2> QED
      BY <1>4, <2>1, <2>2, <2>3 DEF UsedNext, Used
  <1>6. Told'
    BY <1>3, <1>5 DEF Told, UsedNext, Used
  <1> QED
    BY <1>1, <1>6 DEF Table, Single

\* The other steps of a call.
LEMMA TableSettles ==
    ASSUME Inv, Table, NEW k \in Calls,
           RefuseAdmission(k) \/ Return(k) \/ ExecuteFails(k)
    PROVE  Table'
  <1> DEFINE c == call[k].cmd
  <1>1. c \in Commands /\ inFlight[c] = k
    BY DEF Inv, Gated, Exclusive, RefuseAdmission, Return, ExecuteFails
  <1>2. \A w \in Calls : call'[w].at = "execute" => w # k /\ call'[w] = call[w]
    BY DEF RefuseAdmission, Return, ExecuteFails, Settle, SettleInto, Idle
  <1>3. NoneAdmitted /\ \A w \in Calls : call'[w].at = "execute" => call'[w].cmd # c
    BY <1>1, <1>2 DEF Inv, Exclusive, NoneAdmitted
  <1>4. \A d \in Commands : live'[d] # "failed"
    BY <1>1, InboxAssumption
       DEF Inv, Types, Table, Told, RefuseAdmission, Return, ExecuteFails, Final
  <1>5. UNCHANGED <<handed, written>>
    BY DEF RefuseAdmission, Return, ExecuteFails
  <1>6. CASE RefuseAdmission(k) \/ ExecuteFails(k)
    <2>1. settled' = Remember(c, "failed") /\ (~Used(c) \/ c \in Goals)
      BY <1>6 DEF RefuseAdmission, ExecuteFails, Inv, Unused, Pinned
    <2> QED
      BY <1>1, <1>3, <1>4, <1>5, <2>1, TableGrows DEF Final
  <1>7. CASE Return(k)
    <2>1. settled' = settled \/ settled' = Remember(c, "accepted")
      BY <1>7 DEF Return
    <2>2. \A i \in DOMAIN settled : settled[i].ack = "failed" /\ settled[i].cmd \notin Goals =>
                ~UsedNext(settled[i].cmd)
      BY <1>5 DEF Table, Told, Used, UsedNext
    <2>3. CASE settled' = settled
      BY <1>3, <1>4, <2>2, <2>3, TableStays
    <2>4. CASE settled' = Remember(c, "accepted")
      BY <1>1, <1>3, <1>4, <1>5, <2>4, TableGrows DEF Final
    <2> QED
      BY <2>1, <2>3, <2>4
  <1> QED
    BY <1>6, <1>7

\* An answer from the table becomes its newest.
LEMMA TableTouched ==
    ASSUME Inv, Table, NEW k \in Calls, AnswerSettled(k)
    PROVE  Table'
  <1> DEFINE c == call[k].cmd
  <1>1. PICK i \in DOMAIN settled :
            settled[i].cmd = c /\ Answer(k) /\ settled' = Append(Without(c), settled[i])
    BY DEF AnswerSettled
  <1>2. c \in Commands /\ settled[i].ack \in Final /\ settled[i] = [cmd |-> c, ack |-> settled[i].ack]
    <2>1. settled[i] \in Entry
      BY DEF Table
    <2> QED
      BY <1>1, <2>1 DEF Entry
  <1>3. NoneAdmitted
    BY <1>1 DEF Answer, Idle, NoneAdmitted, Inv, Types
  <1>4. UNCHANGED <<live, handed, written>>
    BY DEF AnswerSettled
  <1>5. settled[i].ack = "failed" /\ c \notin Goals =>
            ~Used(c) /\ \A w \in Calls : call'[w].at = "execute" => call'[w].cmd # c
    BY <1>1, <1>3 DEF Table, Told, NoneAdmitted
  <1> QED
    BY <1>1, <1>2, <1>3, <1>4, <1>5, TableGrows DEF Table, Told

\* What the rest of the steps does to the commands that were used.
LEMMA TableUntouched ==
    ASSUME Inv, Table, NoneAdmitted, UNCHANGED settled, UNCHANGED live,
           UNCHANGED <<handed, written>>
           \/ (\E k \in Calls : HandOver(k) \/ GoalWrites(k)) \/ (\E c \in Commands : Write(c))
    PROVE  Table'
  <1>1. \A i \in DOMAIN settled : settled[i].ack = "failed" /\ settled[i].cmd \notin Goals =>
                ~UsedNext(settled[i].cmd)
    <2> SUFFICES ASSUME NEW i \in DOMAIN settled, settled[i].ack = "failed",
                        settled[i].cmd \notin Goals
                 PROVE  ~UsedNext(settled[i].cmd)
      OBVIOUS
    <2> DEFINE d == settled[i].cmd
    <2>1. d \in Commands /\ ~Used(d) /\ \A k \in Calls : call[k].at = "execute" => call[k].cmd # d
      <3>1. settled[i] \in Entry
        BY DEF Table
      <3> QED
        BY <3>1 DEF Table, Told, Entry
    <2>2. CASE UNCHANGED <<handed, written>>
      BY <2>1, <2>2 DEF Used, UsedNext
    <2>3. ASSUME NEW k \in Calls, HandOver(k) PROVE ~UsedNext(d)
      <3>1. handed'[d] = handed[d] /\ UNCHANGED written
        BY <2>1, <2>3 DEF HandOver, Inv, Types
      <3> QED
        BY <2>1, <3>1 DEF Used, UsedNext
    <2>5. ASSUME NEW k \in Calls, GoalWrites(k) PROVE ~UsedNext(d)
      <3>1. handed'[d] = handed[d] /\ written'[d] = written[d]
        BY <2>1, <2>5 DEF GoalWrites, Inv, Types
      <3> QED
        BY <2>1, <3>1 DEF Used, UsedNext
    <2>4. ASSUME NEW c \in Commands, Write(c) PROVE ~UsedNext(d)
      <3>1. Used(c)
        BY <2>4 DEF Write, Inv, Pinned, Used
      <3>2. written'[d] = written[d] /\ UNCHANGED handed
        BY <2>1, <2>4, <3>1 DEF Write, Inv, Types
      <3> QED
        BY <2>1, <3>2 DEF Used, UsedNext
    <2> QED
      BY <2>2, <2>3, <2>4, <2>5, Zenon
  <1> QED
    BY <1>1, TableStays DEF Table, Told

\* Ingestion remembers a pin, and a pin is no failure.
LEMMA TableIngests ==
    ASSUME Inv, Table, NEW c \in Commands, Ingest(c)
    PROVE  Table'
  <1>1. NoneAdmitted /\ UNCHANGED <<handed, written>>
    BY DEF Ingest, IngestWith, NoneAdmitted
  <1>2. \A d \in Commands : live'[d] # "failed"
    BY InboxAssumption DEF Ingest, IngestWith, Inv, Types, Table, Told, Final
  <1>3. \A i \in DOMAIN settled : settled[i].ack = "failed" /\ settled[i].cmd \notin Goals =>
                ~UsedNext(settled[i].cmd)
    BY <1>1 DEF Table, Told, Used, UsedNext
  <1>4. settled' = settled \/ (settled' = Remember(c, live[c]) /\ live[c] # None)
    BY DEF Ingest, IngestWith
  <1>5. CASE settled' = settled
    BY <1>1, <1>2, <1>3, <1>5, TableStays
  <1>6. CASE settled' = Remember(c, live[c]) /\ live[c] # None
    <2>1. live[c] \in Final /\ live[c] # "failed"
      BY <1>6 DEF Inv, Types, Table, Told
    <2> QED
      BY <1>1, <1>2, <1>6, <2>1, TableGrows
  <1> QED
    BY <1>4, <1>5, <1>6

LEMMA TableIngestsGoal ==
    ASSUME Inv, Table, NEW k \in Calls, GoalIngested(k)
    PROVE  Table'
  <1> DEFINE c == call[k].cmd
  <1>1. NoneAdmitted /\ UNCHANGED <<handed, written>> /\ c \in Commands
    BY DEF GoalIngested, NoneAdmitted, Inv, Types, Call, Gated
  <1>2. \A d \in Commands : live'[d] # "failed"
    BY InboxAssumption DEF GoalIngested, Inv, Types, Table, Told, Final
  <1>3. \A i \in DOMAIN settled : settled[i].ack = "failed" /\ settled[i].cmd \notin Goals =>
                ~UsedNext(settled[i].cmd)
    BY <1>1 DEF Table, Told, Used, UsedNext
  <1>4. settled' = settled \/ (settled' = Remember(c, live[c]) /\ live[c] # None)
    BY DEF GoalIngested
  <1>5. CASE settled' = settled
    BY <1>1, <1>2, <1>3, <1>5, TableStays
  <1>6. CASE settled' = Remember(c, live[c]) /\ live[c] # None
    <2>1. live[c] \in Final /\ live[c] # "failed"
      BY <1>1, <1>6 DEF Inv, Types, Table, Told
    <2> QED
      BY <1>1, <1>2, <1>6, <2>1, TableGrows
  <1> QED
    BY <1>4, <1>5, <1>6

LEMMA TableKeeps == Inv /\ Table /\ [Next]_vars => Table'
  <1> SUFFICES ASSUME Inv, Table, [Next]_vars PROVE Table'
    OBVIOUS
  <1>1. ASSUME NEW k \in Calls,
               \/ Arrive(k) \/ Loaded(k)
               \/ AwaitFinal(k) \/ AnswerLive(k) \/ AskIndex(k)
               \/ AnswerError(k) \/ AnswerFact(k) \/ AskNext(k)
               \/ AnswerUnknown(k) \/ QueueForSession(k) \/ Reject(k) \/ Execute(k)
               \/ HandOver(k) \/ GoalWrites(k)
        PROVE  Table'
    <2>1. UNCHANGED <<settled, live>>
      BY <1>1 DEF Arrive, Loaded, Read, Load, LoadFor, LoadFails, AwaitFinal, memory, AnswerLive,
         AskIndex, AnswerError, AnswerFact, AskNext, AnswerUnknown, QueueForSession, Reject,
         Execute, HandOver, GoalWrites
    <2>2. UNCHANGED <<handed, written>> \/ HandOver(k) \/ GoalWrites(k)
      BY <1>1 DEF Arrive, Loaded, Read, Load, LoadFor, LoadFails, AwaitFinal, memory, AnswerLive,
         AskIndex, AnswerError, AnswerFact, AskNext, AnswerUnknown, QueueForSession, Reject, Execute
    <2>3. NoneAdmitted
      <3>1. CASE Read(k)
        BY <3>1 DEF Read, NoneAdmitted
      <3>2. CASE Load(k) \/ LoadFails(k)
        <4>1. PICK fact : call' = Heard(k, fact)
          BY <3>2 DEF Load, LoadFor, LoadFails
        <4> SUFFICES ASSUME NEW w \in Calls, call'[w].at = "execute" PROVE call'[w] = call[w]
          BY DEF NoneAdmitted
        <4>2. call[w] \in Call
          BY DEF Inv, Types
        <4> QED
          BY <4>1, <4>2 DEF Heard, Call
      <3>3. CASE ~Loaded(k)
        <4>1. \A w \in Calls : w # k => call'[w] = call[w]
          <5>1. call \in [Calls -> Call]
            BY DEF Inv, Types
          <5>2. ASSUME NEW source, Ask(k, source), NEW w \in Calls, w # k
                PROVE  call'[w] = call[w]
            BY <5>1, <5>2 DEF Ask
          <5>3. CASE ~(AskIndex(k) \/ AskNext(k))
            <6> SUFFICES \E x : call' = [call EXCEPT ![k] = x]
              BY <5>1
            <6>1. CASE Arrive(k)
              BY <6>1 DEF Arrive
            <6>2. CASE \/ AwaitFinal(k) \/ AnswerLive(k) \/ AnswerError(k) \/ AnswerFact(k)
                       \/ AnswerUnknown(k) \/ Reject(k)
              BY <6>2 DEF AwaitFinal, AnswerLive, AnswerError, AnswerFact, AnswerUnknown,
                 Reject, Answer
            <6>3. CASE QueueForSession(k) \/ Execute(k) \/ HandOver(k) \/ GoalWrites(k)
              BY <6>3 DEF QueueForSession, Execute, HandOver, GoalWrites
            <6> QED
              BY <1>1, <3>3, <5>3, <6>1, <6>2, <6>3
          <5> QED
            BY <5>2, <5>3 DEF AskIndex, AskNext
        <4>2. call'[k].at # "execute"
          <5>1. call \in [Calls -> Call] /\ call[k] \in Call
            BY DEF Inv, Types
          <5>2. CASE \/ Arrive(k) \/ QueueForSession(k) \/ Execute(k)
            <6> DEFINE idle(a, c) == [Idle EXCEPT !.at = a, !.cmd = c]
                       again(a, c) == [Idle EXCEPT !.at = a, !.cmd = c, !.second = TRUE]
            <6>1. \A c : idle("key", c).at = "key" /\ idle("admit", c).at = "admit"
                         /\ again("session", c).at = "session"
              BY DEF Idle
            <6>2. \E x : call' = [call EXCEPT ![k] = x] /\ x.at # "execute"
              <7>1. CASE Arrive(k)
                <8>1. PICK c \in Commands : call' = [call EXCEPT ![k] = idle("key", c)]
                  BY <7>1 DEF Arrive
                <8> QED
                  BY <6>1, <8>1
              <7>2. CASE QueueForSession(k)
                <8>1. call' = [call EXCEPT ![k] = again("session", call[k].cmd)]
                  BY <7>2 DEF QueueForSession
                <8> QED
                  BY <6>1, <8>1
              <7>3. CASE Execute(k)
                <8>1. call' = [call EXCEPT ![k] = idle("admit", call[k].cmd)]
                  BY <7>3 DEF Execute
                <8> QED
                  BY <6>1, <8>1
              <7> QED
                BY <5>2, <7>1, <7>2, <7>3
            <6> QED
              BY <5>1, <6>2
          <5>4. CASE AwaitFinal(k) \/ HandOver(k) \/ GoalWrites(k)
            BY <5>1, <5>4 DEF AwaitFinal, HandOver, GoalWrites, Call
          <5>5. CASE AnswerLive(k) \/ AnswerError(k) \/ AnswerFact(k) \/ AnswerUnknown(k) \/ Reject(k)
            BY <5>1, <5>5 DEF AnswerLive, AnswerError, AnswerFact, AnswerUnknown, Reject, Answer, Idle
          <5>3. ASSUME NEW source, Ask(k, source) PROVE call'[k].at # "execute"
            BY <5>1, <5>3 DEF Ask, Call
          <5> QED
            BY <1>1, <3>3, <5>2, <5>3, <5>4, <5>5 DEF AskIndex, AskNext
        <4> QED
          BY <4>1, <4>2 DEF NoneAdmitted
      <3> QED
        BY <3>1, <3>2, <3>3 DEF Loaded
    <2> QED
      BY <2>1, <2>2, <2>3, TableUntouched
  <1>2. ASSUME NEW k \in Calls,
               \/ AnswerSettled(k) \/ Admit(k) \/ RefuseAdmission(k) \/ GoalIngested(k)
               \/ Return(k) \/ ExecuteFails(k)
        PROVE  Table'
    BY <1>2, TableTouched, TableForgets, TableIngestsGoal, TableSettles
  <1>3. ASSUME NEW c \in Commands, Write(c) \/ Drop(c) \/ Lose(c) PROVE Table'
    <2>1. /\ NoneAdmitted /\ UNCHANGED <<settled, live>>
          /\ UNCHANGED <<handed, written>> \/ Write(c)
      BY <1>3 DEF Write, Drop, Lose, NoneAdmitted
    <2> QED
      BY <2>1, TableUntouched
  <1>4. ASSUME NEW c \in Commands, Ingest(c) PROVE Table'
    BY <1>4, TableIngests
  <1>5. CASE Resume \/ Sweep \/ Deactivate \/ UNCHANGED vars
    <2>1. /\ UNCHANGED <<call, live, handed, written>>
          /\ settled' = settled \/ settled' = <<>>
      BY <1>5 DEF Resume, Sweep, Deactivate, vars, memory
    <2>2. NoneAdmitted
      BY <2>1 DEF NoneAdmitted
    <2>3. \A i \in DOMAIN settled : settled[i].ack = "failed" /\ settled[i].cmd \notin Goals =>
                ~UsedNext(settled[i].cmd)
      BY <2>1 DEF Table, Told, Used, UsedNext
    <2>4. \A c \in Commands : live'[c] # "failed"
      BY <2>1 DEF Table, Told
    <2> QED
      BY <2>1, <2>2, <2>3, <2>4, TableStays
  <1>6. CASE Crash
    BY <1>6, InboxAssumption DEF Crash, Fresh, Table, Told, Single
  <1> QED
    BY <1>1, <1>2, <1>3, <1>4, <1>5, <1>6 DEF Next, Proceed

\* An input that is in the transcript is known ever after: no answer about it is that
\* nobody knows it or that it was discarded, and it is not run again, whatever the
\* table and the cached index have forgotten (persistent-command-index.ts:90), also
\* that of a goal whose execution fails when it is written (goal-continuation.ts:25);
\* only that failure may be remembered of it.
THEOREM WrittenStaysKnown == Spec => []WrittenIsKnown
  <1>1. Init => Table
    BY InboxAssumption DEF Init, Fresh, Table, Told, Single
  <1>2. Inv /\ Table => WrittenIsKnown
    <2> SUFFICES ASSUME Inv, Table, NEW c \in Commands, written[c] > 0 PROVE
                 /\ live[c] # "failed"
                 /\ \A i \in DOMAIN settled :
                       settled[i].cmd = c /\ settled[i].ack = "failed" => c \in Goals
                 /\ \A k \in Calls : call[k].cmd = c =>
                       ~(call[k].at = "fact" /\ call[k].source = "discarded")
      BY DEF WrittenIsKnown, NotFound
    <2>1. row[c] = "promoted" /\ Used(c)
      BY DEF Inv, Counted, Used
    <2>2. ASSUME NEW i \in DOMAIN settled, settled[i].cmd = c, settled[i].ack = "failed"
          PROVE  c \in Goals
      <3>1. settled[i] \in Entry
        BY DEF Table
      <3> QED
        BY <2>1, <2>2, <3>1 DEF Table, Told, Entry, Final
    <2>3. ASSUME NEW k \in Calls, call[k].cmd = c, call[k].at = "fact"
          PROVE  call[k].source # "discarded"
      BY <2>1, <2>3 DEF Inv, CallKnows, Knowing
    <2> QED
      BY <2>2, <2>3 DEF Table, Told
  <1> QED
    BY <1>1, <1>2, Start, Step, TableKeeps, PTL DEF Spec

=============================================================================
