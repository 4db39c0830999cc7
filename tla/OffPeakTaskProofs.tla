-------------------------- MODULE OffPeakTaskProofs --------------------------
(***************************************************************************)
(* What OffPeakTask's runs check with two tickets and two dispatches, for  *)
(* every number of tickets, dispatches and windows: the types, that final  *)
(* states are final, that a task has one loop while dispatches do not      *)
(* outlast their claim, and that a running task runs while outcomes do not *)
(* overtake the result of their dispatch.                                  *)
(***************************************************************************)
EXTENDS OffPeakTask, TLAPS

Busy(i) == Underway(i) \/ seg[i].loop \notin {"none", "closed"}

Over == Terminal \cup {"deleted"}

-----------------------------------------------------------------------------
(* Types. *)

\* Nothing is known of a task that is not there, and a take that was made has its
\* ticket.
Taken ==
    /\ row.status = "none" =>
           seg = <<>> /\ (\A h \in Hosts : poll[h] = None) /\ (\A o \in Retakers : retake[o] = None)
    /\ \A o \in Retakers : retake[o] # None /\ retake[o].at = "taken" => retake[o].ticket \in Tickets

TypeInv == TypeOK /\ Taken

Poll == [ticket : Tickets, queued : BOOLEAN, state : {None, "taking"} \cup TicketState]
Retaken == [at : {"looking", "looked", "asked", "taken"}, ticket : Tickets \cup {None}, ready : BOOLEAN]

\* The row stays a row whatever of its fields is set.
LEMMA RowFacts ==
    ASSUME NEW r \in Row
    PROVE  /\ \A s \in Status : [r EXCEPT !.status = s] \in Row
           /\ \A b \in BOOLEAN : /\ [r EXCEPT !.claimed = b] \in Row
                                 /\ [r EXCEPT !.schedulable = b] \in Row
                                 /\ [r EXCEPT !.settled = b] \in Row
           /\ \A t \in Tickets \cup {None} : [r EXCEPT !.ticket = t] \in Row
           /\ \A c \in 0..Segments : [r EXCEPT !.conversation = c] \in Row
  BY DEF Row

LEMMA TypeInit == Init => TypeInv
  <1>1. SUFFICES ASSUME Init PROVE TypeInv
    OBVIOUS
  <1>2. row \in Row /\ row.ticket = None /\ row.status = "none"
    BY <1>1, OffPeakAssumption DEF Init, Row, Status
  <1>3. seg \in Seq(Segment) /\ Len(seg) <= Segments
    BY <1>1, OffPeakAssumption DEF Init
  <1>4. server \in [Tickets -> TicketState]
    BY <1>1 DEF Init, TicketState
  <1>5. poll \in [Hosts -> {None} \cup Poll] /\ retake \in [Retakers -> {None} \cup Retaken]
    BY <1>1 DEF Init
  <1>6. QED
    BY <1>1, <1>2, <1>3, <1>4, <1>5 DEF TypeInv, TypeOK, Taken, Poll, Retaken, Init

\* The parts of the type invariant, to be shown one by one.
LEMMA TypeParts ==
    /\ TypeInv <=>
          /\ row \in Row /\ (row.ticket = None <=> row.status = "none")
          /\ seg \in Seq(Segment) /\ Len(seg) <= Segments
          /\ server \in [Tickets -> TicketState]
          /\ poll \in [Hosts -> {None} \cup Poll]
          /\ retake \in [Retakers -> {None} \cup Retaken]
          /\ Taken
    /\ TypeInv' <=>
          /\ row' \in Row /\ (row'.ticket = None <=> row'.status = "none")
          /\ seg' \in Seq(Segment) /\ Len(seg') <= Segments
          /\ server' \in [Tickets -> TicketState]
          /\ poll' \in [Hosts -> {None} \cup Poll]
          /\ retake' \in [Retakers -> {None} \cup Retaken]
          /\ Taken'
  BY DEF TypeInv, TypeOK, Poll, Retaken

\* What an action may do to the row: never take its ticket away or end it.
RowStep ==
    /\ row' \in Row
    /\ row.status # "none" /\ row'.status # "none"
    /\ row'.ticket \in Tickets

\* The steps that touch the row and the dispatches only.
LEMMA RowTyped ==
    ASSUME TypeInv, RowStep, seg' \in Seq(Segment), Len(seg') <= Segments,
           server' \in [Tickets -> TicketState], UNCHANGED <<poll, retake>>
    PROVE  TypeInv'
  <1>1. Taken'
    BY TypeParts DEF RowStep, Taken
  <1>2. row'.ticket # None
    BY OffPeakAssumption DEF RowStep
  <1>3. QED
    BY <1>1, <1>2, TypeParts DEF RowStep

\* The ticket of a task that is there is one.
LEMMA HasTicket ==
    ASSUME TypeInv, row.status # "none"
    PROVE  row.ticket \in Tickets /\ row \in Row
  BY TypeParts DEF Row

LEMMA TerminalRow ==
    ASSUME TypeInv, row.status # "none", NEW s \in Terminal
    PROVE  /\ MarkTerminal(s) \in Row /\ MarkTerminal(s).ticket = row.ticket
           /\ MarkTerminal(s).status \in {row.status, s}
           /\ MarkTerminal(s).status \in Over
           /\ row.status \in Over => MarkTerminal(s) = row
  <1>1. row \in Row /\ s \in Status
    BY HasTicket DEF Status
  <1>2. QED
    BY <1>1, HasTicket DEF MarkTerminal, Row, Over

LEMMA SnapshotRow ==
    ASSUME TypeInv, row.status # "none", NEW t \in Tickets, NEW b \in BOOLEAN
    PROVE  /\ Snapshot(t, b) \in Row /\ Snapshot(t, b).status = row.status
           /\ Snapshot(t, b).ticket \in Tickets /\ Snapshot(t, b).claimed = row.claimed
  BY HasTicket DEF Snapshot, Row

\* Dispatches that change in their places stay a list of dispatches.
LEMMA SegTyped ==
    ASSUME seg \in Seq(Segment), Len(seg) <= Segments, NEW f \in [DOMAIN seg -> Segment]
    PROVE  f \in Seq(Segment) /\ Len(f) = Len(seg) /\ Len(f) <= Segments /\ DOMAIN f = DOMAIN seg
  <1>1. DOMAIN seg = 1..Len(seg) /\ Len(seg) \in Nat
    OBVIOUS
  <1>2. f \in [1..Len(seg) -> Segment]
    BY <1>1
  <1>3. QED
    BY <1>1, <1>2

LEMMA SegFacts ==
    ASSUME TypeInv
    PROVE  /\ seg \in [DOMAIN seg -> Segment] /\ DOMAIN seg = 1..Len(seg) /\ Len(seg) \in 0..Segments
           /\ \A i \in DOMAIN seg : /\ seg[i].ticket \in Tickets /\ seg[i].conversation \in 0..Segments
                                    /\ i \in 0..Segments
  <1>1. seg \in Seq(Segment) /\ Len(seg) <= Segments /\ Segments \in Nat
    BY TypeParts, OffPeakAssumption
  <1>2. seg \in [1..Len(seg) -> Segment] /\ DOMAIN seg = 1..Len(seg) /\ Len(seg) \in Nat
    BY <1>1
  <1>3. \A i \in DOMAIN seg : seg[i] \in Segment /\ i \in 0..Segments
    BY <1>1, <1>2
  <1>4. QED
    BY <1>1, <1>2, <1>3 DEF Segment

LEMMA ClaimTyped ==
    ASSUME TypeInv, ClaimDue
    PROVE  TypeInv'
  <1>1. CASE row.status = "queued" /\ row.schedulable /\ Len(seg) < Segments
    <2> DEFINE d == [at |-> "asked", ticket |-> row.ticket, conversation |-> row.conversation,
                     loop |-> "none"]
    <2>1. row \in Row /\ row.ticket \in Tickets /\ row.conversation \in 0..Segments
      BY <1>1, HasTicket DEF Row
    <2>2. d \in Segment
      BY <2>1 DEF Segment
    <2>3. seg' = Append(seg, d) /\ row' = [row EXCEPT !.claimed = TRUE]
          /\ UNCHANGED <<server, poll, retake>>
      BY <1>1 DEF ClaimDue
    <2> HIDE DEF d
    <2>4. seg' \in Seq(Segment) /\ Len(seg') = Len(seg) + 1
      BY <2>2, <2>3, TypeParts
    <2>5. Len(seg') <= Segments
      BY <1>1, <2>4, SegFacts, OffPeakAssumption
    <2>6. RowStep
      BY <1>1, <2>1, <2>3, RowFacts DEF RowStep, Row
    <2>7. QED
      BY <2>3, <2>4, <2>5, <2>6, RowTyped, TypeParts
  <1>2. CASE ~(row.status = "queued" /\ row.schedulable /\ Len(seg) < Segments)
    <2>1. row' = [row EXCEPT !.claimed = FALSE] /\ UNCHANGED <<seg, server, poll, retake>>
      BY <1>2 DEF ClaimDue
    <2>2. row' \in Row /\ row'.ticket = row.ticket /\ row'.status = row.status
      BY <2>1, TypeParts, RowFacts DEF Row
    <2>3. QED
      BY <2>1, <2>2, TypeParts DEF Taken
  <1>3. QED
    BY <1>1, <1>2

LEMMA DispatchTyped ==
    ASSUME TypeInv, NEW i \in DOMAIN seg, Admit(i) \/ (\E kind \in {"transient", "permanent"} : Refuse(i, kind))
                    \/ (\E outcome \in {"succeeded", "failed", "stopped", "expired"} : LoopEnds(i, outcome))
    PROVE  TypeInv'
  <1>1. /\ row.status # "none" /\ UNCHANGED <<row, poll, retake>>
    BY TypeParts DEF Admit, Refuse, LoopEnds, Taken
  <1>2. seg' \in [DOMAIN seg -> Segment]
    <2>1. CASE Admit(i)
      BY <2>1, SegFacts DEF Admit, Segment
    <2>2. CASE \E kind \in {"transient", "permanent"} : Refuse(i, kind)
      BY <2>2, SegFacts DEF Refuse, Segment
    <2>3. CASE \E outcome \in {"succeeded", "failed", "stopped", "expired"} : LoopEnds(i, outcome)
      BY <2>3, SegFacts DEF LoopEnds, Segment
    <2>4. QED
      BY <2>1, <2>2, <2>3
  <1>3. server' \in [Tickets -> TicketState]
    BY TypeParts DEF Admit, Refuse, LoopEnds, TicketState, Alive
  <1>4. RowStep
    BY <1>1, HasTicket DEF RowStep
  <1>5. QED
    BY <1>1, <1>2, <1>3, <1>4, RowTyped, SegTyped, TypeParts

\* What SettleDispatch makes of the row.
LEMMA SettledRow ==
    ASSUME TypeInv, NEW i \in DOMAIN seg, SettleDispatch(i)
    PROVE  /\ RowStep /\ row'.ticket = row.ticket
           /\ row.status \in Over => row'.status = row.status
           /\ row'.status \in {row.status} \cup Over \/ row'.status = "running"
           /\ row'.status = "running" => \/ row.status = "running"
                                         \/ seg[i].at = "admitted" /\ row.status = "queued"
           /\ row'.status = row.status => ~row'.claimed \/ row'.claimed = row.claimed
           /\ seg[i].at = "admitted" /\ row.status = "queued" => row'.status = "running"
  <1>1. row.status # "none"
    BY TypeParts DEF Taken
  <1>2. row \in Row /\ row.ticket \in Tickets /\ "failed" \in Terminal
    BY <1>1, HasTicket DEF Terminal
  <1>3. CASE seg[i].at = "admitted"
    <2>1. row' = MarkRunning(i)
      BY <1>3 DEF SettleDispatch
    <2>2. CASE row.status = "queued"
      <3>1. row' = [row EXCEPT !.status = "running", !.claimed = FALSE,
                               !.conversation = seg[i].conversation]
        BY <2>1, <2>2 DEF MarkRunning
      <3>2. QED
        BY <1>1, <1>2, <1>3, <2>2, <3>1, SegFacts DEF RowStep, Row, Over, Status, Terminal
    <2>3. CASE row.status # "queued"
      <3>1. row' = [row EXCEPT !.claimed = FALSE]
        BY <2>1, <2>3 DEF MarkRunning
      <3>2. QED
        BY <1>1, <1>2, <2>3, <3>1, RowFacts DEF RowStep, Row, Over
    <2>4. QED
      BY <2>2, <2>3
  <1>4. CASE seg[i].at = "permanent"
    <2> DEFINE t == MarkTerminal("failed")
    <2>1. row' = [t EXCEPT !.claimed = FALSE]
      BY <1>4 DEF SettleDispatch
    <2>2. /\ t \in Row /\ t.ticket = row.ticket /\ t.status \in Over
          /\ row.status \in Over => t = row
      BY <1>1, <1>2, TerminalRow
    <2> HIDE DEF t
    <2>3. row' \in Row /\ row'.ticket = row.ticket /\ row'.status = t.status /\ ~row'.claimed
      BY <2>1, <2>2 DEF Row
    <2>4. QED
      BY <1>1, <1>2, <1>4, <2>2, <2>3 DEF RowStep, Over, Terminal
  <1>5. CASE seg[i].at \notin {"admitted", "permanent"}
    <2>1. row' = [row EXCEPT !.claimed = FALSE]
      BY <1>5 DEF SettleDispatch
    <2>2. QED
      BY <1>1, <1>2, <1>5, <2>1, RowFacts DEF RowStep, Row, Over
  <1>6. QED
    BY <1>3, <1>4, <1>5

LEMMA SettleTyped ==
    ASSUME TypeInv, NEW i \in DOMAIN seg, SettleDispatch(i)
    PROVE  TypeInv'
  <1>1. seg' \in [DOMAIN seg -> Segment] /\ UNCHANGED <<server, poll, retake>>
    BY SegFacts DEF SettleDispatch, Segment
  <1>2. QED
    BY <1>1, SettledRow, RowTyped, SegTyped, TypeParts

\* What WriteBack makes of the row: a final state, or the queue again.
LEMMA WrittenRow ==
    ASSUME TypeInv, NEW i \in DOMAIN seg, WriteBack(i)
    PROVE  /\ RowStep
           /\ row.status \in Over => row' = row
           /\ row'.status \in Over \/ (row'.status = "queued" /\ row.status = "running") \/ row' = row
           /\ row' = row => row.status # "running"
           /\ retake' = retake \/ (retake["expiry"] = None /\ retake' = [retake EXCEPT !["expiry"] = Asked])
  <1>1. row.status # "none"
    BY TypeParts DEF Taken
  <1>2. row \in Row /\ row.ticket \in Tickets
    BY <1>1, HasTicket
  <1>3. CASE seg[i].loop # "expired"
    <2>1. PICK s \in Terminal : row' = MarkTerminal(s) /\ retake' = retake
      BY <1>3 DEF WriteBack, Terminal
    <2>2. row'.status \in Over /\ RowStep /\ (row.status \in Over => row' = row)
      BY <1>1, <1>2, <2>1, TerminalRow DEF RowStep, Over, Terminal
    <2>3. QED
      BY <2>1, <2>2 DEF Over, Terminal
  <1>4. CASE seg[i].loop = "expired" /\ row.status = "running"
    <2>1. /\ row' = [row EXCEPT !.status = "queued", !.schedulable = FALSE, !.claimed = FALSE]
          /\ retake["expiry"] = None /\ retake' = [retake EXCEPT !["expiry"] = Asked]
      BY <1>4 DEF WriteBack
    <2>2. row' \in Row /\ row'.status = "queued" /\ row'.ticket = row.ticket
      BY <1>2, <2>1 DEF Row, Status
    <2>3. QED
      BY <1>1, <1>2, <1>4, <2>1, <2>2 DEF RowStep, Over, Terminal
  <1>5. CASE seg[i].loop = "expired" /\ row.status # "running"
    <2>1. UNCHANGED <<row, retake>>
      BY <1>5 DEF WriteBack
    <2>2. QED
      BY <1>1, <1>2, <1>5, <2>1 DEF RowStep
  <1>6. QED
    BY <1>3, <1>4, <1>5

\* The steps of tickets and takes: the row keeps its status, or is another one.
LEMMA TakeTyped ==
    ASSUME TypeInv, RowStep, seg' = seg, server' \in [Tickets -> TicketState],
           poll' \in [Hosts -> {None} \cup Poll], retake' \in [Retakers -> {None} \cup Retaken],
           \A o \in Retakers : retake'[o] # None /\ retake'[o].at = "taken" => retake'[o].ticket \in Tickets
    PROVE  TypeInv'
  <1>1. Taken'
    BY DEF RowStep, Taken
  <1>2. row'.ticket # None
    BY OffPeakAssumption DEF RowStep
  <1>3. QED
    BY <1>1, <1>2, TypeParts DEF RowStep

LEMMA WriteTyped ==
    ASSUME TypeInv, NEW i \in DOMAIN seg, WriteBack(i)
    PROVE  TypeInv'
  <1>1. seg' \in [DOMAIN seg -> Segment] /\ UNCHANGED <<server, poll>> /\ seg # <<>>
    BY SegFacts DEF WriteBack, Segment
  <1>2. seg' \in Seq(Segment) /\ Len(seg') <= Segments
    BY <1>1, SegTyped, TypeParts
  <1>3. Asked \in Retaken /\ Asked.at # "taken" /\ "expiry" \in Retakers
    BY DEF Asked, Retaken, Retakers
  <1>4. /\ retake' \in [Retakers -> {None} \cup Retaken]
        /\ \A o \in Retakers : retake'[o] # None /\ retake'[o].at = "taken" =>
               retake'[o].ticket \in Tickets
    BY <1>3, WrittenRow, TypeParts DEF Taken
  <1>5. RowStep
    BY WrittenRow
  <1>6. Taken'
    BY <1>4, <1>5 DEF RowStep, Taken
  <1>7. QED
    BY <1>1, <1>2, <1>4, <1>5, <1>6, TypeParts, OffPeakAssumption DEF RowStep

\* What the user, the outbox and a restart make of the row.
LEMMA UserTyped ==
    ASSUME TypeInv, Cancel \/ Delete \/ Pause \/ Settle \/ Restart
    PROVE  TypeInv' /\ RowStep
  <1>1. row.status # "none"
    BY DEF Cancel, Delete, Pause, Settle, Restart, Terminal
  <1>2. row \in Row /\ row.ticket \in Tickets
    BY <1>1, HasTicket
  <1>3. CASE Cancel
    <2>1. RowStep
      BY <1>1, <1>2, <1>3, TerminalRow DEF Cancel, RowStep, Terminal, Over
    <2>2. seg' \in [DOMAIN seg -> Segment]
      BY <1>3, SegFacts DEF Cancel, StopLoop, Segment
    <2>3. QED
      BY <1>3, <2>1, <2>2, RowTyped, SegTyped, TypeParts DEF Cancel
  <1>4. CASE Delete \/ Pause
    <2>1. RowStep
      BY <1>1, <1>2, <1>4, RowFacts DEF Delete, Pause, RowStep, Status, Row
    <2>2. QED
      BY <1>4, <2>1, RowTyped, TypeParts DEF Delete, Pause
  <1>5. CASE Settle
    <2>1. RowStep
      BY <1>1, <1>2, <1>5, RowFacts DEF Settle, RowStep, Row
    <2>2. server' \in [Tickets -> TicketState]
      BY <1>5, TypeParts DEF Settle, TicketState
    <2>3. QED
      BY <1>5, <2>1, <2>2, RowTyped, TypeParts DEF Settle
  <1>6. CASE Restart
    <2> DEFINE r == RecoverInterrupted
    <2>1. r \in Row /\ r.ticket = row.ticket /\ r.status # "none"
      BY <1>1, <1>2, RowFacts DEF RecoverInterrupted, Row, Status
    <2>2. PICK b \in BOOLEAN : row' = [r EXCEPT !.claimed = b]
      BY <1>6, <2>1 DEF Restart, Row
    <2> HIDE DEF r
    <2>3. RowStep
      <3>1. row' \in Row
        BY <2>1, <2>2, RowFacts
      <3>2. row'.status = r.status /\ row'.ticket = r.ticket
        BY <2>1, <2>2 DEF Row
      <3>3. QED
        BY <1>1, <1>2, <2>1, <3>1, <3>2 DEF RowStep
    <2>4. seg' \in [DOMAIN seg -> Segment]
      <3>1. \A i \in DOMAIN seg : [seg[i] EXCEPT !.at = "settled", !.loop = "closed"] \in Segment
        BY SegFacts DEF Segment
      <3>2. seg' = [i \in DOMAIN seg |-> [seg[i] EXCEPT !.at = "settled", !.loop = "closed"]]
        BY <1>6 DEF Restart
      <3>3. QED
        BY <3>1, <3>2
    <2>5. server' \in [Tickets -> TicketState] /\ seg' \in Seq(Segment) /\ Len(seg') <= Segments
      BY <1>6, <2>4, SegTyped, TypeParts DEF Restart
    <2>6. /\ \A h \in Hosts : poll'[h] = None
          /\ \A o \in Retakers : retake'[o] = None
          /\ poll' \in [Hosts -> {None} \cup Poll] /\ retake' \in [Retakers -> {None} \cup Retaken]
      BY <1>6 DEF Restart
    <2>7. Taken'
      BY <2>3, <2>6 DEF Taken, RowStep
    <2>8. row'.ticket # None
      BY <2>3, OffPeakAssumption DEF RowStep
    <2>9. QED
      BY <2>3, <2>5, <2>6, <2>7, <2>8, TypeParts DEF RowStep
  <1>7. QED
    BY <1>3, <1>4, <1>5, <1>6

LEMMA CreateTyped ==
    ASSUME TypeInv, NEW t \in Tickets, NEW state \in {"waiting", "ready"}, Create(t, state)
    PROVE  TypeInv'
  <1>1. /\ row.status = "none" /\ seg' = seg /\ poll' = poll /\ retake' = retake
        /\ row' = [row EXCEPT !.status = "queued", !.ticket = t, !.schedulable = (state = "ready")]
    BY DEF Create
  <1>2. row' \in Row /\ row'.status = "queued" /\ row'.ticket = t
    BY <1>1, TypeParts DEF Row, Status
  <1>3. server' \in [Tickets -> TicketState]
    BY TypeParts DEF Create, Take, TicketState, Alive
  <1>4. Taken' /\ t # None
    BY <1>1, <1>2, TypeParts, OffPeakAssumption DEF Taken
  <1>5. QED
    BY <1>1, <1>2, <1>3, <1>4, TypeParts

LEMMA PollTyped ==
    ASSUME TypeInv, NEW h \in Hosts,
           PollBegins(h) \/ PollAnswered(h) \/ PollFails(h) \/ PollApplies(h)
    PROVE  TypeInv' /\ (row.status # "none" => RowStep) /\ row'.status = row.status
                    /\ row'.claimed = row.claimed
  <1>1. row.status # "none"
    BY TypeParts DEF PollBegins, PollAnswered, PollFails, PollApplies, Taken
  <1>2. row \in Row /\ row.ticket \in Tickets /\ seg' = seg /\ server' = server
    BY <1>1, HasTicket DEF PollBegins, PollAnswered, PollFails, PollApplies
  <1>3. poll[h] \in {None} \cup Poll /\ h \in Retakers
    BY TypeParts DEF Retakers
  <1>4. poll' \in [Hosts -> {None} \cup Poll]
    <2>1. CASE PollBegins(h)
      <3>1. [ticket |-> row.ticket, queued |-> row.status = "queued", state |-> None] \in Poll
        BY <1>2 DEF Poll
      <3>2. QED
        BY <2>1, <3>1, TypeParts DEF PollBegins
    <2>2. CASE PollAnswered(h)
      <3>1. [poll[h] EXCEPT !.state = server[poll[h].ticket]] \in Poll
        BY <1>3, <2>2, TypeParts DEF PollAnswered, Poll
      <3>2. QED
        BY <2>2, <3>1, TypeParts DEF PollAnswered
    <2>3. CASE PollFails(h)
      BY <2>3, TypeParts DEF PollFails
    <2>4. CASE PollApplies(h)
      <3>1. [poll[h] EXCEPT !.state = "taking"] \in Poll
        BY <1>3, <2>4 DEF PollApplies, Poll
      <3>2. poll' = [poll EXCEPT ![h] = [poll[h] EXCEPT !.state = "taking"]]
            \/ poll' = [poll EXCEPT ![h] = None]
        BY <2>4 DEF PollApplies
      <3>3. QED
        BY <3>1, <3>2, TypeParts
    <2>5. QED
      BY <2>1, <2>2, <2>3, <2>4
  <1>5. retake' = retake \/ retake' = [retake EXCEPT ![h] = Asked]
    BY DEF PollBegins, PollAnswered, PollFails, PollApplies
  <1>6. Asked \in Retaken /\ Asked.at # "taken"
    BY DEF Asked, Retaken
  <1>7. /\ retake' \in [Retakers -> {None} \cup Retaken]
        /\ \A o \in Retakers : retake'[o] # None /\ retake'[o].at = "taken" =>
               retake'[o].ticket \in Tickets
    BY <1>3, <1>5, <1>6, TypeParts DEF Taken
  <1>8. row' = row \/ \E b \in BOOLEAN : row' = Snapshot(row.ticket, b)
    BY DEF PollBegins, PollAnswered, PollFails, PollApplies
  <1>9. RowStep /\ row'.status = row.status /\ row'.claimed = row.claimed
    BY <1>1, <1>2, <1>8, SnapshotRow DEF RowStep
  <1>10. QED
    BY <1>2, <1>4, <1>7, <1>9, TakeTyped, TypeParts

LEMMA RetakeTyped ==
    ASSUME TypeInv, NEW o \in Retakers,
           \/ \E t \in Tickets : \E state \in {"waiting", "ready"} : RetakeTakes(o, t, state)
           \/ RetakeWrites(o) \/ RetakeFails(o)
    PROVE  TypeInv' /\ row'.status = row.status /\ row'.claimed = row.claimed /\ seg' = seg
  <1>1. retake[o] # None
    BY NoneIsNoTake DEF RetakeTakes, RetakeWrites, RetakeFails
  <1>2. row.status # "none"
    BY <1>1, TypeParts DEF Taken
  <1>3. row \in Row /\ row.ticket \in Tickets /\ seg' = seg /\ retake[o] \in Retaken
    BY <1>1, <1>2, HasTicket, TypeParts DEF RetakeTakes, RetakeWrites, RetakeFails
  <1>4. poll' \in [Hosts -> {None} \cup Poll]
    BY TypeParts DEF RetakeTakes, RetakeWrites, RetakeFails, Done
  <1>5. CASE \E t \in Tickets : \E state \in {"waiting", "ready"} : RetakeTakes(o, t, state)
    <2>1. PICK t \in Tickets, state \in {"waiting", "ready"} : RetakeTakes(o, t, state)
      BY <1>5
    <2> DEFINE n == [at |-> "taken", ticket |-> t, ready |-> state = "ready"]
    <2>2. n \in Retaken /\ n.ticket \in Tickets
      BY DEF Retaken
    <2>3. retake' = [retake EXCEPT ![o] = n] /\ row' = row
      BY <2>1 DEF RetakeTakes
    <2> HIDE DEF n
    <2>4. /\ retake' \in [Retakers -> {None} \cup Retaken]
          /\ \A p \in Retakers : retake'[p] # None /\ retake'[p].at = "taken" =>
                 retake'[p].ticket \in Tickets
      BY <2>2, <2>3, TypeParts DEF Taken
    <2>5. server' \in [Tickets -> TicketState]
      BY <2>1, TypeParts DEF RetakeTakes, Take, TicketState, Alive
    <2>6. QED
      BY <1>2, <1>3, <1>4, <2>3, <2>4, <2>5, TakeTyped DEF RowStep
  <1>6. CASE RetakeWrites(o) \/ RetakeFails(o)
    <2>1. retake' = [retake EXCEPT ![o] = None] /\ server' = server
      BY <1>6 DEF RetakeWrites, RetakeFails
    <2>2. /\ retake' \in [Retakers -> {None} \cup Retaken]
          /\ \A p \in Retakers : retake'[p] # None /\ retake'[p].at = "taken" =>
                 retake'[p].ticket \in Tickets
      BY <2>1, TypeParts DEF Taken
    <2>3. row' = row \/ \E t \in Tickets : \E b \in BOOLEAN : row' = Snapshot(t, b)
      <3>1. CASE RetakeWrites(o)
        <4>1. retake[o].ready \in BOOLEAN /\ (retake[o].at = "taken" => retake[o].ticket \in Tickets)
          BY <1>1, <1>3, TypeParts DEF Retaken, Taken
        <4>2. QED
          BY <1>3, <3>1, <4>1 DEF RetakeWrites
      <3>2. CASE RetakeFails(o)
        BY <3>2 DEF RetakeFails
      <3>3. QED
        BY <1>6, <3>1, <3>2
    <2>4. RowStep /\ row'.status = row.status /\ row'.claimed = row.claimed
      BY <1>2, <1>3, <2>3, SnapshotRow DEF RowStep
    <2>5. QED
      BY <1>3, <1>4, <2>1, <2>2, <2>4, TakeTyped, TypeParts
  <1>7. QED
    BY <1>5, <1>6

LEMMA OtherTyped ==
    ASSUME TypeInv, \/ \E t \in Tickets : BecomeReady(t) \/ Expire(t) \/ Forgotten(t)
                    \/ Continue \/ Look \/ LookFails
    PROVE  TypeInv' /\ seg' = seg
  <1>1. CASE \E t \in Tickets : BecomeReady(t) \/ Expire(t) \/ Forgotten(t)
    <2>1. UNCHANGED <<row, seg, poll, retake>> /\ server' \in [Tickets -> TicketState]
      BY <1>1, TypeParts DEF BecomeReady, Expire, Forgotten, TicketState, Alive
    <2>2. QED
      BY <2>1, TypeParts DEF Taken
  <1>2. CASE Continue \/ Look \/ LookFails
    <2>1. row.status # "none" /\ "user" \in Retakers
      BY <1>2, TypeParts DEF Continue, Look, LookFails, Taken, Retakers
    <2>2. row \in Row /\ row.ticket \in Tickets /\ UNCHANGED <<seg, server, poll>>
      BY <1>2, <2>1, HasTicket DEF Continue, Look, LookFails
    <2>3. RowStep
      BY <1>2, <2>1, <2>2, RowFacts DEF Continue, Look, LookFails, RowStep, Status, Row
    <2>4. PICK n \in {None} \cup Retaken :
              /\ retake' = [retake EXCEPT !["user"] = n]
              /\ n # None => n.at # "taken"
      <3>1. CASE Continue
        <4> DEFINE c == [at |-> "looking", ticket |-> row.ticket, ready |-> FALSE]
        <4>1. c \in Retaken /\ c.at # "taken"
          BY <2>2 DEF Retaken
        <4>2. retake' = [retake EXCEPT !["user"] = c]
          BY <3>1 DEF Continue
        <4> HIDE DEF c
        <4>3. QED
          BY <4>1, <4>2
      <3>2. CASE Look
        <4> DEFINE u == retake["user"]
        <4>1. u \in Retaken
          BY <2>1, <3>2, TypeParts DEF Look
        <4>2. \A b \in BOOLEAN : /\ [u EXCEPT !.at = "looked", !.ready = b] \in Retaken
                                 /\ [u EXCEPT !.at = "looked", !.ready = b].at # "taken"
          BY <4>1 DEF Retaken
        <4>3. Asked \in Retaken /\ Asked.at # "taken"
          BY DEF Asked, Retaken
        <4>4. \/ retake' = [retake EXCEPT !["user"] = Asked]
              \/ \E b \in BOOLEAN :
                     retake' = [retake EXCEPT !["user"] = [u EXCEPT !.at = "looked", !.ready = b]]
          BY <3>2 DEF Look
        <4> HIDE DEF u
        <4>5. QED
          BY <4>2, <4>3, <4>4
      <3>3. CASE LookFails
        BY <3>3 DEF LookFails
      <3>4. QED
        BY <1>2, <3>1, <3>2, <3>3
    <2>5. /\ retake' \in [Retakers -> {None} \cup Retaken]
          /\ \A p \in Retakers : retake'[p] # None /\ retake'[p].at = "taken" =>
                 retake'[p].ticket \in Tickets
      <3>1. /\ retake \in [Retakers -> {None} \cup Retaken]
            /\ \A p \in Retakers : retake[p] # None /\ retake[p].at = "taken" =>
                   retake[p].ticket \in Tickets
        BY TypeParts DEF Taken
      <3>2. /\ retake' \in [Retakers -> {None} \cup Retaken] /\ retake'["user"] = n
            /\ \A p \in Retakers \ {"user"} : retake'[p] = retake[p]
        BY <2>1, <2>4, <3>1
      <3>3. ASSUME NEW p \in Retakers, retake'[p] # None, retake'[p].at = "taken"
            PROVE  retake'[p].ticket \in Tickets
        <4>1. p # "user"
          BY <2>4, <3>2, <3>3
        <4>2. retake'[p] = retake[p]
          BY <3>2, <4>1
        <4>3. QED
          BY <3>1, <3>3, <4>2
      <3>4. QED
        BY <3>2, <3>3
    <2>6. QED
      BY <2>2, <2>3, <2>5, TakeTyped, TypeParts
  <1>3. QED
    BY <1>1, <1>2

LEMMA TypeStep == TypeInv /\ [Next]_vars => TypeInv'
  <1> SUFFICES ASSUME TypeInv, [Next]_vars PROVE TypeInv'
    OBVIOUS
  <1>1. CASE UNCHANGED vars
    BY <1>1 DEF vars, TypeInv, TypeOK, Taken
  <1>2. CASE Next
    BY <1>2, ClaimTyped, DispatchTyped, SettleTyped, WriteTyped, UserTyped, CreateTyped, PollTyped,
       RetakeTyped, OtherTyped DEF Next, Progress, Sync, Retake, Retakers
  <1>3. QED
    BY <1>1, <1>2

LEMMA Types == Spec => []TypeInv
  BY TypeInit, TypeStep, PTL DEF Spec

\* The row, the dispatches, the tickets and the calls under way keep their types;
\* a task that is there has a ticket.
THEOREM TypeCorrect == Spec => []TypeOK
  BY Types, PTL DEF TypeInv

-----------------------------------------------------------------------------
(* Final states. *)

LEMMA FinalStep ==
    ASSUME TypeInv, [Next]_vars, row.status \in Terminal
    PROVE  row'.status \in {row.status, "deleted"}
  <1>1. row \in Row /\ row.status # "none" /\ row.status \in Over
    BY HasTicket DEF Terminal, Over
  <1>2. CASE ClaimDue
    BY <1>1, <1>2 DEF ClaimDue, Row
  <1>3. CASE \E i \in DOMAIN seg : SettleDispatch(i) \/ WriteBack(i)
    BY <1>1, <1>3, SettledRow, WrittenRow
  <1>4. CASE \E i \in DOMAIN seg :
                \/ Admit(i) \/ \E kind \in {"transient", "permanent"} : Refuse(i, kind)
                \/ \E outcome \in {"succeeded", "failed", "stopped", "expired"} : LoopEnds(i, outcome)
    BY <1>4 DEF Admit, Refuse, LoopEnds
  <1>5. CASE \E o \in Retakers : \/ \E t \in Tickets : \E state \in {"waiting", "ready"} : RetakeTakes(o, t, state)
                                 \/ RetakeWrites(o) \/ RetakeFails(o)
    BY <1>5, RetakeTyped
  <1>6. CASE \E h \in Hosts : PollBegins(h) \/ PollAnswered(h) \/ PollFails(h) \/ PollApplies(h)
    BY <1>6, PollTyped
  <1>7. CASE Cancel \/ Pause \/ Continue \/ \E t \in Tickets : \E state \in {"waiting", "ready"} : Create(t, state)
    BY <1>7 DEF Cancel, Pause, Continue, Create, Terminal
  <1>8. CASE Delete \/ Settle
    BY <1>1, <1>8 DEF Delete, Settle, Row, Status
  <1>9. CASE Restart
    <2>1. RecoverInterrupted = row
      BY DEF RecoverInterrupted, Terminal
    <2>2. \E b \in BOOLEAN : row' = [row EXCEPT !.claimed = b]
      BY <1>1, <1>9, <2>1 DEF Restart, Row
    <2>3. QED
      BY <1>1, <2>2 DEF Row
  <1>10. CASE \/ \E t \in Tickets : BecomeReady(t) \/ Expire(t) \/ Forgotten(t)
              \/ Look \/ LookFails \/ UNCHANGED vars
    BY <1>10 DEF BecomeReady, Expire, Forgotten, Look, LookFails, vars
  <1>11. QED
    BY <1>2, <1>3, <1>4, <1>5, <1>6, <1>7, <1>8, <1>9, <1>10 DEF Next, Progress, Sync, Retake, Retakers

\* A final state is never left but for the deletion of the task, whatever result,
\* outcome, poll or restart comes late.
THEOREM FinalStatesStay == Spec => TerminalStays
  <1>1. TypeInv /\ [Next]_vars => [row.status \in Terminal => row'.status \in {row.status, "deleted"}]_vars
    BY FinalStep
  <1>2. QED
    BY <1>1, Types, PTL DEF Spec, TerminalStays

-----------------------------------------------------------------------------
(* Running tasks run, while no outcome is written back before the result of its *)
(* dispatch is settled. *)

Begun(i) == seg[i].loop \notin {"none", "closed"}

\* What was admitted and is not settled has its loop, or the outcome of it.
RealInv ==
    /\ TypeInv
    /\ \A i \in DOMAIN seg : seg[i].at = "admitted" => Begun(i)
    /\ RunningIsReal

LEMMA RealStep ==
    ASSUME "overtake" \notin Faults, RealInv, [Next]_vars
    PROVE  RealInv'
  <1> USE DEF Begun
  <1>1. TypeInv /\ TypeInv'
    BY TypeStep DEF RealInv
  <1>2. row \in Row /\ row' \in Row
    BY <1>1, TypeParts
  <1>3. CASE ClaimDue
    <2>1. row'.status = row.status
      BY <1>2, <1>3 DEF ClaimDue, Row
    <2>2. CASE seg' = seg
      BY <1>1, <2>1, <2>2 DEF RealInv, RunningIsReal
    <2>3. CASE seg' # seg
      <3> DEFINE d == [at |-> "asked", ticket |-> row.ticket, conversation |-> row.conversation,
                       loop |-> "none"]
      <3>1. seg' = Append(seg, d) /\ d.at = "asked"
        BY <1>3, <2>3 DEF ClaimDue
      <3> HIDE DEF d
      <3>2. /\ DOMAIN seg' = DOMAIN seg \cup {Len(seg) + 1} /\ Len(seg) + 1 \notin DOMAIN seg
            /\ \A i \in DOMAIN seg : seg'[i] = seg[i]
            /\ seg'[Len(seg) + 1] = d
        BY <1>1, <3>1, TypeParts
      <3>3. QED
        BY <1>1, <2>1, <3>1, <3>2 DEF RealInv, RunningIsReal
    <2>4. QED
      BY <2>2, <2>3
  <1>4. CASE \E i \in DOMAIN seg :
                \/ Admit(i) \/ (\E kind \in {"transient", "permanent"} : Refuse(i, kind))
                \/ (\E outcome \in {"succeeded", "failed", "stopped", "expired"} : LoopEnds(i, outcome))
    <2>1. /\ row' = row /\ DOMAIN seg' = DOMAIN seg
          /\ \A i \in DOMAIN seg : seg[i].loop \notin {"none", "closed"} => seg'[i].loop \notin {"none", "closed"}
          /\ \A i \in DOMAIN seg : seg'[i].at = "admitted" /\ seg[i].at # "admitted" => seg'[i].loop = "running"
      <3>1. PICK i \in DOMAIN seg :
                \/ Admit(i) \/ (\E kind \in {"transient", "permanent"} : Refuse(i, kind))
                \/ (\E outcome \in {"succeeded", "failed", "stopped", "expired"} : LoopEnds(i, outcome))
        BY <1>4
      <3>2. CASE Admit(i)
        BY <1>1, <3>2, SegFacts DEF Admit, Segment
      <3>3. CASE \E kind \in {"transient", "permanent"} : Refuse(i, kind)
        BY <1>1, <3>3, SegFacts DEF Refuse, Segment
      <3>4. CASE \E outcome \in {"succeeded", "failed", "stopped", "expired"} : LoopEnds(i, outcome)
        BY <1>1, <3>4, SegFacts DEF LoopEnds, Segment
      <3>5. QED
        BY <3>1, <3>2, <3>3, <3>4
    <2>2. QED
      BY <1>1, <2>1 DEF RealInv, RunningIsReal
  <1>5. CASE \E i \in DOMAIN seg : SettleDispatch(i)
    <2>1. PICK i \in DOMAIN seg : SettleDispatch(i)
      BY <1>5
    <2>2. /\ DOMAIN seg' = DOMAIN seg
          /\ \A j \in DOMAIN seg : seg'[j].at = "admitted" => seg[j].at = "admitted"
          /\ \A j \in DOMAIN seg : seg[j].loop # "none" => seg'[j].loop = seg[j].loop
      BY <1>1, <2>1, SegFacts DEF SettleDispatch, Segment
    <2>3. row'.status = "running" => row.status = "running" \/ seg[i].at = "admitted"
      BY <1>1, <2>1, SettledRow
    <2>4. QED
      BY <1>1, <2>2, <2>3 DEF RealInv, RunningIsReal
  <1>6. CASE \E i \in DOMAIN seg : WriteBack(i)
    <2>1. PICK i \in DOMAIN seg : WriteBack(i)
      BY <1>6
    <2>2. row'.status # "running"
      BY <1>1, <2>1, WrittenRow DEF Over, Terminal
    <2>3. seg[i].at = "settled" /\ seg' = [seg EXCEPT ![i].loop = "closed"]
      BY <2>1 DEF WriteBack, Underway
    <2>4. \A j \in DOMAIN seg' : seg'[j].at = "admitted" => j \in DOMAIN seg /\ seg'[j] = seg[j]
      BY <1>1, <2>3, SegFacts DEF Segment
    <2>5. QED
      BY <1>1, <2>2, <2>4 DEF RealInv, RunningIsReal
  <1>7. CASE Cancel
    <2>1. row'.status # "running"
      BY <1>1, <1>7, TerminalRow DEF Cancel, Over, Terminal
    <2>2. DOMAIN seg' = DOMAIN seg /\ \A j \in DOMAIN seg : seg'[j] = seg[j] \/ seg'[j].loop = "stopped"
      BY <1>1, <1>7, SegFacts DEF Cancel, StopLoop, Segment
    <2>3. \A j \in DOMAIN seg : seg'[j].at = seg[j].at
      BY <1>1, <1>7, SegFacts DEF Cancel, StopLoop, Segment
    <2>4. QED
      BY <1>1, <2>1, <2>2, <2>3 DEF RealInv, RunningIsReal
  <1>8. CASE Restart
    <2>1. RecoverInterrupted \in Row /\ RecoverInterrupted.status # "running"
      BY <1>2, RowFacts DEF RecoverInterrupted, Row, Status
    <2>2. \E b \in BOOLEAN : row' = [RecoverInterrupted EXCEPT !.claimed = b]
      BY <1>8, <2>1 DEF Restart, Row
    <2>3. row'.status # "running"
      BY <2>1, <2>2 DEF Row
    <2>4. DOMAIN seg' = DOMAIN seg /\ \A j \in DOMAIN seg : seg'[j].at = "settled"
      BY <1>1, <1>8, SegFacts DEF Restart, Segment
    <2>5. QED
      BY <1>1, <2>3, <2>4 DEF RealInv, RunningIsReal
  <1>9. CASE seg' = seg /\ (row'.status = "running" => row.status = "running")
    BY <1>1, <1>9 DEF RealInv, RunningIsReal
  <1>10. CASE \/ \E o \in Retakers : \/ \E t \in Tickets : \E state \in {"waiting", "ready"} : RetakeTakes(o, t, state)
                                     \/ RetakeWrites(o) \/ RetakeFails(o)
              \/ \E h \in Hosts : PollBegins(h) \/ PollAnswered(h) \/ PollFails(h) \/ PollApplies(h)
    <2>1. row'.status = row.status
      BY <1>1, <1>10, RetakeTyped, PollTyped
    <2>2. seg' = seg
      BY <1>10 DEF RetakeTakes, RetakeWrites, RetakeFails, PollBegins, PollAnswered, PollFails, PollApplies
    <2>3. QED
      BY <1>9, <2>1, <2>2
  <1>11. CASE \/ \E t \in Tickets : BecomeReady(t) \/ Expire(t) \/ Forgotten(t)
              \/ Look \/ LookFails \/ UNCHANGED vars
    BY <1>9, <1>11 DEF BecomeReady, Expire, Forgotten, Look, LookFails, vars
  <1>12. CASE \/ Delete \/ Pause \/ Continue \/ Settle
              \/ \E t \in Tickets : \E state \in {"waiting", "ready"} : Create(t, state)
    BY <1>2, <1>9, <1>12 DEF Delete, Pause, Continue, Settle, Create, Row
  <1>13. QED
    BY <1>3, <1>4, <1>5, <1>6, <1>7, <1>8, <1>10, <1>11, <1>12 DEF Next, Progress, Sync, Retake, Retakers

\* A task that is shown as running has a loop or an outcome about to be written,
\* as long as the result of a dispatch is settled before the outcome of its run is
\* written back; where it may not be, a run refutes it.
THEOREM RunningTasksRun ==
    ASSUME "overtake" \notin Faults
    PROVE  Spec => []RunningIsReal
  <1>1. Init => RealInv
    BY TypeInit DEF Init, RealInv, RunningIsReal
  <1>2. RealInv /\ [Next]_vars => RealInv'
    BY RealStep
  <1>3. RealInv => RunningIsReal
    BY DEF RealInv
  <1>4. QED
    BY <1>1, <1>2, <1>3, PTL DEF Spec

-----------------------------------------------------------------------------
(* One loop, while no dispatch outlasts its claim. *)

\* At most one dispatch is under way or has a loop; one that is under way holds
\* the claim of a queued task, and one that is settled has a running task, unless
\* the task has ended meanwhile.
Single == \A i, j \in DOMAIN seg : Busy(i) /\ Busy(j) => i = j
Held ==
    \A i \in DOMAIN seg : Busy(i) /\ row.status \notin Over =>
        IF Underway(i) THEN row.status = "queued" /\ row.claimed ELSE row.status = "running"
Unstarted == \A i \in DOMAIN seg : seg[i].at \in {"asked", "transient", "permanent"} => seg[i].loop = "none"

LoopInv == TypeInv /\ Single /\ Held /\ Unstarted

\* A step after which nothing is busy that was not, and the row is as it was.
LEMMA Calm ==
    ASSUME LoopInv, TypeInv', DOMAIN seg' = DOMAIN seg,
           \A i \in DOMAIN seg : /\ Busy(i)' => Busy(i)
                                 /\ seg'[i].at \in {"asked", "transient", "permanent"} => seg'[i].loop = "none",
           \/ row'.status \in Over
           \/ /\ row'.status = row.status /\ (row.claimed => row'.claimed)
              /\ \A i \in DOMAIN seg : Busy(i)' => (Underway(i)' <=> Underway(i))
           \/ \A i \in DOMAIN seg : ~Busy(i)'
    PROVE  LoopInv'
  BY DEF LoopInv, Single, Held, Unstarted

LEMMA LoopStep ==
    ASSUME "slow" \notin Faults, LoopInv, [Next]_vars
    PROVE  LoopInv'
  <1> USE DEF Busy, Underway
  <1>1. TypeInv /\ TypeInv'
    BY TypeStep DEF LoopInv
  <1>2. row \in Row /\ row' \in Row
    BY <1>1, TypeParts
  <1>3. CASE ClaimDue
    <2>1. /\ row.claimed => \A i \in DOMAIN seg : seg[i].at = "settled"
          /\ row'.status = row.status
      BY <1>2, <1>3 DEF ClaimDue, Row, Stale
    <2>2. CASE seg' = seg
      <3>1. row' = [row EXCEPT !.claimed = FALSE] \/ row'.claimed
        BY <1>2, <1>3 DEF ClaimDue, Row
      <3>2. \A i \in DOMAIN seg : Busy(i) /\ row.status \notin Over => row.status = "running" \/ ~row.claimed
        BY <2>1 DEF LoopInv, Held
      <3>3. QED
        BY <1>1, <2>1, <2>2, <3>1, <3>2 DEF LoopInv, Single, Held, Unstarted, Over, Terminal
    <2>3. CASE seg' # seg
      <3> DEFINE d == [at |-> "asked", ticket |-> row.ticket, conversation |-> row.conversation,
                       loop |-> "none"]
      <3>1. /\ seg' = Append(seg, d) /\ d.at = "asked" /\ d.loop = "none"
            /\ row.status = "queued" /\ row'.claimed
        BY <1>2, <1>3, <2>3 DEF ClaimDue, Row
      <3> HIDE DEF d
      <3>2. /\ DOMAIN seg' = DOMAIN seg \cup {Len(seg) + 1} /\ Len(seg) + 1 \notin DOMAIN seg
            /\ \A i \in DOMAIN seg : seg'[i] = seg[i]
            /\ seg'[Len(seg) + 1] = d
        BY <1>1, <3>1, TypeParts
      <3>3. \A i \in DOMAIN seg : ~Busy(i)
        BY <2>1, <3>1 DEF LoopInv, Held, Over, Terminal
      <3>4. \A i \in DOMAIN seg' : Busy(i)' => i = Len(seg) + 1
        BY <3>2, <3>3
      <3>5. QED
        BY <1>1, <2>1, <3>1, <3>2, <3>4 DEF LoopInv, Single, Held, Unstarted
    <2>4. QED
      BY <2>2, <2>3
  <1>4. CASE \E i \in DOMAIN seg : Admit(i)
    <2>1. PICK i \in DOMAIN seg : Admit(i)
      BY <1>4
    <2>2. /\ DOMAIN seg' = DOMAIN seg /\ row' = row /\ seg[i].at = "asked" /\ seg'[i].at = "admitted"
          /\ \A j \in DOMAIN seg \ {i} : seg'[j] = seg[j]
      BY <1>1, <2>1, SegFacts DEF Admit, Segment
    <2>3. QED
      BY <1>1, <2>2, Calm DEF LoopInv, Unstarted
  <1>5. CASE \E i \in DOMAIN seg : \E kind \in {"transient", "permanent"} : Refuse(i, kind)
    <2>1. PICK i \in DOMAIN seg, kind \in {"transient", "permanent"} : Refuse(i, kind)
      BY <1>5
    <2>2. /\ DOMAIN seg' = DOMAIN seg /\ row' = row /\ seg[i].at = "asked" /\ seg'[i].at = kind
          /\ seg'[i].loop = seg[i].loop
          /\ \A j \in DOMAIN seg \ {i} : seg'[j] = seg[j]
      BY <1>1, <2>1, SegFacts DEF Refuse, Segment
    <2>3. QED
      BY <1>1, <2>2, Calm DEF LoopInv, Unstarted
  <1>6. CASE \E i \in DOMAIN seg :
                \E outcome \in {"succeeded", "failed", "stopped", "expired"} : LoopEnds(i, outcome)
    <2>1. PICK i \in DOMAIN seg, outcome \in {"succeeded", "failed", "stopped", "expired"} :
              LoopEnds(i, outcome)
      BY <1>6
    <2>2. /\ DOMAIN seg' = DOMAIN seg /\ row' = row /\ seg[i].loop = "running"
          /\ seg'[i].loop = outcome /\ seg'[i].at = seg[i].at
          /\ \A j \in DOMAIN seg \ {i} : seg'[j] = seg[j]
      BY <1>1, <2>1, SegFacts DEF LoopEnds, Segment
    <2>3. QED
      BY <1>1, <2>2, Calm DEF LoopInv, Unstarted
  <1>7. CASE \E i \in DOMAIN seg : SettleDispatch(i)
    <2>1. PICK i \in DOMAIN seg : SettleDispatch(i)
      BY <1>7
    <2>2. /\ DOMAIN seg' = DOMAIN seg /\ Busy(i)
          /\ seg'[i].at = "settled" /\ seg'[i].loop = (IF seg[i].loop = "none" THEN "closed" ELSE seg[i].loop)
          /\ \A j \in DOMAIN seg \ {i} : seg'[j] = seg[j]
      BY <1>1, <2>1, SegFacts DEF SettleDispatch, Segment
    <2>3. \A j \in DOMAIN seg : Busy(j)' => j = i /\ seg[i].at = "admitted"
      BY <2>1, <2>2 DEF LoopInv, Single, Unstarted, SettleDispatch
    <2>4. CASE row.status \in Over
      BY <1>1, <2>1, <2>2, <2>3, <2>4, SettledRow, Calm DEF LoopInv, Unstarted
    <2>5. CASE row.status \notin Over
      <3>1. row.status = "queued"
        BY <2>1, <2>2, <2>5 DEF LoopInv, Held, SettleDispatch
      <3>2. seg[i].at = "admitted" => row'.status = "running"
        BY <1>1, <2>1, <3>1, SettledRow
      <3>3. QED
        BY <1>1, <2>2, <2>3, <3>2 DEF LoopInv, Single, Held, Unstarted
    <2>6. QED
      BY <2>4, <2>5
  <1>8. CASE \E i \in DOMAIN seg : WriteBack(i)
    <2>1. PICK i \in DOMAIN seg : WriteBack(i)
      BY <1>8
    <2>2. /\ DOMAIN seg' = DOMAIN seg /\ Busy(i) /\ seg'[i].at = seg[i].at /\ seg'[i].loop = "closed"
          /\ seg[i].loop # "none"
          /\ \A j \in DOMAIN seg \ {i} : seg'[j] = seg[j]
      BY <1>1, <2>1, SegFacts DEF WriteBack, Segment
    <2>3. CASE row'.status \in Over
      BY <1>1, <2>2, <2>3, Calm DEF LoopInv, Unstarted
    <2>4. CASE row' = row
      BY <1>1, <2>2, <2>4, Calm DEF LoopInv, Unstarted
    <2>5. CASE row.status = "running" /\ row'.status = "queued"
      <3>1. ~Underway(i)
        BY <2>2, <2>5 DEF LoopInv, Held, Over, Terminal
      <3>2. \A j \in DOMAIN seg : ~Busy(j)'
        BY <2>2, <3>1 DEF LoopInv, Single
      <3>3. QED
        BY <1>1, <2>2, <3>2, Calm DEF LoopInv, Unstarted
    <2>6. QED
      BY <1>1, <2>1, <2>3, <2>4, <2>5, WrittenRow
  <1>9. CASE Cancel
    <2>1. row'.status \in Over
      BY <1>1, <1>9, TerminalRow DEF Cancel, Terminal
    <2>2. DOMAIN seg' = DOMAIN seg /\ \A j \in DOMAIN seg : 
              seg'[j] = seg[j] \/ (seg[j].loop = "running" /\ seg'[j].loop = "stopped" /\ seg'[j].at = seg[j].at)
      BY <1>1, <1>9, SegFacts DEF Cancel, StopLoop, Segment
    <2>3. QED
      BY <1>1, <2>1, <2>2, Calm DEF LoopInv, Unstarted
  <1>10. CASE Restart
    <2>1. DOMAIN seg' = DOMAIN seg /\ \A j \in DOMAIN seg : seg'[j].at = "settled" /\ seg'[j].loop = "closed"
      BY <1>1, <1>10, SegFacts DEF Restart, Segment
    <2>2. QED
      BY <1>1, <2>1, Calm
  <1>11. CASE seg' = seg /\ row'.status = row.status /\ row'.claimed = row.claimed
    BY <1>1, <1>11, Calm DEF LoopInv, Unstarted
  <1>12. CASE \/ \E o \in Retakers : \/ \E t \in Tickets : \E state \in {"waiting", "ready"} : RetakeTakes(o, t, state)
                                     \/ RetakeWrites(o) \/ RetakeFails(o)
              \/ \E h \in Hosts : PollBegins(h) \/ PollAnswered(h) \/ PollFails(h) \/ PollApplies(h)
    <2>1. row'.status = row.status /\ row'.claimed = row.claimed
      BY <1>1, <1>12, RetakeTyped, PollTyped
    <2>2. seg' = seg
      BY <1>12 DEF RetakeTakes, RetakeWrites, RetakeFails, PollBegins, PollAnswered, PollFails, PollApplies
    <2>3. QED
      BY <1>11, <2>1, <2>2
  <1>13. CASE \/ \E t \in Tickets : BecomeReady(t) \/ Expire(t) \/ Forgotten(t)
              \/ Look \/ LookFails \/ Settle \/ UNCHANGED vars
    <2>1. seg' = seg /\ row'.status = row.status /\ row'.claimed = row.claimed
      BY <1>2, <1>13 DEF BecomeReady, Expire, Forgotten, Look, LookFails, Settle, vars, Row
    <2>2. QED
      BY <1>11, <2>1
  <1>14. CASE Delete
    <2>1. seg' = seg /\ row'.status \in Over
      BY <1>2, <1>14 DEF Delete, Over, Row
    <2>2. QED
      BY <1>1, <2>1, Calm DEF LoopInv, Unstarted
  <1>15. CASE Pause \/ Continue
    <2>1. seg' = seg /\ row.status \in {"queued", "paused"} /\ ~row.claimed
      BY <1>15 DEF Pause, Continue
    <2>2. \A i \in DOMAIN seg : ~Busy(i)'
      BY <2>1 DEF LoopInv, Held, Over, Terminal
    <2>3. QED
      BY <1>1, <2>1, <2>2, Calm DEF LoopInv, Unstarted
  <1>16. CASE \E t \in Tickets : \E state \in {"waiting", "ready"} : Create(t, state)
    <2>1. seg = <<>> /\ seg' = seg
      BY <1>1, <1>16, TypeParts DEF Create, Taken
    <2>2. QED
      BY <1>1, <2>1, Calm
  <1>17. QED
    BY <1>3, <1>4, <1>5, <1>6, <1>7, <1>8, <1>9, <1>10, <1>12, <1>13, <1>14, <1>15, <1>16
       DEF Next, Progress, Sync, Retake, Retakers

\* A task has at most one loop, however its dispatches, outcomes, cancellations and
\* restarts come, as long as no dispatch lasts longer than a claim; where one does, a
\* second loop starts.
THEOREM OnlyOneLoop ==
    ASSUME "slow" \notin Faults
    PROVE  Spec => []OneLoop
  <1>1. Init => LoopInv
    BY TypeInit DEF Init, LoopInv, Single, Held, Unstarted
  <1>2. LoopInv /\ [Next]_vars => LoopInv'
    BY LoopStep
  <1>3. LoopInv => OneLoop
    BY DEF LoopInv, Single, OneLoop, Running, Busy
  <1>4. QED
    BY <1>1, <1>2, <1>3, PTL DEF Spec
=============================================================================
