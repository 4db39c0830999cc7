------------------------------- MODULE Harness -------------------------------
(***************************************************************************)
(* The harness of a workflow run (dynamic-workflow-runtime/src/harness.ts, *)
(* its sandbox side child-source.ts): the sandbox process runs the script  *)
(* and talks to the engine over two FIFO pipes of lines, and the script, a *)
(* broken line, the exit of the process, the wall-clock timer, an abort    *)
(* and the engine itself may all end the run.  The engine's first verdict  *)
(* stands; the bridge hears of it a microtask later, kills the process and *)
(* returns the verdict.                                                    *)
(***************************************************************************)
EXTENDS Naturals, Sequences

CONSTANTS
    Handles,    \* the subagents the script may create
    Refused,    \* the handles whose name or persona the engine refuses
    Requests,   \* the answered calls the script may make, each once
    HandleOf,   \* the handle an ask names, None for a read or a publication
    Reasons,    \* why the run service aborts
    None

ASSUME HarnessAssumption ==
    /\ Refused \subseteq Handles
    /\ HandleOf \in [Requests -> Handles \cup {None}]
    /\ None \notin Handles \cup Reasons
    /\ "running" \notin Reasons

VARIABLES
    status,     \* the engine's verdict, "running" until there is one
    returned,   \* what runWorkflowScript resolved with, None before
    signal,     \* the reason the run service's signal was aborted with
    attached,   \* the bridge listens to the pipes, the process and the signal
    process,    \* the sandbox process
    actorMap,   \* the handles the bridge knows
    made,       \* the handles the script has
    script,     \* what became of the script
    asked,      \* the requests the script has made
    pending,    \* __pending: those it still waits for
    out,        \* child.stdout: the lines on their way to the bridge
    atEngine,   \* the requests the engine has yet to answer
    inp         \* child.stdin: the requests whose responses are on their way

vars == <<status, returned, signal, attached, process, actorMap, made, script, asked,
          pending, out, atEngine, inp>>

engine == <<status, atEngine, actorMap>>
bridge == <<returned, attached>>
sandbox == <<made, script, asked, pending>>

Verdicts == {"completed", "errored", "interrupted", "provider"} \cup Reasons

Created == [kind : {"create-actor"}, handle : Handles]
Asked == [kind : {"request"}, id : Requests]
Completed == [kind : {"complete"}, ok : BOOLEAN]
Broken == [kind |-> "broken"]
Line == Created \cup Asked \cup Completed \cup {Broken}

\* absent: spawn threw; failing: spawn will emit "error"; exited: the event loop
\* ran dry; dead: crashed or killed; closed: the bridge could hear it close.
Processes == {"none", "absent", "failing", "alive", "killed", "exited", "dead", "closed"}

TypeOK ==
    /\ status \in {"running"} \cup Verdicts
    /\ returned \in Verdicts \cup {None}
    /\ signal \in Reasons \cup {None}
    /\ attached \in BOOLEAN
    /\ process \in Processes
    /\ actorMap \subseteq Handles /\ made \subseteq Handles
    /\ script \in {"running", "returned", "threw"}
    /\ asked \subseteq Requests /\ pending \subseteq Requests /\ atEngine \subseteq Requests
    /\ out \in Seq(Line) /\ inp \in Seq(Requests)

Init ==
    /\ status = "running" /\ returned = None /\ signal = None
    /\ attached = FALSE /\ process = "none"
    /\ actorMap = {} /\ made = {}
    /\ script = "running"
    /\ asked = {} /\ pending = {} /\ atEngine = {}
    /\ out = <<>> /\ inp = <<>>

-----------------------------------------------------------------------------

\* engine.complete, fail and stop: the first verdict stands (isRunSettled).
Judge(v) == status' = IF status = "running" THEN v ELSE status

\* The listeners of the bridge act until finalize.
Listening == attached /\ returned = None

\* The process is spawned.  One that cannot be spawned at all is a stop.
StartFails ==
    /\ process = "none"
    /\ process' = "absent"
    /\ Judge("interrupted")
    /\ UNCHANGED <<bridge, signal, actorMap, sandbox, out, atEngine, inp>>

\* Mutant: a signal aborted before the bridge is built is not looked at.
StartDeaf ==
    /\ process = "none"
    /\ process' \in {"alive", "failing"}
    /\ attached' = TRUE
    /\ UNCHANGED <<status, returned, signal, actorMap, sandbox, out, atEngine, inp>>

\* bridge: a signal aborted before is a stop, and then nothing is listened to.
Start ==
    /\ process = "none"
    /\ process' \in {"alive", "failing"}
    /\ attached' = (signal = None)
    /\ status' = IF signal = None THEN status ELSE signal
    /\ UNCHANGED <<returned, signal, actorMap, sandbox, out, atEngine, inp>>

-----------------------------------------------------------------------------
\* The script, in the sandbox process.
Running == process \in {"alive", "killed"} /\ script = "running"

Emit(line) == out' = Append(out, line)

\* __createActor: a handle of its own at once, the engine is told and not asked.
Create(h) ==
    /\ Running /\ h \notin made
    /\ made' = made \cup {h}
    /\ Emit([kind |-> "create-actor", handle |-> h])
    /\ UNCHANGED <<engine, bridge, signal, process, script, asked, pending, inp>>

\* __ask, __worldRead, __publishArtifact.
Ask(r) ==
    /\ Running /\ r \notin asked
    /\ HandleOf[r] \in made \cup {None}
    /\ asked' = asked \cup {r} /\ pending' = pending \cup {r}
    /\ Emit([kind |-> "request", id |-> r])
    /\ UNCHANGED <<engine, bridge, signal, process, made, script, inp>>

\* __execute: the script returns or throws, and says so.
Finish(ok) ==
    /\ Running
    /\ script' = IF ok THEN "returned" ELSE "threw"
    /\ Emit([kind |-> "complete", ok |-> ok])
    /\ UNCHANGED <<engine, bridge, signal, process, made, asked, pending, inp>>

\* __deliver.
Deliver ==
    /\ Running /\ inp # <<>>
    /\ pending' = pending \ {Head(inp)}
    /\ inp' = Tail(inp)
    /\ UNCHANGED <<engine, bridge, signal, process, made, script, asked, out>>

-----------------------------------------------------------------------------
\* What is left of the lines of a process that did not end by itself: those it
\* had flushed, and perhaps a part of the next.
Flushed(lines) ==
    LET upTo(n) == SubSeq(lines, 1, n)
    IN  {upTo(n) : n \in 0..Len(lines)} \cup {Append(upTo(n - 1), Broken) : n \in 1..Len(lines)}

\* Mutant: the process ends by process.exit, what is not yet flushed is lost.
ExitAtOnce ==
    /\ process = "alive" /\ script # "running"
    /\ process' = "exited"
    /\ out' \in Flushed(out)
    /\ UNCHANGED <<engine, bridge, signal, sandbox, inp>>

\* The reader is closed, the event loop runs dry once everything is written.
Exit ==
    /\ process = "alive" /\ script # "running"
    /\ process' = "exited"
    /\ UNCHANGED <<engine, bridge, signal, sandbox, out, inp>>

\* Out of memory, killed from outside, or killed by finalize.
Die ==
    /\ process \in {"alive", "killed"}
    /\ process' = "dead"
    /\ out' \in Flushed(out)
    /\ UNCHANGED <<engine, bridge, signal, sandbox, inp>>

-----------------------------------------------------------------------------
\* respond: a line to the script, unless its stdin is gone.
Respond(r) == inp' = IF process \in {"alive", "killed"} THEN Append(inp, r) ELSE inp

NextLine(kind) == Listening /\ out # <<>> /\ Head(out).kind = kind /\ out' = Tail(out)

\* create-actor: the handle is known from here on; a refusal fails the run.
ReadCreate ==
    /\ NextLine("create-actor")
    /\ LET h == Head(out).handle
       IN  IF status = "running" /\ h \notin Refused
           THEN actorMap' = actorMap \cup {h} /\ UNCHANGED status
           ELSE Judge("errored") /\ UNCHANGED actorMap
    /\ UNCHANGED <<bridge, signal, process, sandbox, atEngine, inp>>

Unknown(r) == HandleOf[r] # None /\ HandleOf[r] \notin actorMap

\* handleRequest: an unknown handle is refused at once, the rest is the engine's.
ReadRequest ==
    /\ NextLine("request")
    /\ LET r == Head(out).id
       IN  IF Unknown(r) THEN Respond(r) /\ UNCHANGED atEngine
           ELSE atEngine' = atEngine \cup {r} /\ UNCHANGED inp
    /\ UNCHANGED <<status, actorMap, bridge, signal, process, sandbox>>

ReadComplete ==
    /\ NextLine("complete")
    /\ Judge(IF Head(out).ok THEN "completed" ELSE "errored")
    /\ UNCHANGED <<actorMap, bridge, signal, process, sandbox, atEngine, inp>>

ReadBroken ==
    /\ NextLine("broken")
    /\ Judge("interrupted")
    /\ UNCHANGED <<actorMap, bridge, signal, process, sandbox, atEngine, inp>>

\* Mutant: a rejection of the engine is not passed on.
AnswerIfResolved(r) ==
    /\ r \in atEngine
    /\ atEngine' = atEngine \ {r}
    /\ \/ Respond(r)
       \/ UNCHANGED inp
    /\ UNCHANGED <<status, actorMap, bridge, signal, process, sandbox, out>>

\* The engine resolves or rejects a request; once settled it need not.
Answer(r) ==
    /\ r \in atEngine
    /\ atEngine' = atEngine \ {r}
    /\ Respond(r)
    /\ UNCHANGED <<status, actorMap, bridge, signal, process, sandbox, out>>

-----------------------------------------------------------------------------
\* "error" of a process that could not be spawned; it then closes.
SpawnError ==
    /\ process = "failing"
    /\ process' = "closed"
    /\ IF Listening THEN Judge("interrupted") ELSE UNCHANGED status
    /\ UNCHANGED <<actorMap, bridge, signal, sandbox, out, atEngine, inp>>

\* "close", after the last line: no complete came, so the process crashed.
Close ==
    /\ process \in {"exited", "dead"} /\ Listening /\ out = <<>>
    /\ process' = "closed"
    /\ Judge("interrupted")
    /\ UNCHANGED <<actorMap, bridge, signal, sandbox, out, atEngine, inp>>

Timer ==
    /\ Listening /\ status = "running"
    /\ Judge("interrupted")
    /\ UNCHANGED <<actorMap, bridge, signal, process, sandbox, out, atEngine, inp>>

\* The run service aborts the run, before or after it has started.
Abort(reason) ==
    /\ signal = None
    /\ signal' = reason
    /\ IF Listening THEN Judge(reason) ELSE UNCHANGED status
    /\ UNCHANGED <<actorMap, bridge, process, sandbox, out, atEngine, inp>>

\* The engine ends the run itself: a cap, a fault of its own, the provider.
Decide(v) ==
    /\ process # "none" /\ status = "running"
    /\ status' = v
    /\ UNCHANGED <<actorMap, bridge, signal, process, sandbox, out, atEngine, inp>>

\* Mutant: the process is left to end by itself.
FinalizeOnly ==
    /\ status # "running" /\ returned = None
    /\ returned' = status
    /\ UNCHANGED <<engine, attached, signal, process, sandbox, out, inp>>

\* finalize: engine.settled has resolved.
Finalize ==
    /\ status # "running" /\ returned = None
    /\ returned' = status
    /\ process' = IF process = "alive" THEN "killed" ELSE process
    /\ UNCHANGED <<engine, attached, signal, sandbox, out, inp>>

\* The end: what is left is not listened to.
Over ==
    /\ returned # None /\ process \notin {"alive", "killed", "failing"}
    /\ UNCHANGED vars

-----------------------------------------------------------------------------
\* What the event loop of the host and the operating system bring about.
Progress ==
    \/ ReadCreate \/ ReadRequest \/ ReadComplete \/ ReadBroken
    \/ SpawnError \/ Close \/ Finalize
    \/ process = "killed" /\ Die

Next ==
    \/ Progress
    \/ StartFails \/ Start
    \/ \E h \in Handles : Create(h)
    \/ \E r \in Requests : Ask(r)
    \/ \E ok \in BOOLEAN : Finish(ok)
    \/ Deliver \/ Exit \/ Die \/ Timer
    \/ \E r \in Requests : Answer(r)
    \/ \E reason \in Reasons : Abort(reason)
    \/ \E v \in {"errored", "provider"} : Decide(v)
    \/ Over

Spec == Init /\ [][Next]_vars

FairSpec == Spec /\ WF_vars(Progress)

-----------------------------------------------------------------------------
\* Of the enders that race for a run the first one wins, and the caller is told
\* what the journal says (single-writer finalize; first-wins in engine-settlement).
OneVerdict ==
    /\ [][status # "running" => UNCHANGED status]_status
    /\ [][returned' = status]_returned

\* "close" always comes after the lines, so a script that ended and was not
\* killed is judged by what it said: its exit is never taken for a crash.
CompleteIsHeard == process = "exited" /\ out = <<>> /\ Listening => status # "running"

\* A handle is in the map before any ask that names it is read: as long as the
\* run goes on no ask is refused for it (handleRequest: it should never happen).
HandleKnown ==
    out # <<>> /\ Head(out).kind = "request" /\ status = "running" => ~Unknown(Head(out).id)

\* A request the script waits for is on its way to the engine, with the engine or
\* on its way back, in one place only: no answer is lost or given twice.
PendingIsSomewhere ==
    Running /\ Listening =>
        \A r \in Requests :
            LET lines == {i \in DOMAIN out : out[i] = [kind |-> "request", id |-> r]}
                answers == {i \in DOMAIN inp : inp[i] = r}
            IN  /\ r \in pending <=> lines # {} \/ r \in atEngine \/ answers # {}
                /\ \A i, j \in lines : i = j
                /\ \A i, j \in answers : i = j
                /\ lines # {} => r \notin atEngine /\ answers = {}
                /\ r \in atEngine => answers = {}

\* A run that was aborted while its sandbox was still to be started does not run.
AbortedNeverRuns == process # "none" /\ signal # None => status # "running"

\* Whoever ends the run, it returns and its sandbox is gone, answers or not: an
\* ask nobody rejects cannot keep the script, and so the process, alive.
Ends == status # "running" ~> returned # None /\ process \notin {"alive", "killed"}

\* A sandbox that is gone ends the run.
GoneIsSeen == process \in {"absent", "exited", "dead", "closed"} ~> status # "running"

\* A process that cannot be spawned is a stop of the run: its "error" event has
\* a listener (the comment at the catch of spawn; an unheard one is uncaught).
ErrorIsHeard == process = "failing" => attached
=============================================================================
