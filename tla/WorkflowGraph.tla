---------------------------- MODULE WorkflowGraph ----------------------------
(***************************************************************************)
(* The scheduled phase of an expert workflow (core/src/workflow/scheduler  *)
(* .ts, scheduler/ and the commands of expert/runtime.ts): a loop that     *)
(* dispatches the nodes of a graph to agents, a few at a time, and asks a  *)
(* planner for more.                                                       *)
(*                                                                         *)
(* The whole run is one snapshot.  The loop and every job read the shared  *)
(* one (mem), build the next from it, write that to a file (disk) and only *)
(* then make it the shared one: whatever was put there during the write is *)
(* replaced.                                                               *)
(***************************************************************************)
EXTENDS Naturals, FiniteSets

CONSTANTS
    Nodes,           \* the nodes the graph has or may get
    Seeded,          \* those it has from the start
    Deps,            \* the nodes a seeded node depends on
    Explorable,      \* a planner may add the others
    Plannable,       \* bound: the edges it may think of, as pairs <<from, to>>
    FrontierTarget,  \* open nodes below which the planner is asked
    MaxPlannerRuns, MaxConcurrent, MaxErrors,
    Lives,           \* bound: resumes and retries of the run
    MaxFaults,       \* bound: failures of agents, crashes and cancellations
    None

ASSUME WorkflowGraphAssumption ==
    /\ IsFiniteSet(Nodes) /\ Seeded \subseteq Nodes
    /\ Deps \in [Nodes -> SUBSET Seeded] /\ \A n \in Nodes \ Seeded : Deps[n] = {}
    /\ Plannable \subseteq Nodes \X Nodes
    /\ Explorable \in BOOLEAN
    /\ {FrontierTarget, MaxPlannerRuns, MaxConcurrent, MaxErrors} \subseteq Nat \ {0}
    /\ Lives \in Nat /\ MaxFaults \in Nat
    /\ None \notin Nodes

VARIABLES
    mem,        \* the snapshot the loop and its jobs share
    disk,       \* the snapshot in the run's file
    main,       \* the loop
    job,        \* per node: the job that runs it
    cancel,     \* a cancel command under way
    lives,      \* resumes left
    faults,     \* what has gone wrong so far
    finished,   \* history: nodes whose agent has answered
    failures    \* history: how often the agent of a node has failed

vars == <<mem, disk, main, job, cancel, lives, faults, finished, failures>>

Snapshot ==
    [node : [Nodes -> {"absent", "pending", "active", "completed", "failed", "cancelled"}],
     tries : [Nodes -> 0..MaxErrors],
     deps : [Nodes -> SUBSET Nodes],   \* the edges of the graph, by their target
     seen : SUBSET Nodes, plans : 0..MaxPlannerRuns, errs : 0..MaxErrors,
     mood : {"active", "draining", "exhausted"},
     run : {"running", "paused", "completed", "cancelled"}]

\* Where the loop awaits its own file, and where it is done.
Writing == {"planning", "planned", "exhausting"}
Over == {"completed", "errors", "blocked", "cancelled", "down"}

\* What the loop knows of a node it has listed; deps is what it then depended on.
Listed == [tries : 0..MaxErrors, deps : SUBSET Nodes]

Main == [at : {"top", "asking", "choose", "dispatch", "starting", "race"} \cup Writing \cup Over,
         snap : Snapshot \cup {None},
         todo : UNION {[S -> Listed] : S \in SUBSET Nodes},
         node : Nodes \cup {None}, errs : 0..MaxErrors]

Saving == {"starting", "linking", "completing", "failing"}

Job == [at : {"announcing", "working", "done", "erred", "rejected"} \cup Saving,
        snap : Snapshot \cup {None}, linked : BOOLEAN, tries : 0..MaxErrors]

TypeOK ==
    /\ mem \in Snapshot /\ disk \in Snapshot
    /\ main \in Main
    /\ job \in [Nodes -> Job \cup {None}]
    /\ cancel \in {"none", "written", "aborted"}
    /\ lives \in 0..Lives /\ faults \in 0..MaxFaults
    /\ finished \subseteq Nodes
    /\ failures \in [Nodes -> 0..MaxErrors]

Loop(at) == [at |-> at, snap |-> None, todo |-> <<>>, node |-> None, errs |-> 0]

Init ==
    /\ mem = [node |-> [n \in Nodes |-> IF n \in Seeded THEN "pending" ELSE "absent"],
              tries |-> [n \in Nodes |-> 0], deps |-> Deps, seen |-> {}, plans |-> 0, errs |-> 0,
              mood |-> "active", run |-> "running"]
    /\ disk = mem
    /\ main = Loop("top")
    /\ job = [n \in Nodes |-> None]
    /\ cancel = "none" /\ lives = Lives /\ faults = 0
    /\ finished = {} /\ failures = [n \in Nodes |-> 0]

-----------------------------------------------------------------------------
\* Something goes wrong.
Fault == faults < MaxFaults /\ faults' = faults + 1

Having(s, S) == {n \in Nodes : s.node[n] \in S}
Active == {n \in Nodes : job[n] # None}
Aborted == cancel = "aborted"

Frontier(s) == Cardinality(Having(s, {"pending", "active"}))
Unseen(s) == Having(s, {"completed"}) \ s.seen

\* TERMINAL_DEPENDENCY_STATUSES: a failed dependency does not hold a node back.
Settled(s) == Having(s, {"completed", "failed", "cancelled"})

\* Mutant: an active dependency does not hold a node back.
ReadyEarly(s) == {n \in Having(s, {"pending"}) : s.deps[n] \subseteq Settled(s) \cup Having(s, {"active"})}

Ready(s) == {n \in Having(s, {"pending"}) : s.deps[n] \subseteq Settled(s)}

\* Mutant: a failed node is complete, as it is for the nodes that depend on it.
CompleteOrFailed(s) ==
    /\ Having(s, {"pending", "active"}) = {}
    /\ Explorable /\ Having(s, {"absent"}) # Nodes => s.mood = "exhausted"

\* areExecutableNodesComplete: a failed node is not complete.
Complete(s) ==
    /\ Having(s, {"pending", "active", "failed"}) = {}
    /\ Explorable /\ Having(s, {"absent"}) # Nodes => s.mood = "exhausted"

\* checkCollectionPlanners: the planner is asked once something is completed
\* that it has not seen, or when too few nodes are open.
PlannerDue(s) ==
    /\ Explorable /\ s.mood # "exhausted"
    /\ ~(Frontier(s) > 0 /\ s.plans = 0 /\ s.seen = {} /\ Unseen(s) = {})
    /\ ~(Frontier(s) >= FrontierTarget /\ Unseen(s) = {})

GivenUp(s) == s.plans >= MaxPlannerRuns \/ s.errs >= MaxErrors

-----------------------------------------------------------------------------
\* The loop.  Where it awaits a file, main.snap is what it writes.

Goes(at) == main' = [main EXCEPT !.at = at]

Writes(at, s) == main' = [main EXCEPT !.at = at, !.snap = s]

Scan ==
    /\ main.at = "top" /\ ~Aborted
    /\ IF ~PlannerDue(mem)
       THEN /\ mem' = IF Explorable /\ mem.mood # "exhausted" THEN [mem EXCEPT !.mood = "active"]
                      ELSE mem
            /\ Goes("choose")
       ELSE /\ IF GivenUp(mem) THEN Writes("exhausting", [mem EXCEPT !.mood = "exhausted"])
               ELSE Writes("planning", [mem EXCEPT !.plans = @ + 1, !.mood = "active"])
            /\ UNCHANGED mem
    /\ UNCHANGED <<disk, job, cancel, lives, faults, finished, failures>>

\* The planner's own snapshot is not shared before the planner has answered.
PlannerStarts ==
    /\ main.at = "planning" /\ ~Aborted
    /\ Goes("asking")
    /\ disk' = main.snap
    /\ UNCHANGED <<mem, job, cancel, lives, faults, finished, failures>>

\* The session of the planner is linked to its activity: the file is written again.
PlannerLinked ==
    /\ main.at = "asking" /\ ~Aborted
    /\ disk' = main.snap
    /\ UNCHANGED <<mem, main, job, cancel, lives, faults, finished, failures>>

\* Edges, as pairs, by their target.
Onto(edges, n) == {d \in Nodes : <<d, n>> \in edges}

\* wouldFormCycle: among any nodes there is one that depends on none of them.
Acyclic(deps) == \A S \in SUBSET Nodes \ {{}} : \E n \in S : deps[n] \cap S = {}

\* applyPlannerExpansion: new nodes, and new edges onto them or onto nodes there are.
PlannerAnswers(added, edges, exhausted) ==
    LET s == main.snap
        there == Nodes \ (Having(s, {"absent"}) \ added)
        deps == [n \in Nodes |-> s.deps[n] \cup Onto(edges, n)]
    IN  /\ main.at = "asking" /\ ~Aborted
        /\ added \subseteq Having(s, {"absent"})
        /\ edges \subseteq there \X there
        /\ \A n \in Nodes : Onto(edges, n) \cap s.deps[n] = {}
        /\ Acyclic(deps)
        /\ Writes("planned",
                  [s EXCEPT !.node = [n \in Nodes |-> IF n \in added THEN "pending" ELSE @[n]],
                            !.deps = deps,
                            !.seen = @ \cup Unseen(s),
                            !.mood = IF exhausted THEN "exhausted"
                                     ELSE IF added \cup edges = {} /\ Frontier(s) = 0 /\ Unseen(s) = {}
                                     THEN "draining" ELSE "active"])
        /\ UNCHANGED <<mem, disk, job, cancel, lives, faults, finished, failures>>

PlannerFails ==
    LET errs == main.snap.errs + 1
    IN  /\ main.at = "asking" /\ Fault /\ ~Aborted
        /\ Writes("planned", [main.snap EXCEPT !.errs = errs,
                                  !.mood = IF errs >= MaxErrors THEN "exhausted" ELSE "draining"])
        /\ UNCHANGED <<mem, disk, job, cancel, lives, finished, failures>>

\* What the planner was shown, with its answer, becomes the shared snapshot.
PlannerDone ==
    /\ main.at \in {"planned", "exhausting"} /\ ~Aborted
    /\ mem' = main.snap /\ disk' = main.snap
    /\ main' = [main EXCEPT !.at = "choose", !.snap = None]
    /\ UNCHANGED <<job, cancel, lives, faults, finished, failures>>

Completable == Complete(mem) /\ Active = {}
TooManyErrors == main.errs >= MaxErrors

\* The phase is complete; the run goes on to its report.
Finish ==
    /\ main.at = "choose" /\ ~Aborted /\ Completable
    /\ main' = Loop("completed")
    /\ disk' = [mem EXCEPT !.run = "completed"]
    /\ UNCHANGED <<mem, job, cancel, lives, faults, finished, failures>>

\* continueRun reads the file back before it marks the run as paused.
Pause(at) ==
    /\ main' = Loop(at)
    /\ disk' = [disk EXCEPT !.run = "paused"]
    /\ job' = [n \in Nodes |-> None]
    /\ UNCHANGED <<mem, cancel, lives, faults, finished, failures>>

GiveUp ==
    /\ main.at = "choose" /\ ~Aborted /\ ~Completable /\ TooManyErrors
    /\ \A n \in Active : job[n].at \in {"done", "erred"}
    /\ Pause("errors")

\* Mutant: a ready node is dispatched whether or not it has a job.
ToDispatchAgain == IF Cardinality(Active) < MaxConcurrent THEN Ready(mem) ELSE {}

ToDispatch == IF Cardinality(Active) < MaxConcurrent THEN Ready(mem) \ Active ELSE {}

\* Mutant: the loop waits for a job whether or not there is one.
WaitAnyway ==
    /\ main.at = "choose" /\ ~Aborted /\ ~Completable /\ ~TooManyErrors
    /\ ToDispatch = {}
    /\ Goes("race")
    /\ UNCHANGED <<mem, disk, job, cancel, lives, faults, finished, failures>>

Wait ==
    /\ main.at = "choose" /\ ~Aborted /\ ~Completable /\ ~TooManyErrors
    /\ ToDispatch = {} /\ Active # {}
    /\ Goes("race")
    /\ UNCHANGED <<mem, disk, job, cancel, lives, faults, finished, failures>>

\* Nothing runs and nothing can be started: "deadlock".
Blocked ==
    /\ main.at = "choose" /\ ~Aborted /\ ~Completable /\ ~TooManyErrors
    /\ ToDispatch = {} /\ Active = {}
    /\ Pause("blocked")

\* The nodes to dispatch are listed once, with the attempts they have had.
Todo == IF main.at = "choose"
        THEN [n \in ToDispatch |-> [tries |-> mem.tries[n], deps |-> mem.deps[n]]]
        ELSE main.todo

\* updateGraphNode: a node that is not in the graph is not entered.
Enter(s, n, status, tries) ==
    IF s.node[n] = "absent" THEN s ELSE [s EXCEPT !.node[n] = status, !.tries[n] = tries]

\* runWorkflowNode up to its first await; after an abort the write throws, before
\* anything could resolve the promise the loop then waits for.
Start(n) ==
    /\ \/ main.at = "choose" /\ ~Aborted /\ ~Completable /\ ~TooManyErrors
       \/ main.at = "dispatch"
    /\ n \in DOMAIN Todo
    /\ job' = [job EXCEPT ![n] =
                  [at |-> IF Aborted THEN "rejected" ELSE "starting",
                   snap |-> IF Aborted THEN None ELSE Enter(mem, n, "active", mem.tries[n]),
                   linked |-> FALSE, tries |-> Todo[n].tries]]
    /\ main' = [main EXCEPT !.at = "starting", !.node = n,
                            !.todo = [m \in DOMAIN Todo \ {n} |-> Todo[m]]]
    /\ UNCHANGED <<mem, disk, cancel, lives, faults, finished, failures>>

\* The first job to end counts for, or against, the errors in a row.
Collect(n) ==
    /\ main.at = "race" /\ n \in Active /\ job[n].at \in {"done", "erred"}
    /\ main' = [main EXCEPT !.at = "top", !.errs = IF job[n].at = "done" THEN 0 ELSE @ + 1]
    /\ job' = [job EXCEPT ![n] = None]
    /\ UNCHANGED <<mem, disk, cancel, lives, faults, finished, failures>>

-----------------------------------------------------------------------------
\* The jobs.  Where a job awaits its file, job[n].snap is what it writes.

JobGoes(n, at) ==
    job' = [job EXCEPT ![n].at = at,
                       ![n].snap = IF at = "announcing" THEN @ ELSE None]

JobWrites(n, at, s) ==
    job' = [job EXCEPT ![n].at = at, ![n].snap = s]

After(at) ==
    CASE at = "starting"   -> "announcing"
      [] at = "linking"    -> "working"
      [] at = "completing" -> "done"
      [] at = "failing"    -> "erred"

\* The file is written: setSnapshot.
JobWrote(n) ==
    /\ job[n].at \in Saving
    /\ mem' = job[n].snap /\ disk' = job[n].snap
    /\ JobGoes(n, After(job[n].at))
    /\ UNCHANGED <<main, cancel, lives, faults, finished, failures>>

\* The node is announced, and the loop takes the snapshot the job began with.
Announced(n) ==
    /\ job[n].at = "announcing" /\ main.at = "starting" /\ main.node = n
    /\ JobGoes(n, "working")
    /\ mem' = job[n].snap
    /\ main' = IF DOMAIN main.todo # {} /\ Cardinality(Active) < MaxConcurrent
               THEN [main EXCEPT !.at = "dispatch", !.node = None]
               ELSE [main EXCEPT !.at = "top", !.node = None, !.todo = <<>>]
    /\ UNCHANGED <<disk, cancel, lives, faults, finished, failures>>

\* onChildSessionStarted: the session is entered in the latest snapshot.
Linked(n) ==
    /\ job[n].at = "working" /\ ~job[n].linked /\ ~Aborted
    /\ job' = [job EXCEPT ![n].at = "linking", ![n].snap = mem,
                          ![n].linked = TRUE]
    /\ UNCHANGED <<mem, disk, main, cancel, lives, faults, finished, failures>>

\* The agent has answered: the node is completed in the latest snapshot.
Answered(n) ==
    /\ job[n].at = "working" /\ ~Aborted
    /\ JobWrites(n, "completing", Enter(mem, n, "completed", job[n].tries))
    /\ finished' = finished \cup {n}
    /\ UNCHANGED <<mem, disk, main, cancel, lives, faults, failures>>

Tries(n) == job[n].tries + 1

\* The agent has failed: the node is tried again until it has failed too often.
Failed(n) ==
    /\ job[n].at = "working" /\ Fault /\ ~Aborted
    /\ JobWrites(n, "failing",
                 Enter(mem, n, IF Tries(n) >= MaxErrors THEN "failed" ELSE "pending",
                       IF Tries(n) > MaxErrors THEN MaxErrors ELSE Tries(n)))
    /\ failures' = [failures EXCEPT ![n] = IF @ < MaxErrors THEN @ + 1 ELSE @]
    /\ UNCHANGED <<mem, disk, main, cancel, lives, finished>>

\* After an abort whatever a job awaits throws.
Rejected(n) ==
    /\ Aborted /\ n \in Active /\ job[n].at \notin {"done", "erred", "rejected"}
    /\ JobGoes(n, "rejected")
    /\ UNCHANGED <<mem, disk, main, cancel, lives, faults, finished, failures>>

-----------------------------------------------------------------------------
Reset(s, S) ==
    [s EXCEPT !.node = [n \in Nodes |-> IF s.node[n] \in S THEN "pending" ELSE @[n]],
              !.run = "running"]

\* resume, once the jobs of the life before are over: what was active is pending
\* again.
Revive(s) ==
    /\ main.at \in Over
    /\ \A n \in Active : job[n].at \in {"done", "erred", "rejected"}
    /\ disk.run \notin {"completed", "cancelled"} /\ lives > 0
    /\ mem' = s /\ disk' = s
    /\ main' = Loop("top") /\ job' = [n \in Nodes |-> None]
    /\ lives' = lives - 1
    /\ cancel' = IF Aborted THEN "none" ELSE cancel
    /\ UNCHANGED <<faults, finished, failures>>

Resume == Revive(Reset(disk, {"active"}))

\* retry of one node or of the phase: what had failed is pending again, too.
Retry(scope) ==
    Revive(LET s == Reset(disk, {"active"})
           IN  [s EXCEPT !.node = [n \in Nodes |-> IF n \in scope /\ @[n] = "failed"
                                                  THEN "pending" ELSE @[n]]])

Crash ==
    /\ Fault /\ main.at \notin Over
    /\ main' = Loop("down")
    /\ job' = [n \in Nodes |-> None]
    /\ cancel' = "none"
    /\ UNCHANGED <<mem, disk, lives, finished, failures>>

Cancelled(s) ==
    [s EXCEPT !.node = [n \in Nodes |-> IF s.node[n] \in {"pending", "active"}
                                       THEN "cancelled" ELSE @[n]],
              !.run = "cancelled"]

\* cancel writes the file first and aborts the run some awaits later.
CancelWrites ==
    /\ Fault /\ cancel = "none"
    /\ disk.run \notin {"completed", "cancelled"}
    /\ disk' = Cancelled(disk)
    /\ cancel' = "written"
    /\ UNCHANGED <<mem, main, job, lives, finished, failures>>

Abort ==
    /\ cancel = "written"
    /\ cancel' = IF main.at \in Over THEN "none" ELSE "aborted"
    /\ UNCHANGED <<mem, disk, main, job, lives, faults, finished, failures>>

\* The loop throws at its next await, unless it waits for a job to start.
Thrown ==
    /\ Aborted
    /\ \/ main.at \in {"top", "asking", "choose"} \cup Writing
       \/ main.at = "race" /\ \E n \in Active : job[n].at = "rejected"
    /\ disk' = IF disk.run = "cancelled" THEN disk ELSE Cancelled(disk)
    /\ main' = Loop("cancelled")
    /\ UNCHANGED <<mem, job, cancel, lives, faults, finished, failures>>

-----------------------------------------------------------------------------
MainStep ==
    \/ Scan
    \/ PlannerStarts
    \/ \E added \in SUBSET Nodes : \E edges \in SUBSET Plannable :
           \E exhausted \in BOOLEAN : PlannerAnswers(added, edges, exhausted)
    \/ PlannerFails
    \/ PlannerDone
    \/ Finish
    \/ GiveUp
    \/ Wait
    \/ Blocked
    \/ \E n \in Nodes : Start(n)
    \/ \E n \in Nodes : Collect(n)
    \/ Thrown

JobStep(n) ==
    \/ JobWrote(n)
    \/ Announced(n)
    \/ Answered(n)
    \/ Failed(n)
    \/ Rejected(n)

Next ==
    \/ MainStep
    \/ PlannerLinked
    \/ \E n \in Active : JobStep(n)
    \/ \E n \in Active : Linked(n)
    \/ Resume
    \/ \E scope \in {Nodes} \cup {{n} : n \in Nodes} : Retry(scope)
    \/ Crash
    \/ CancelWrites
    \/ Abort

Spec == Init /\ [][Next]_vars

JobsGoOn == \E n \in Active : JobStep(n)

\* Agents answer or fail and files are written: some job goes on, and the loop does.
FairSpec == Spec /\ WF_vars(MainStep) /\ WF_vars(JobsGoOn)

-----------------------------------------------------------------------------
\* runWorkflowNode is called for n.
Starts(n) == main.at # "starting" /\ main'.at = "starting" /\ main'.node = n

\* A node has one job at a time: a snapshot written over a newer one may show a node
\* as pending whose agent still works, and the loop must not dispatch it again.
OneJob == [][\A n \in Nodes : Starts(n) => job[n] = None]_vars

\* A node starts when the nodes it depends on have answered, have failed as often
\* as they may or were cancelled, in this life or an earlier one: those it was seeded
\* with, whatever snapshot overwrites another, and those it had when it was listed.
\* (An edge the planner adds later onto a node there is may be lost before that.)
DependenciesFirst ==
    [][\A n \in Nodes : Starts(n) =>
           \A d \in Deps[n] \cup Todo[n].deps :
               \/ d \in finished
               \/ failures[d] = MaxErrors
               \/ mem.node[d] = "cancelled"]_vars

\* The phase is complete only when every node of the graph that was not cancelled
\* has answered: a snapshot written over another may lose an answer, never invent one.
CompletionIsReal ==
    main.at = "completed" => Having(mem, {"absent", "cancelled"}) \cup finished = Nodes

\* An edge the planner has put into the graph stays there.  It does not: a snapshot a
\* job has built before is made the shared one after it (node-runner.ts:73), and the
\* target of the edge is started before its source has answered.
PlannedEdgesStay == [][\A n \in Nodes : mem.deps[n] \subseteq mem'.deps[n]]_vars

Busy == main.at \notin Over

\* A run comes to an end, unless it is aborted while it waits for a job to start.
Returns == Busy ~> ~Busy \/ (Aborted /\ main.at = "starting" /\ job[main.node].at = "rejected")

\* "scheduler paused because pending nodes are blocked" (run): when nothing fails, a
\* run that pauses has a pending node that a node before it holds back.
PausedIsBlocked ==
    main.at = "blocked" =>
        \E n \in Having(mem, {"pending"}) : ~(mem.deps[n] \subseteq Settled(mem))
=============================================================================
