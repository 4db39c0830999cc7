------------------------- MODULE WorkflowGraphProofs -------------------------
(***************************************************************************)
(* Proofs about WorkflowGraph, for any graph, planner and bounds.          *)
(*                                                                         *)
(* Snapshots overwrite each other, so nothing can be said of the latest    *)
(* one alone.  The invariant speaks of every snapshot there is, shared, on *)
(* disk or still to be written: it may lag behind, but what it says of a   *)
(* node that is over has happened and the edges of the seeded graph are in *)
(* it (Sound), and all snapshots of one life agree on the nodes that are   *)
(* cancelled (SameCancelled).                                              *)
(***************************************************************************)
EXTENDS WorkflowGraph, TLAPS

Todos == UNION {[S -> Listed] : S \in SUBSET Nodes}

Histories == [Nodes -> 0..MaxErrors]

\* What s says of the nodes that are over is true, and it has the seeded edges.
Sound(s, fin, fl) ==
    /\ s \in Snapshot
    /\ \A n \in Nodes :
           /\ s.node[n] = "completed" => n \in fin
           /\ s.node[n] = "failed" => fl[n] = MaxErrors
           /\ s.tries[n] <= fl[n]
           /\ Deps[n] \subseteq s.deps[n]

SameCancelled(s, t) ==
    \A n \in Nodes : s.node[n] = "cancelled" <=> t.node[n] = "cancelled"

DepsMet(D) ==
    \A d \in D : \/ d \in finished
                \/ failures[d] = MaxErrors
                \/ mem.node[d] = "cancelled"

\* A node that was listed as e may start.
MayStart(n, e) ==
    /\ job[n] = None
    /\ e.tries <= failures[n]
    /\ mem.node[n] # "cancelled"
    /\ Deps[n] \subseteq e.deps /\ DepsMet(e.deps)

Fresh(s) == Sound(s, finished, failures) /\ SameCancelled(s, mem)

Shared == Sound(mem, finished, failures) /\ Sound(disk, finished, failures)

LoopOK ==
    /\ main \in Main
    /\ main.at \in Writing \cup {"asking"} => Fresh(main.snap)
    /\ main.at \in {"planning", "asking"} => main.snap.errs < MaxErrors
    /\ main.at = "race" => main.errs < MaxErrors
    /\ main.at = "completed" =>
           Active = {} /\ Having(mem, {"pending", "active", "failed"}) = {}

\* The nodes the loop has still to dispatch may start, and have no job.
TodoOK ==
    main.at \in {"dispatch", "starting"} =>
        \A n \in DOMAIN main.todo : MayStart(n, main.todo[n])

JobOK(n) ==
    /\ job[n] \in Job
    /\ job[n].at \in Saving \cup {"announcing"} => Fresh(job[n].snap)
    /\ job[n].tries <= failures[n]
    /\ mem.node[n] # "cancelled"

JobsOK ==
    /\ job \in [Nodes -> Job \cup {None}]
    /\ \A n \in Active : JobOK(n)

Rest ==
    /\ cancel \in {"none", "written", "aborted"}
    /\ lives \in 0..Lives /\ faults \in 0..MaxFaults
    /\ finished \subseteq Nodes
    /\ failures \in Histories

Inv == Shared /\ LoopOK /\ TodoOK /\ JobsOK /\ Rest

-----------------------------------------------------------------------------
(* Snapshots. *)

LEMMA Numbers ==
    /\ MaxErrors \in Nat \ {0} /\ MaxPlannerRuns \in Nat \ {0}
    /\ FrontierTarget \in Nat \ {0} /\ MaxConcurrent \in Nat \ {0}
    /\ Lives \in Nat /\ MaxFaults \in Nat
BY WorkflowGraphAssumption

\* What happens later does not make a snapshot unsound.
LEMMA SoundStays ==
    ASSUME NEW s, NEW fin, NEW fl, NEW fin2, NEW fl2,
           Sound(s, fin, fl), fin \subseteq fin2,
           fl \in Histories, fl2 \in Histories,
           \A n \in Nodes : fl[n] <= fl2[n]
    PROVE  Sound(s, fin2, fl2)
<1>1. MaxErrors \in Nat
    BY Numbers
<1>2. ASSUME NEW n \in Nodes
      PROVE  /\ s.node[n] = "completed" => n \in fin2
             /\ s.node[n] = "failed" => fl2[n] = MaxErrors
             /\ s.tries[n] <= fl2[n]
             /\ Deps[n] \subseteq s.deps[n]
    <2>1. s.tries[n] \in Nat /\ fl[n] \in 0..MaxErrors /\ fl2[n] \in 0..MaxErrors
        BY DEF Sound, Snapshot, Histories
    <2>2. QED
        BY <1>1, <2>1 DEF Sound
<1>3. QED
    BY <1>2 DEF Sound

LEMMA TodosAre ==
    ASSUME NEW t
    PROVE  t \in Todos => DOMAIN t \subseteq Nodes /\ \A n \in DOMAIN t : t[n] \in Listed
BY DEF Todos

LEMMA NoTodo == <<>> \in Todos
<1>1. <<>> \in [{} -> Listed]
    OBVIOUS
<1>2. QED
    BY <1>1 DEF Todos

\* Marks of the run and the collection do not touch the nodes.
LEMMA Marked ==
    ASSUME NEW s, NEW t, NEW fin, NEW fl,
           Sound(s, fin, fl), t \in Snapshot, t.node = s.node, t.tries = s.tries, t.deps = s.deps
    PROVE  Sound(t, fin, fl) /\ SameCancelled(t, s)
BY DEF Sound, SameCancelled

\* One node is entered.
LEMMA Entered ==
    ASSUME NEW s, NEW n \in Nodes, NEW v, NEW k \in 0..MaxErrors, NEW fin, NEW fl \in Histories,
           Sound(s, fin, fl), k <= fl[n], s.node[n] # "cancelled",
           \/ v \in {"pending", "active"}
           \/ v = "completed" /\ n \in fin
           \/ v = "failed" /\ fl[n] = MaxErrors
    PROVE  Sound(Enter(s, n, v, k), fin, fl) /\ SameCancelled(Enter(s, n, v, k), s)
<1> DEFINE t == [s EXCEPT !.node[n] = v, !.tries[n] = k]
<1>1. s \in Snapshot
    BY DEF Sound
<1>2. t \in Snapshot
    BY <1>1 DEF Snapshot
<1>3. t.node = [s.node EXCEPT ![n] = v] /\ t.tries = [s.tries EXCEPT ![n] = k] /\ t.deps = s.deps
    BY <1>1 DEF Snapshot
<1>4. s.node \in [Nodes -> {"absent", "pending", "active", "completed", "failed", "cancelled"}]
      /\ s.tries \in [Nodes -> 0..MaxErrors]
    BY <1>1 DEF Snapshot
<1>5. ASSUME NEW m \in Nodes
      PROVE  /\ t.node[m] = "completed" => m \in fin
             /\ t.node[m] = "failed" => fl[m] = MaxErrors
             /\ t.tries[m] <= fl[m]
             /\ Deps[m] \subseteq t.deps[m]
             /\ t.node[m] = "cancelled" <=> s.node[m] = "cancelled"
    <2>1. CASE m = n
        BY <1>3, <1>4, <2>1 DEF Sound
    <2>2. CASE m # n
        BY <1>3, <1>4, <2>2 DEF Sound
    <2>3. QED
        BY <2>1, <2>2
<1>6. Sound(t, fin, fl) /\ SameCancelled(t, s)
    BY <1>2, <1>5 DEF Sound, SameCancelled
<1>7. Enter(s, n, v, k) = s \/ Enter(s, n, v, k) = t
    BY DEF Enter
<1>8. QED
    BY <1>6, <1>7 DEF SameCancelled

\* Several nodes are put back or given up.
LEMMA PutBack ==
    ASSUME NEW s, NEW t, NEW fin, NEW fl, Sound(s, fin, fl),
           t \in Snapshot, t.tries = s.tries,
           \A n \in Nodes : s.deps[n] \subseteq t.deps[n],
           \A n \in Nodes : t.node[n] \in {s.node[n], "pending", "cancelled"}
    PROVE  Sound(t, fin, fl)
<1>1. ASSUME NEW n \in Nodes
      PROVE  /\ t.node[n] = "completed" => n \in fin
             /\ t.node[n] = "failed" => fl[n] = MaxErrors
             /\ t.tries[n] <= fl[n]
             /\ Deps[n] \subseteq t.deps[n]
    <2>1. t.node[n] = s.node[n] \/ t.node[n] = "pending" \/ t.node[n] = "cancelled"
        OBVIOUS
    <2>2. QED
        BY <2>1 DEF Sound
<1>2. QED
    BY <1>1 DEF Sound

LEMMA CancelledSound ==
    ASSUME NEW s, NEW fin, NEW fl, Sound(s, fin, fl)
    PROVE  Sound(Cancelled(s), fin, fl)
<1> DEFINE node == [n \in Nodes |-> IF s.node[n] \in {"pending", "active"}
                                   THEN "cancelled" ELSE s.node[n]]
           t == [s EXCEPT !.node = node, !.run = "cancelled"]
<1>1. s \in Snapshot /\ t = Cancelled(s)
    BY DEF Sound, Cancelled
<1>2. node \in [Nodes -> {"absent", "pending", "active", "completed", "failed", "cancelled"}]
    BY <1>1 DEF Snapshot
<1>3. \A n \in Nodes : node[n] \in {s.node[n], "pending", "cancelled"}
    OBVIOUS
<1> HIDE DEF node
<1>4. t \in Snapshot /\ t.tries = s.tries /\ t.deps = s.deps /\ t.node = node
    BY <1>1, <1>2 DEF Snapshot
<1>5. Sound(t, fin, fl)
    BY <1>3, <1>4, PutBack
<1>6. QED
    BY <1>1, <1>5

-----------------------------------------------------------------------------
(* What a step leaves alone. *)

\* A snapshot of this life stays one while the shared one keeps its cancelled nodes.
LEMMA FreshStays ==
    ASSUME NEW s, Fresh(s), Rest, Rest',
           finished \subseteq finished', \A n \in Nodes : failures[n] <= failures'[n],
           SameCancelled(mem', mem)
    PROVE  Fresh(s)'
<1>1. Sound(s, finished', failures')
    BY SoundStays DEF Fresh, Rest
<1>2. SameCancelled(s, mem')
    BY DEF Fresh, SameCancelled
<1>3. QED
    BY <1>1, <1>2 DEF Fresh

LEMMA HistoryStays ==
    ASSUME Rest, UNCHANGED <<finished, failures>>
    PROVE  finished \subseteq finished' /\ \A n \in Nodes : failures[n] <= failures'[n]
<1>1. \A n \in Nodes : failures[n] \in 0..MaxErrors
    BY DEF Rest, Histories
<1>2. QED
    BY <1>1, Numbers

\* A job the step does not touch.
LEMMA JobStays ==
    ASSUME NEW n \in Nodes, JobOK(n), Rest, Rest', job'[n] = job[n],
           finished \subseteq finished', \A m \in Nodes : failures[m] <= failures'[m],
           SameCancelled(mem', mem)
    PROVE  JobOK(n)'
<1>1. job[n] \in Job
    BY DEF JobOK
<1>2. job[n].at \in Saving \cup {"announcing"} => Fresh(job[n].snap)'
    BY FreshStays DEF JobOK
<1>3. job[n].tries <= failures'[n]
    <2>1. job[n].tries \in 0..MaxErrors
        BY <1>1 DEF Job
    <2>2. failures[n] \in 0..MaxErrors /\ failures'[n] \in 0..MaxErrors
        BY DEF Rest, Histories
    <2>3. QED
        BY <2>1, <2>2, Numbers DEF JobOK
<1>4. mem'.node[n] # "cancelled"
    BY DEF JobOK, SameCancelled
<1>5. QED
    BY <1>1, <1>2, <1>3, <1>4 DEF JobOK, Fresh

LEMMA DepsStay ==
    ASSUME NEW D \in SUBSET Nodes, DepsMet(D), Rest, Rest',
           finished \subseteq finished', \A m \in Nodes : failures[m] <= failures'[m],
           SameCancelled(mem', mem)
    PROVE  DepsMet(D)'
<1>1. \A d \in Nodes : failures[d] = MaxErrors => failures'[d] = MaxErrors
    <2>1. \A d \in Nodes : failures[d] \in 0..MaxErrors /\ failures'[d] \in 0..MaxErrors
        BY DEF Rest, Histories
    <2>2. QED
        BY <2>1, Numbers
<1>2. QED
    BY <1>1 DEF DepsMet, SameCancelled

\* What is still to be dispatched, when a step touches neither its job nor what it
\* depends on.
LEMMA MayStartStays ==
    ASSUME NEW n \in Nodes, NEW e \in Listed, MayStart(n, e), Rest, Rest', job'[n] = None,
           finished \subseteq finished', \A m \in Nodes : failures[m] <= failures'[m],
           SameCancelled(mem', mem)
    PROVE  MayStart(n, e)'
<1>1. e.tries \in 0..MaxErrors /\ e.deps \in SUBSET Nodes
    BY DEF Listed
<1>2. failures[n] \in 0..MaxErrors /\ failures'[n] \in 0..MaxErrors
    BY DEF Rest, Histories
<1>3. e.tries <= failures'[n]
    BY <1>1, <1>2, Numbers DEF MayStart
<1>4. mem'.node[n] # "cancelled"
    BY DEF MayStart, SameCancelled
<1>5. DepsMet(e.deps)'
    BY <1>1, DepsStay DEF MayStart
<1>6. QED
    BY <1>3, <1>4, <1>5 DEF MayStart

LEMMA SameSelf == \A s : SameCancelled(s, s)
BY DEF SameCancelled

\* Jobs, when a step touches none of them.
LEMMA JobsStay ==
    ASSUME JobsOK, Rest, Rest', UNCHANGED <<job, finished, failures>>, SameCancelled(mem', mem)
    PROVE  JobsOK'
<1>1. finished \subseteq finished' /\ \A n \in Nodes : failures[n] <= failures'[n]
    BY HistoryStays
<1>2. ASSUME NEW n \in Active PROVE JobOK(n)'
    <2>1. n \in Nodes /\ JobOK(n)
        BY DEF Active, JobsOK
    <2>2. job'[n] = job[n]
        OBVIOUS
    <2>3. QED
        BY <1>1, <2>1, <2>2, JobStays
<1>3. Active' = Active
    BY DEF Active
<1>4. job' \in [Nodes -> Job \cup {None}]
    BY DEF JobsOK
<1>5. QED
    BY <1>2, <1>3, <1>4 DEF JobsOK

\* No jobs are left.
LEMMA NoJobs ==
    ASSUME job' = [n \in Nodes |-> None]
    PROVE  JobsOK' /\ Active' = {}
<1>1. Active' = {}
    BY DEF Active
<1>2. job' \in [Nodes -> Job \cup {None}]
    OBVIOUS
<1>3. QED
    BY <1>1, <1>2 DEF JobsOK

\* A loop at a place where it has no snapshot and nothing to dispatch.
LEMMA LoopAt ==
    ASSUME NEW at \in {"top"} \cup Over
    PROVE  Loop(at) \in Main /\ Loop(at).at = at
<1>1. <<>> \in Todos
    BY NoTodo
<1>2. at \in {"top", "asking", "choose", "dispatch", "starting", "race"} \cup Writing \cup Over
    OBVIOUS
<1>3. 0 \in 0..MaxErrors
    BY Numbers
<1>4. QED
    BY <1>1, <1>2, <1>3 DEF Loop, Main, Todos

LEMMA Places ==
    /\ Writing \cap Over = {} /\ Over \cap {"top", "asking", "choose", "dispatch", "starting", "race"} = {}
    /\ "top" \notin Writing
BY DEF Writing, Over

LEMMA InitInv == Init => Inv
<1> SUFFICES ASSUME Init PROVE Inv
    OBVIOUS
<1>1. mem \in Snapshot
    <2>1. Deps \in [Nodes -> SUBSET Nodes]
        BY WorkflowGraphAssumption
    <2>2. QED
        BY <2>1, Numbers DEF Init, Snapshot
<1>2. Rest
    BY Numbers DEF Init, Rest, Histories
<1>3. Shared
    <2>1. \A n \in Nodes : /\ mem.node[n] \in {"pending", "absent"}
                           /\ mem.tries[n] = 0 /\ failures[n] = 0 /\ mem.deps[n] = Deps[n]
        BY DEF Init
    <2>2. Sound(mem, finished, failures)
        BY <1>1, <2>1, Numbers DEF Sound
    <2>3. QED
        BY <2>2 DEF Shared, Init
<1>4. LoopOK /\ TodoOK
    <2>1. main \in Main /\ main.at = "top"
        BY LoopAt DEF Init
    <2>2. QED
        BY <2>1, Places DEF LoopOK, TodoOK
<1>5. JobsOK
    BY DEF Init, JobsOK, Active
<1>6. QED
    BY <1>2, <1>3, <1>4, <1>5 DEF Inv

-----------------------------------------------------------------------------
(* The steps of the loop. *)

LEMMA ScanInv == ASSUME Inv, Scan PROVE Inv'
<1>1. Shared /\ LoopOK /\ JobsOK /\ Rest /\ mem \in Snapshot /\ main \in Main
    BY DEF Inv, LoopOK, Shared, Sound
<1>2. Rest' /\ UNCHANGED <<disk, job, finished, failures>> /\ main.at = "top"
    BY <1>1 DEF Scan, Rest
<1>3. CASE ~PlannerDue(mem)
    <2>1. main' = [main EXCEPT !.at = "choose"] /\ (mem' = mem \/ mem' = [mem EXCEPT !.mood = "active"])
        BY <1>3 DEF Scan, Goes
    <2>2. Sound(mem', finished, failures) /\ SameCancelled(mem', mem)
        <3>1. mem' \in Snapshot /\ mem'.node = mem.node /\ mem'.tries = mem.tries /\ mem'.deps = mem.deps
            BY <1>1, <2>1 DEF Snapshot
        <3>2. QED
            BY <1>1, <3>1, Marked DEF Shared
    <2>3. main' \in Main /\ main'.at = "choose"
        BY <1>1, <2>1 DEF Main
    <2>4. LoopOK' /\ TodoOK'
        BY <2>3, Places DEF LoopOK, TodoOK, Writing
    <2>5. QED
        BY <1>1, <1>2, <2>2, <2>4, JobsStay DEF Inv, Shared
<1>4. CASE PlannerDue(mem)
    <2>1. mem' = mem
        BY <1>4 DEF Scan
    <2>2. PICK at, t :
              /\ main' = [main EXCEPT !.at = at, !.snap = t]
              /\ \/ at = "exhausting" /\ t = [mem EXCEPT !.mood = "exhausted"]
                 \/ /\ ~GivenUp(mem) /\ at = "planning"
                    /\ t = [mem EXCEPT !.plans = @ + 1, !.mood = "active"]
        BY <1>4 DEF Scan, Writes
    <2>3. t \in Snapshot /\ t.node = mem.node /\ t.tries = mem.tries /\ t.deps = mem.deps
        <3>1. CASE at = "exhausting"
            BY <1>1, <2>2, <3>1 DEF Snapshot
        <3>2. CASE at = "planning"
            <4>1. mem.plans \in 0..MaxPlannerRuns /\ mem.plans < MaxPlannerRuns
                BY <1>1, <2>2, <3>2, Numbers DEF Snapshot, GivenUp
            <4>2. mem.plans + 1 \in 0..MaxPlannerRuns
                BY <4>1, Numbers
            <4>3. QED
                BY <1>1, <2>2, <3>2, <4>2 DEF Snapshot
        <3>3. QED
            BY <2>2, <3>1, <3>2
    <2>4. at = "planning" => t.errs < MaxErrors
        <3>1. SUFFICES ASSUME at = "planning" PROVE t.errs < MaxErrors
            OBVIOUS
        <3>2. t = [mem EXCEPT !.plans = @ + 1, !.mood = "active"] /\ ~GivenUp(mem)
            BY <2>2, <3>1
        <3>3. t.errs = mem.errs /\ mem.errs \in 0..MaxErrors
            BY <1>1, <3>2 DEF Snapshot
        <3>4. QED
            BY <3>2, <3>3, Numbers DEF GivenUp
    <2>5. Sound(t, finished, failures) /\ SameCancelled(t, mem)
        BY <1>1, <2>3, Marked DEF Shared
    <2>6. main' \in Main /\ main'.at = at /\ main'.snap = t /\ at \in Writing
        BY <1>1, <2>2, <2>3 DEF Main, Writing
    <2>7. LoopOK' /\ TodoOK'
        <3>1. at # "asking" /\ at # "race" /\ at # "completed" /\ at \notin {"dispatch", "starting"}
            BY <2>2
        <3>2. QED
            BY <1>2, <2>1, <2>4, <2>5, <2>6, <3>1 DEF LoopOK, TodoOK, Fresh
    <2>8. QED
        BY <1>1, <1>2, <2>1, <2>7, JobsStay, SameSelf DEF Inv, Shared
<1>5. QED
    BY <1>3, <1>4

LEMMA PlannerStartsInv == ASSUME Inv, PlannerStarts PROVE Inv'
<1>1. Shared /\ LoopOK /\ JobsOK /\ Rest /\ main \in Main /\ main.at = "planning"
    BY DEF Inv, LoopOK, PlannerStarts
<1>2. Rest' /\ UNCHANGED <<mem, job, finished, failures>> /\ disk' = main.snap
    BY <1>1 DEF PlannerStarts, Rest
<1>3. Fresh(main.snap) /\ main.snap.errs < MaxErrors
    BY <1>1 DEF LoopOK, Writing
<1>4. main' \in Main /\ main'.at = "asking" /\ main'.snap = main.snap
    BY <1>1 DEF PlannerStarts, Goes, Main
<1>5. LoopOK' /\ TodoOK'
    BY <1>2, <1>3, <1>4 DEF LoopOK, TodoOK, Fresh
<1>6. Shared'
    BY <1>1, <1>2, <1>3 DEF Shared, Fresh
<1>7. QED
    BY <1>1, <1>2, <1>5, <1>6, JobsStay, SameSelf DEF Inv

LEMMA PlannerLinkedInv == ASSUME Inv, PlannerLinked PROVE Inv'
<1>1. Shared /\ LoopOK /\ TodoOK /\ JobsOK /\ Rest
    BY DEF Inv
<1>2. Rest' /\ UNCHANGED <<mem, main, job, finished, failures>> /\ disk' = main.snap /\ main.at = "asking"
    BY <1>1 DEF PlannerLinked, Rest
<1>3. Fresh(main.snap)
    BY <1>1, <1>2 DEF LoopOK
<1>4. LoopOK' /\ TodoOK'
    BY <1>1, <1>2 DEF LoopOK, TodoOK, MayStart, Fresh, DepsMet, Active
<1>5. Shared'
    BY <1>1, <1>2, <1>3 DEF Shared, Fresh
<1>6. QED
    BY <1>1, <1>2, <1>4, <1>5, JobsStay, SameSelf DEF Inv

\* A step that has the loop write a snapshot next.
LEMMA LoopWrites ==
    ASSUME Inv, NEW t, main' = [main EXCEPT !.at = "planned", !.snap = t], Fresh(t),
           UNCHANGED <<mem, disk, job, finished, failures>>, Rest'
    PROVE  Inv'
<1>1. Shared /\ LoopOK /\ JobsOK /\ Rest /\ main \in Main
    BY DEF Inv, LoopOK
<1>2. main' \in Main /\ main'.at = "planned" /\ main'.snap = t
    BY <1>1 DEF Main, Fresh, Sound, Writing
<1>3. LoopOK' /\ TodoOK'
    BY <1>2 DEF LoopOK, TodoOK, Fresh
<1>4. QED
    BY <1>1, <1>3, JobsStay, SameSelf DEF Inv, Shared

LEMMA PlannerAnswersInv ==
    ASSUME Inv, NEW added, NEW edges, NEW exhausted, PlannerAnswers(added, edges, exhausted) PROVE Inv'
<1>1. Rest /\ LoopOK /\ main \in Main /\ main.at = "asking"
    BY DEF Inv, LoopOK, PlannerAnswers
<1>2. Rest' /\ UNCHANGED <<mem, disk, job, finished, failures>>
    BY <1>1 DEF PlannerAnswers, Rest
<1> DEFINE s == main.snap
           mood == IF exhausted THEN "exhausted"
                   ELSE IF added \cup edges = {} /\ Frontier(s) = 0 /\ Unseen(s) = {}
                   THEN "draining" ELSE "active"
           node == [n \in Nodes |-> IF n \in added THEN "pending" ELSE s.node[n]]
           deps == [n \in Nodes |-> s.deps[n] \cup Onto(edges, n)]
           seen == s.seen \cup Unseen(s)
           t == [s EXCEPT !.node = node, !.deps = deps, !.seen = seen, !.mood = mood]
<1>3. Fresh(s) /\ s \in Snapshot
    BY <1>1 DEF LoopOK, Fresh, Sound
<1>4. main' = [main EXCEPT !.at = "planned", !.snap = t]
    BY DEF PlannerAnswers, Writes
<1>5. \A n \in added : s.node[n] = "absent"
    BY DEF PlannerAnswers, Having
<1>6. node \in [Nodes -> {"absent", "pending", "active", "completed", "failed", "cancelled"}]
    BY <1>3 DEF Snapshot
<1>7. seen \in SUBSET Nodes /\ deps \in [Nodes -> SUBSET Nodes]
      /\ mood \in {"active", "draining", "exhausted"}
    BY <1>3 DEF Snapshot, Unseen, Having, Onto
<1>8. \A n \in Nodes : s.deps[n] \subseteq deps[n]
    OBVIOUS
<1> HIDE DEF mood, node, seen, deps
<1>9. t \in Snapshot /\ t.tries = s.tries /\ t.deps = deps /\ t.node = node
    BY <1>3, <1>6, <1>7 DEF Snapshot
<1>10. \A n \in Nodes : node[n] = IF n \in added THEN "pending" ELSE s.node[n]
    BY DEF node
<1>11. Sound(t, finished, failures)
    BY <1>3, <1>8, <1>9, <1>10, PutBack DEF Fresh
<1>12. SameCancelled(t, mem)
    BY <1>3, <1>5, <1>9, <1>10 DEF Fresh, SameCancelled
<1>13. QED
    BY <1>2, <1>4, <1>11, <1>12, LoopWrites DEF Fresh

LEMMA PlannerFailsInv == ASSUME Inv, PlannerFails PROVE Inv'
<1>1. Rest /\ LoopOK /\ main \in Main /\ main.at = "asking"
    BY DEF Inv, LoopOK, PlannerFails
<1>2. Rest' /\ UNCHANGED <<mem, disk, job, finished, failures>>
    BY <1>1, Numbers DEF PlannerFails, Rest, Fault
<1> DEFINE s == main.snap
           errs == s.errs + 1
           mood == IF errs >= MaxErrors THEN "exhausted" ELSE "draining"
           t == [s EXCEPT !.errs = errs, !.mood = mood]
<1>3. Fresh(s) /\ s \in Snapshot /\ s.errs < MaxErrors
    BY <1>1 DEF LoopOK, Fresh, Sound
<1>4. main' = [main EXCEPT !.at = "planned", !.snap = t]
    BY DEF PlannerFails, Writes
<1>5. errs \in 0..MaxErrors /\ mood \in {"active", "draining", "exhausted"}
    BY <1>3, Numbers DEF Snapshot
<1> HIDE DEF errs, mood
<1>6. t \in Snapshot /\ t.tries = s.tries /\ t.deps = s.deps /\ t.node = s.node
    BY <1>3, <1>5 DEF Snapshot
<1>7. Sound(t, finished, failures) /\ SameCancelled(t, s)
    BY <1>3, <1>6, Marked DEF Fresh
<1>8. Fresh(t)
    BY <1>3, <1>7 DEF Fresh, SameCancelled
<1>9. QED
    BY <1>2, <1>4, <1>8, LoopWrites

LEMMA PlannerDoneInv == ASSUME Inv, PlannerDone PROVE Inv'
<1>1. Shared /\ LoopOK /\ JobsOK /\ Rest /\ main \in Main
    BY DEF Inv, LoopOK
<1>2. Rest' /\ UNCHANGED <<job, finished, failures>> /\ mem' = main.snap /\ disk' = main.snap
    BY <1>1 DEF PlannerDone, Rest
<1>3. Fresh(main.snap)
    BY <1>1 DEF LoopOK, PlannerDone, Writing
<1>4. main' \in Main /\ main'.at = "choose"
    BY <1>1 DEF PlannerDone, Main
<1>5. LoopOK' /\ TodoOK'
    BY <1>4, Places DEF LoopOK, TodoOK, Writing
<1>6. QED
    BY <1>1, <1>2, <1>3, <1>5, JobsStay DEF Inv, Shared, Fresh

LEMMA FinishInv == ASSUME Inv, Finish PROVE Inv'
<1>1. Shared /\ JobsOK /\ Rest /\ Complete(mem) /\ Active = {}
    BY DEF Inv, Finish, Completable
<1>2. Rest' /\ UNCHANGED <<mem, job, finished, failures>> /\ disk' = [mem EXCEPT !.run = "completed"]
    BY <1>1 DEF Finish, Rest
<1>3. main' \in Main /\ main'.at = "completed"
    BY LoopAt DEF Finish, Over
<1>4. Having(mem', {"pending", "active", "failed"}) = {} /\ Active' = {}
    BY <1>1, <1>2 DEF Complete, Having, Active
<1>5. LoopOK' /\ TodoOK'
    BY <1>3, <1>4, Places DEF LoopOK, TodoOK, Writing
<1>6. Sound(disk', finished, failures)
    <2>1. disk' \in Snapshot /\ disk'.node = mem.node /\ disk'.tries = mem.tries /\ disk'.deps = mem.deps
        BY <1>1, <1>2 DEF Shared, Sound, Snapshot
    <2>2. QED
        BY <1>1, <2>1, Marked DEF Shared
<1>7. QED
    BY <1>1, <1>2, <1>5, <1>6, JobsStay, SameSelf DEF Inv, Shared

LEMMA PauseInv ==
    ASSUME Inv, NEW at \in {"errors", "blocked"}, Pause(at) PROVE Inv'
<1>1. Shared /\ Rest
    BY DEF Inv
<1>2. Rest' /\ UNCHANGED <<mem, finished, failures>>
    BY <1>1 DEF Pause, Rest
<1>3. main' \in Main /\ main'.at = at
    BY LoopAt DEF Pause, Over
<1>4. LoopOK' /\ TodoOK'
    BY <1>3, Places DEF LoopOK, TodoOK, Writing
<1>5. Sound(disk', finished, failures)
    <2>1. disk' \in Snapshot /\ disk'.node = disk.node /\ disk'.tries = disk.tries /\ disk'.deps = disk.deps
        BY <1>1 DEF Pause, Shared, Sound, Snapshot
    <2>2. QED
        BY <1>1, <2>1, Marked DEF Shared
<1>6. QED
    BY <1>1, <1>2, <1>4, <1>5, NoJobs DEF Inv, Shared, Pause

LEMMA WaitInv == ASSUME Inv, Wait PROVE Inv'
<1>1. Shared /\ LoopOK /\ JobsOK /\ Rest /\ main \in Main /\ ~TooManyErrors
    BY DEF Inv, LoopOK, Wait
<1>2. Rest' /\ UNCHANGED <<mem, disk, job, finished, failures>>
    BY <1>1 DEF Wait, Rest
<1>3. main' \in Main /\ main'.at = "race" /\ main'.errs < MaxErrors
    BY <1>1, Numbers DEF Wait, Goes, Main, TooManyErrors
<1>4. LoopOK' /\ TodoOK'
    BY <1>3, Places DEF LoopOK, TodoOK, Writing
<1>5. QED
    BY <1>1, <1>2, <1>4, JobsStay, SameSelf DEF Inv, Shared

LEMMA ThrownInv == ASSUME Inv, Thrown PROVE Inv'
<1>1. Shared /\ JobsOK /\ Rest
    BY DEF Inv
<1>2. Rest' /\ UNCHANGED <<mem, job, finished, failures>>
    BY <1>1 DEF Thrown, Rest
<1>3. main' \in Main /\ main'.at = "cancelled"
    BY LoopAt DEF Thrown, Over
<1>4. LoopOK' /\ TodoOK'
    BY <1>3, Places DEF LoopOK, TodoOK, Writing
<1>5. Sound(disk', finished, failures)
    BY <1>1, CancelledSound DEF Thrown, Shared
<1>6. QED
    BY <1>1, <1>2, <1>4, <1>5, JobsStay, SameSelf DEF Inv, Shared

LEMMA CancelWritesInv == ASSUME Inv, CancelWrites PROVE Inv'
<1>1. Shared /\ LoopOK /\ TodoOK /\ JobsOK /\ Rest
    BY DEF Inv
<1>2. Rest' /\ UNCHANGED <<mem, main, job, finished, failures>>
    BY <1>1, Numbers DEF CancelWrites, Rest, Fault
<1>3. Sound(disk', finished, failures)
    BY <1>1, CancelledSound DEF CancelWrites, Shared
<1>4. LoopOK' /\ TodoOK'
    BY <1>1, <1>2 DEF LoopOK, TodoOK, MayStart, Fresh, DepsMet, Active
<1>5. QED
    BY <1>1, <1>2, <1>3, <1>4, JobsStay, SameSelf DEF Inv, Shared

LEMMA AbortInv == ASSUME Inv, Abort PROVE Inv'
<1>1. Shared /\ LoopOK /\ TodoOK /\ JobsOK /\ Rest
    BY DEF Inv
<1>2. Rest' /\ UNCHANGED <<mem, disk, main, job, finished, failures>>
    BY <1>1 DEF Abort, Rest
<1>3. LoopOK' /\ TodoOK'
    BY <1>1, <1>2 DEF LoopOK, TodoOK, MayStart, Fresh, DepsMet, Active
<1>4. QED
    BY <1>1, <1>2, <1>3, JobsStay, SameSelf DEF Inv, Shared

LEMMA CrashInv == ASSUME Inv, Crash PROVE Inv'
<1>1. Shared /\ Rest
    BY DEF Inv
<1>2. Rest' /\ UNCHANGED <<mem, disk, finished, failures>>
    BY <1>1, Numbers DEF Crash, Rest, Fault
<1>3. main' \in Main /\ main'.at = "down"
    BY LoopAt DEF Crash, Over
<1>4. LoopOK' /\ TodoOK'
    BY <1>3, Places DEF LoopOK, TodoOK, Writing
<1>5. QED
    BY <1>1, <1>2, <1>4, NoJobs DEF Inv, Shared, Crash

-----------------------------------------------------------------------------
(* Steps that start, move and end jobs. *)

\* The job of n moves, the shared snapshot may follow, and nothing else changes for
\* the jobs of the other nodes.
LEMMA JobMoves ==
    ASSUME NEW n \in Nodes, NEW j \in Job, Inv, job' = [job EXCEPT ![n] = j],
           Rest', finished \subseteq finished', \A m \in Nodes : failures[m] <= failures'[m],
           SameCancelled(mem', mem), JobOK(n)'
    PROVE  JobsOK'
<1>1. JobsOK /\ Rest
    BY DEF Inv
<1>2. job' \in [Nodes -> Job \cup {None}]
    BY <1>1 DEF JobsOK
<1>3. ASSUME NEW m \in Active' PROVE JobOK(m)'
    <2>1. CASE m = n
        BY <2>1
    <2>2. CASE m # n
        <3>1. m \in Nodes /\ job'[m] = job[m] /\ job[m] # None
            BY <1>1, <1>3, <2>2 DEF Active, JobsOK
        <3>2. JobOK(m)
            BY <1>1, <3>1 DEF JobsOK, Active
        <3>3. QED
            BY <1>1, <3>1, <3>2, JobStays
    <2>3. QED
        BY <2>1, <2>2
<1>4. QED
    BY <1>2, <1>3 DEF JobsOK

\* The loop, when a job that runs moves on.
LEMMA LoopStays ==
    ASSUME NEW n \in Active, NEW j, Inv, job' = [job EXCEPT ![n] = j], main' = main,
           Rest', finished \subseteq finished', \A m \in Nodes : failures[m] <= failures'[m],
           SameCancelled(mem', mem)
    PROVE  LoopOK' /\ TodoOK'
<1>1. LoopOK /\ TodoOK /\ Rest /\ JobsOK /\ main \in Main
    BY DEF Inv, LoopOK
<1>2. n \in Nodes /\ job[n] # None
    BY DEF Active
<1>3. LoopOK'
    <2>1. main.at # "completed"
        BY <1>1 DEF LoopOK
    <2>2. main.at \in Writing \cup {"asking"} => Fresh(main.snap)'
        BY <1>1, FreshStays DEF LoopOK
    <2>3. QED
        BY <1>1, <2>1, <2>2 DEF LoopOK, Fresh
<1>4. TodoOK'
    <2>1. SUFFICES ASSUME main.at \in {"dispatch", "starting"}, NEW m \in DOMAIN main.todo
                   PROVE  MayStart(m, main.todo[m])'
        BY DEF TodoOK
    <2>2. PICK e \in Listed : e = main.todo[m]
        BY <1>1, TodosAre DEF Main, Todos
    <2>3. m \in Nodes
        BY <1>1, TodosAre DEF Main, Todos
    <2>4. MayStart(m, e)
        BY <1>1, <2>1, <2>2 DEF TodoOK
    <2>5. job'[m] = None
        BY <1>1, <1>2, <2>3, <2>4 DEF JobsOK, MayStart
    <2>6. MayStart(m, e)'
        BY <1>1, <2>3, <2>4, <2>5, MayStartStays
    <2>7. QED
        BY <2>2, <2>6 DEF MayStart, DepsMet
<1>5. QED
    BY <1>3, <1>4

\* A job that changes nothing but its own state, when the histories stay.
LEMMA JobStep1 ==
    ASSUME NEW n \in Active, NEW j \in Job, Inv, job' = [job EXCEPT ![n] = j],
           UNCHANGED <<mem, disk, main, finished, failures>>, Rest', JobOK(n)'
    PROVE  Inv'
<1>1. Rest /\ Shared /\ n \in Nodes
    BY DEF Inv, Active
<1>2. finished \subseteq finished' /\ \A m \in Nodes : failures[m] <= failures'[m]
    BY <1>1, HistoryStays
<1>3. SameCancelled(mem', mem)
    BY SameSelf
<1>4. QED
    BY <1>1, <1>2, <1>3, JobMoves, LoopStays DEF Inv, Shared

LEMMA JobWroteInv == ASSUME Inv, NEW n \in Active, JobWrote(n) PROVE Inv'
<1>1. Rest /\ Shared /\ JobsOK /\ JobOK(n) /\ n \in Nodes
    BY DEF Inv, JobsOK, Active
<1> DEFINE at == After(job[n].at)
           snap == IF at = "announcing" THEN job[n].snap ELSE None
           j == [job[n] EXCEPT !.at = at, !.snap = snap]
<1>2. Rest' /\ UNCHANGED <<main, finished, failures>> /\ mem' = job[n].snap /\ disk' = job[n].snap
    BY <1>1 DEF JobWrote, Rest
<1>3. job[n] \in Job /\ job[n].at \in Saving /\ Fresh(job[n].snap)
    BY <1>1 DEF JobWrote, JobOK
<1>4. job' = [job EXCEPT ![n] = j]
    BY <1>1, <1>3 DEF JobWrote, JobGoes, JobsOK
<1>5. at \in {"announcing", "working", "done", "erred"}
    BY <1>3 DEF Saving, After
<1>6. snap \in Snapshot \cup {None}
    BY <1>3 DEF Fresh, Sound
<1> HIDE DEF at
<1>7. j \in Job /\ j.at = at /\ j.snap = snap /\ j.tries = job[n].tries
    BY <1>3, <1>5, <1>6 DEF Job
<1>8. SameCancelled(mem', mem) /\ Sound(mem', finished, failures)
    BY <1>2, <1>3 DEF Fresh
<1>9. finished \subseteq finished' /\ \A m \in Nodes : failures[m] <= failures'[m]
    BY <1>1, <1>2, HistoryStays
<1>10. JobOK(n)'
    <2>1. job'[n] = j
        BY <1>1, <1>4 DEF JobsOK
    <2>2. at = "announcing" => snap = job[n].snap
        OBVIOUS
    <2>3. Sound(job[n].snap, finished', failures') /\ SameCancelled(job[n].snap, mem')
        BY <1>2, <1>3, SameSelf DEF Fresh
    <2>4. j.at \in Saving \cup {"announcing"} => j.snap = job[n].snap
        BY <1>5, <1>7, <2>2 DEF Saving
    <2>5. mem'.node[n] # "cancelled"
        BY <1>1, <1>8 DEF JobOK, SameCancelled
    <2>6. j.tries <= failures'[n]
        BY <1>1, <1>2, <1>7 DEF JobOK
    <2>7. QED
        BY <1>7, <2>1, <2>3, <2>4, <2>5, <2>6 DEF JobOK, Fresh
<1> HIDE DEF j
<1>11. QED
    BY <1>1, <1>2, <1>4, <1>7, <1>8, <1>9, <1>10, JobMoves, LoopStays DEF Inv, Shared

LEMMA LinkedInv == ASSUME Inv, NEW n \in Active, Linked(n) PROVE Inv'
<1>1. Rest /\ Shared /\ JobsOK /\ JobOK(n) /\ n \in Nodes
    BY DEF Inv, JobsOK, Active
<1> DEFINE j == [job[n] EXCEPT !.at = "linking", !.snap = mem, !.linked = TRUE]
<1>2. Rest' /\ UNCHANGED <<mem, disk, main, finished, failures>>
    BY <1>1 DEF Linked, Rest
<1>3. job' = [job EXCEPT ![n] = j]
    BY <1>1 DEF Linked, JobsOK
<1>4. j \in Job /\ j.snap = mem /\ j.tries = job[n].tries
    BY <1>1 DEF JobOK, Job, Shared, Sound, Saving
<1>5. job'[n] = j
    BY <1>1, <1>3 DEF JobsOK
<1> HIDE DEF j
<1>6. Fresh(mem)'
    BY <1>1, <1>2, SameSelf DEF Fresh, Shared
<1>7. JobOK(n)'
    BY <1>1, <1>2, <1>4, <1>5, <1>6 DEF JobOK, Fresh
<1>8. QED
    BY <1>2, <1>3, <1>4, <1>7, JobStep1

LEMMA RejectedInv == ASSUME Inv, NEW n \in Active, Rejected(n) PROVE Inv'
<1>1. Rest /\ Shared /\ JobsOK /\ JobOK(n) /\ n \in Nodes
    BY DEF Inv, JobsOK, Active
<1> DEFINE j == [job[n] EXCEPT !.at = "rejected", !.snap = None]
<1>2. Rest' /\ UNCHANGED <<mem, disk, main, finished, failures>>
    BY <1>1 DEF Rejected, Rest
<1>3. job' = [job EXCEPT ![n] = j]
    BY <1>1 DEF Rejected, JobGoes, JobsOK
<1>4. j \in Job /\ j.at = "rejected" /\ j.tries = job[n].tries
    BY <1>1 DEF JobOK, Job
<1>5. job'[n] = j
    BY <1>1, <1>3 DEF JobsOK
<1> HIDE DEF j
<1>6. JobOK(n)'
    BY <1>1, <1>2, <1>4, <1>5 DEF JobOK, Saving
<1>7. QED
    BY <1>2, <1>3, <1>4, <1>6, JobStep1

LEMMA AnsweredInv == ASSUME Inv, NEW n \in Active, Answered(n) PROVE Inv'
<1>1. Rest /\ Shared /\ JobsOK /\ JobOK(n) /\ n \in Nodes
    BY DEF Inv, JobsOK, Active
<1> DEFINE t == Enter(mem, n, "completed", job[n].tries)
           j == [job[n] EXCEPT !.at = "completing", !.snap = t]
<1>2. Rest' /\ UNCHANGED <<mem, disk, main, failures>> /\ finished' = finished \cup {n}
    BY <1>1 DEF Answered, Rest
<1>3. JobWrites(n, "completing", t)
    BY DEF Answered
<1>4. finished \subseteq finished' /\ \A m \in Nodes : failures[m] <= failures'[m]
    <2>1. \A m \in Nodes : failures[m] \in 0..MaxErrors
        BY <1>1 DEF Rest, Histories
    <2>2. QED
        BY <1>2, <2>1, Numbers
<1>5. Sound(mem, finished', failures) /\ Sound(disk, finished', failures)
    <2>1. failures \in Histories
        BY <1>1 DEF Rest
    <2>2. QED
        BY <1>1, <1>2, <1>4, <2>1, SoundStays DEF Shared
<1>6. Sound(t, finished', failures) /\ SameCancelled(t, mem)
    <2>1. job[n].tries \in 0..MaxErrors /\ job[n].tries <= failures[n] /\ mem.node[n] # "cancelled"
        BY <1>1 DEF JobOK, Job
    <2>2. failures \in Histories /\ n \in finished'
        BY <1>1, <1>2 DEF Rest
    <2>3. QED
        BY <1>1, <1>5, <2>1, <2>2, Entered
<1> HIDE DEF t
<1>7. j \in Job /\ j.at = "completing" /\ j.snap = t /\ j.tries = job[n].tries
    BY <1>1, <1>6 DEF JobOK, Job, Sound, Saving
<1>8. job' = [job EXCEPT ![n] = j] /\ job'[n] = j
    BY <1>1, <1>3 DEF JobsOK, JobWrites
<1> HIDE DEF j
<1>9. JobOK(n)'
    BY <1>1, <1>2, <1>6, <1>7, <1>8 DEF JobOK, Fresh
<1>10. SameCancelled(mem', mem)
    BY <1>2, SameSelf
<1>11. Shared'
    BY <1>2, <1>5 DEF Shared
<1>12. QED
    BY <1>1, <1>2, <1>4, <1>7, <1>8, <1>9, <1>10, <1>11, JobMoves, LoopStays DEF Inv

LEMMA FailedInv == ASSUME Inv, NEW n \in Active, Failed(n) PROVE Inv'
<1>1. Rest /\ Shared /\ JobsOK /\ JobOK(n) /\ n \in Nodes
    BY DEF Inv, JobsOK, Active
<1> DEFINE v == IF Tries(n) >= MaxErrors THEN "failed" ELSE "pending"
           k == IF Tries(n) > MaxErrors THEN MaxErrors ELSE Tries(n)
           t == Enter(mem, n, v, k)
           j == [job[n] EXCEPT !.at = "failing", !.snap = t]
<1>2. UNCHANGED <<mem, disk, main, finished>>
      /\ failures' = [failures EXCEPT ![n] = IF @ < MaxErrors THEN @ + 1 ELSE @]
    BY <1>1 DEF Failed
<1>3. JobWrites(n, "failing", t)
    BY DEF Failed
<1>4. failures[n] \in 0..MaxErrors /\ job[n].tries \in 0..MaxErrors /\ job[n].tries <= failures[n]
    BY <1>1 DEF Rest, Histories, JobOK, Job
<1>5. failures' \in Histories /\ failures'[n] = IF failures[n] < MaxErrors THEN failures[n] + 1 ELSE failures[n]
    BY <1>1, <1>2, <1>4, Numbers DEF Rest, Histories
<1>6. Rest'
    BY <1>1, <1>2, <1>5, Numbers DEF Failed, Rest, Fault
<1>7. finished \subseteq finished' /\ \A m \in Nodes : failures[m] <= failures'[m]
    <2>1. \A m \in Nodes : failures[m] \in 0..MaxErrors
        BY <1>1 DEF Rest, Histories
    <2>2. \A m \in Nodes : m # n => failures'[m] = failures[m]
        BY <1>1, <1>2 DEF Rest, Histories
    <2>3. QED
        BY <1>2, <1>4, <1>5, <2>1, <2>2, Numbers
<1>8. k \in 0..MaxErrors /\ k <= failures'[n] /\ (v = "failed" => failures'[n] = MaxErrors)
    BY <1>4, <1>5, Numbers DEF Tries
<1>9. v \in {"pending", "failed"}
    OBVIOUS
<1>10. Sound(mem, finished', failures') /\ Sound(disk, finished', failures')
    <2>1. failures \in Histories
        BY <1>1 DEF Rest
    <2>2. QED
        BY <1>1, <1>5, <1>7, <2>1, SoundStays DEF Shared
<1> HIDE DEF v, k
<1>11. Sound(t, finished', failures') /\ SameCancelled(t, mem)
    <2>1. mem.node[n] # "cancelled"
        BY <1>1 DEF JobOK
    <2>2. QED
        BY <1>1, <1>5, <1>8, <1>9, <1>10, <2>1, Entered
<1> HIDE DEF t
<1>12. j \in Job /\ j.at = "failing" /\ j.snap = t /\ j.tries = job[n].tries
    BY <1>1, <1>11 DEF JobOK, Job, Sound, Saving
<1>13. job' = [job EXCEPT ![n] = j] /\ job'[n] = j
    BY <1>1, <1>3 DEF JobsOK, JobWrites
<1> HIDE DEF j
<1>14. JobOK(n)'
    <2>1. job[n].tries <= failures'[n]
        BY <1>4, <1>5, Numbers
    <2>2. QED
        BY <1>1, <1>2, <1>11, <1>12, <1>13, <2>1 DEF JobOK, Fresh
<1>15. SameCancelled(mem', mem)
    BY <1>2, SameSelf
<1>16. Shared'
    BY <1>2, <1>10 DEF Shared
<1>17. QED
    BY <1>1, <1>2, <1>6, <1>7, <1>12, <1>13, <1>14, <1>15, <1>16, JobMoves, LoopStays DEF Inv

\* The loop has heard of a start: it takes the snapshot of the job.
LEMMA AnnouncedInv == ASSUME Inv, NEW n \in Active, Announced(n) PROVE Inv'
<1>1. Rest /\ Shared /\ LoopOK /\ TodoOK /\ JobsOK /\ JobOK(n) /\ n \in Nodes /\ main \in Main
    BY DEF Inv, JobsOK, Active, LoopOK
<1> DEFINE j == [job[n] EXCEPT !.at = "working", !.snap = None]
<1>2. Rest' /\ UNCHANGED <<disk, finished, failures>> /\ mem' = job[n].snap /\ main.at = "starting"
    BY <1>1 DEF Announced, Rest
<1>3. Fresh(job[n].snap)
    BY <1>1 DEF Announced, JobOK
<1>4. job' = [job EXCEPT ![n] = j]
    BY <1>1 DEF Announced, JobGoes, JobsOK
<1>5. j \in Job /\ j.at = "working" /\ j.tries = job[n].tries
    BY <1>1 DEF JobOK, Job
<1>6. job'[n] = j
    BY <1>1, <1>4 DEF JobsOK
<1> HIDE DEF j
<1>7. SameCancelled(mem', mem) /\ Sound(mem', finished, failures)
    BY <1>2, <1>3 DEF Fresh
<1>8. finished \subseteq finished' /\ \A m \in Nodes : failures[m] <= failures'[m]
    BY <1>1, <1>2, HistoryStays
<1>9. JobOK(n)'
    <2>1. mem'.node[n] # "cancelled"
        BY <1>1, <1>7 DEF JobOK, SameCancelled
    <2>2. QED
        BY <1>1, <1>2, <1>5, <1>6, <2>1 DEF JobOK, Saving
<1>10. LoopOK' /\ TodoOK'
    <2>1. CASE main' = [main EXCEPT !.at = "dispatch", !.node = None]
        <3>1. main' \in Main /\ main'.at = "dispatch" /\ main'.todo = main.todo
            BY <1>1, <2>1 DEF Main
        <3>2. ASSUME NEW m \in DOMAIN main.todo
              PROVE  MayStart(m, main.todo[m])'
            <4>1. PICK e \in Listed : e = main.todo[m]
                BY <1>1, TodosAre DEF Main, Todos
            <4>2. m \in Nodes
                BY <1>1, TodosAre DEF Main, Todos
            <4>3. MayStart(m, e)
                BY <1>1, <1>2, <4>1 DEF TodoOK
            <4>4. job'[m] = None
                BY <1>1, <1>4, <4>2, <4>3 DEF JobsOK, Active, MayStart
            <4>5. MayStart(m, e)'
                BY <1>1, <1>2, <1>7, <1>8, <4>2, <4>3, <4>4, MayStartStays
            <4>6. QED
                BY <3>1, <4>1, <4>5 DEF MayStart, DepsMet
        <3>3. QED
            BY <3>1, <3>2, Places DEF LoopOK, TodoOK, Writing
    <2>2. CASE main' = [main EXCEPT !.at = "top", !.node = None, !.todo = <<>>]
        <3>1. main' \in Main /\ main'.at = "top"
            BY <1>1, <2>2, NoTodo DEF Main, Todos
        <3>2. QED
            BY <3>1, Places DEF LoopOK, TodoOK
    <2>3. QED
        BY <2>1, <2>2 DEF Announced
<1>11. QED
    BY <1>1, <1>2, <1>4, <1>5, <1>7, <1>8, <1>9, <1>10, JobMoves DEF Inv, Shared

\* What is listed for dispatch may start.
LEMMA TodoMayStart ==
    ASSUME Inv, NEW n \in DOMAIN Todo,
           main.at \in {"choose", "dispatch"}
    PROVE  n \in Nodes /\ Todo[n] \in Listed /\ MayStart(n, Todo[n])
<1>1. Shared /\ LoopOK /\ TodoOK /\ JobsOK /\ Rest /\ main \in Main
    BY DEF Inv, LoopOK
<1>2. CASE main.at = "choose"
    <2>1. n \in Ready(mem) /\ n \notin Active
          /\ Todo[n] = [tries |-> mem.tries[n], deps |-> mem.deps[n]]
        BY <1>2 DEF Todo, ToDispatch
    <2>2. n \in Nodes /\ mem.node[n] = "pending" /\ mem.deps[n] \subseteq Settled(mem)
        BY <2>1 DEF Ready, Having
    <2>3. \A d \in mem.deps[n] : d \in Nodes /\ mem.node[d] \in {"completed", "failed", "cancelled"}
        BY <2>2 DEF Settled, Having
    <2>4. DepsMet(mem.deps[n])
        BY <1>1, <2>3 DEF DepsMet, Shared, Sound
    <2>5. mem.tries[n] \in 0..MaxErrors /\ mem.tries[n] <= failures[n]
          /\ mem.deps[n] \in SUBSET Nodes /\ Deps[n] \subseteq mem.deps[n]
        BY <1>1, <2>2 DEF Shared, Sound, Snapshot
    <2>6. job[n] = None
        BY <2>1, <2>2 DEF Active
    <2>7. QED
        BY <2>1, <2>2, <2>4, <2>5, <2>6 DEF Listed, MayStart
<1>3. CASE main.at = "dispatch"
    <2>1. n \in DOMAIN main.todo /\ Todo[n] = main.todo[n]
        BY <1>3 DEF Todo
    <2>2. n \in Nodes /\ main.todo[n] \in Listed
        BY <1>1, <2>1, TodosAre DEF Main, Todos
    <2>3. QED
        BY <1>1, <1>3, <2>1, <2>2 DEF TodoOK
<1>4. QED
    BY <1>2, <1>3

LEMMA StartInv == ASSUME Inv, NEW n \in Nodes, Start(n) PROVE Inv'
<1>1. Rest /\ Shared /\ LoopOK /\ JobsOK /\ main \in Main
    BY DEF Inv, LoopOK
<1> DEFINE todo == [m \in DOMAIN Todo \ {n} |-> Todo[m]]
           t == Enter(mem, n, "active", mem.tries[n])
           j == [at |-> IF Aborted THEN "rejected" ELSE "starting",
                 snap |-> IF Aborted THEN None ELSE t,
                 linked |-> FALSE, tries |-> Todo[n].tries]
<1>2. main.at \in {"choose", "dispatch"} /\ n \in DOMAIN Todo
    BY DEF Start
<1>3. UNCHANGED <<mem, disk, finished, failures>> /\ Rest'
    BY <1>1 DEF Start, Rest
<1>4. job' = [job EXCEPT ![n] = j]
    BY DEF Start
<1>5. main' = [main EXCEPT !.at = "starting", !.node = n, !.todo = todo]
    BY DEF Start
<1>6. \A m \in DOMAIN Todo : m \in Nodes /\ Todo[m] \in Listed /\ MayStart(m, Todo[m])
    BY <1>2, TodoMayStart
<1>7. Fresh(t)
    <2>1. mem.tries[n] \in 0..MaxErrors /\ mem.tries[n] <= failures[n] /\ failures \in Histories
        BY <1>1 DEF Shared, Sound, Snapshot, Rest
    <2>2. mem.node[n] # "cancelled"
        BY <1>2, <1>6 DEF MayStart
    <2>3. QED
        BY <1>1, <2>1, <2>2, Entered DEF Shared, Fresh
<1> HIDE DEF t
<1>8. Todo[n].tries \in 0..MaxErrors /\ Todo[n].tries <= failures[n] /\ mem.node[n] # "cancelled"
    BY <1>2, <1>6 DEF Listed, MayStart
<1>9. j \in Job /\ j.tries = Todo[n].tries
      /\ (j.at \in Saving \cup {"announcing"} => j.snap = t)
    BY <1>7, <1>8 DEF Job, Fresh, Sound, Saving
<1>10. job'[n] = j
    BY <1>1, <1>4 DEF JobsOK
<1> HIDE DEF j
<1>11. JobOK(n)'
    BY <1>3, <1>7, <1>8, <1>9, <1>10 DEF JobOK, Fresh
<1>12. finished \subseteq finished' /\ \A m \in Nodes : failures[m] <= failures'[m]
    BY <1>1, <1>3, HistoryStays
<1>13. JobsOK'
    BY <1>3, <1>4, <1>9, <1>11, <1>12, SameSelf, JobMoves
<1>14. DOMAIN todo = DOMAIN Todo \ {n} /\ (\A m \in DOMAIN todo : todo[m] = Todo[m]) /\ todo \in Todos
    <2>1. DOMAIN todo \in SUBSET Nodes
        BY <1>6
    <2>2. todo \in [DOMAIN todo -> Listed]
        BY <1>6
    <2>3. QED
        BY <2>1, <2>2 DEF Todos
<1> HIDE DEF todo
<1>15. main' \in Main /\ main'.at = "starting" /\ main'.todo = todo
    BY <1>1, <1>5, <1>14 DEF Main, Todos
<1>16. TodoOK'
    <2>1. ASSUME NEW m \in DOMAIN todo PROVE MayStart(m, main.todo[m])'
        <3>1. m \in DOMAIN Todo /\ m # n /\ todo[m] = Todo[m]
            BY <1>14, <2>1
        <3>2. PICK e \in Listed : e = todo[m] /\ MayStart(m, e)
            BY <1>6, <3>1
        <3>3. job'[m] = job[m]
            BY <1>1, <1>4, <1>6, <3>1 DEF JobsOK
        <3>4. MayStart(m, e)'
            BY <1>3, <3>2, <3>3 DEF MayStart, DepsMet
        <3>5. QED
            BY <1>15, <3>2, <3>4 DEF MayStart, DepsMet
    <2>2. QED
        BY <1>15, <2>1 DEF TodoOK
<1>17. LoopOK'
    BY <1>15, Places DEF LoopOK, Writing
<1>18. QED
    BY <1>1, <1>3, <1>13, <1>16, <1>17 DEF Inv, Shared

LEMMA CollectInv == ASSUME Inv, NEW n \in Nodes, Collect(n) PROVE Inv'
<1>1. Rest /\ Shared /\ LoopOK /\ JobsOK /\ main \in Main /\ main.errs < MaxErrors
    BY DEF Inv, LoopOK, Collect
<1>2. Rest' /\ UNCHANGED <<mem, disk, finished, failures>> /\ job' = [job EXCEPT ![n] = None]
    BY <1>1 DEF Collect, Rest
<1>3. main' \in Main /\ main'.at = "top"
    <2>1. main.errs \in 0..MaxErrors
        BY <1>1 DEF Main
    <2>2. PICK e \in {0, main.errs + 1} : main' = [main EXCEPT !.at = "top", !.errs = e]
        BY <1>1 DEF Collect
    <2>3. e \in 0..MaxErrors
        BY <1>1, <2>1, <2>2, Numbers
    <2>4. QED
        BY <1>1, <2>2, <2>3 DEF Main
<1>4. LoopOK' /\ TodoOK'
    BY <1>3, Places DEF LoopOK, TodoOK
<1>5. finished \subseteq finished' /\ \A m \in Nodes : failures[m] <= failures'[m]
    BY <1>1, <1>2, HistoryStays
<1>6. JobsOK'
    <2>1. job' \in [Nodes -> Job \cup {None}]
        BY <1>1, <1>2 DEF JobsOK
    <2>2. ASSUME NEW m \in Active' PROVE JobOK(m)'
        <3>1. m \in Active /\ m \in Nodes /\ job'[m] = job[m]
            BY <1>1, <1>2, <2>2 DEF Active, JobsOK
        <3>2. JobOK(m)
            BY <1>1, <3>1 DEF JobsOK
        <3>3. QED
            BY <1>1, <1>2, <1>5, <3>1, <3>2, SameSelf, JobStays
    <2>3. QED
        BY <2>1, <2>2 DEF JobsOK
<1>7. QED
    BY <1>1, <1>2, <1>4, <1>6 DEF Inv, Shared

\* A life begins with what the file holds.
LEMMA ReviveInv ==
    ASSUME Inv, NEW s, Revive(s), Sound(s, finished, failures) PROVE Inv'
<1>1. Rest
    BY DEF Inv
<1>2. UNCHANGED <<finished, failures>> /\ mem' = s /\ disk' = s
    BY DEF Revive
<1>3. Rest'
    <2>1. lives' \in 0..Lives
        BY <1>1, Numbers DEF Rest, Revive
    <2>2. cancel' \in {"none", "written", "aborted"} /\ faults' = faults
        BY <1>1 DEF Rest, Revive
    <2>3. QED
        BY <1>1, <1>2, <2>1, <2>2 DEF Rest
<1>4. main' \in Main /\ main'.at = "top"
    BY LoopAt DEF Revive
<1>5. LoopOK' /\ TodoOK'
    BY <1>4, Places DEF LoopOK, TodoOK
<1>6. QED
    BY <1>2, <1>3, <1>5, NoJobs DEF Inv, Shared, Revive

LEMMA ResetSound ==
    ASSUME NEW s, NEW S, NEW fin, NEW fl, Sound(s, fin, fl)
    PROVE  Sound(Reset(s, S), fin, fl)
<1> DEFINE node == [n \in Nodes |-> IF s.node[n] \in S THEN "pending" ELSE s.node[n]]
           t == [s EXCEPT !.node = node, !.run = "running"]
<1>1. s \in Snapshot /\ t = Reset(s, S)
    BY DEF Sound, Reset
<1>2. node \in [Nodes -> {"absent", "pending", "active", "completed", "failed", "cancelled"}]
    BY <1>1 DEF Snapshot
<1>3. \A n \in Nodes : node[n] \in {s.node[n], "pending", "cancelled"}
    OBVIOUS
<1> HIDE DEF node
<1>4. t \in Snapshot /\ t.tries = s.tries /\ t.deps = s.deps /\ t.node = node
    BY <1>1, <1>2 DEF Snapshot
<1>5. Sound(t, fin, fl)
    BY <1>3, <1>4, PutBack
<1>6. QED
    BY <1>1, <1>5

LEMMA ResumeInv == ASSUME Inv, Resume PROVE Inv'
BY ReviveInv, ResetSound DEF Resume, Inv, Shared

LEMMA RetryInv == ASSUME Inv, NEW scope, Retry(scope) PROVE Inv'
<1> DEFINE s == Reset(disk, {"active"})
           node == [n \in Nodes |-> IF n \in scope /\ s.node[n] = "failed"
                                   THEN "pending" ELSE s.node[n]]
           t == [s EXCEPT !.node = node]
<1>1. Sound(s, finished, failures)
    BY ResetSound DEF Inv, Shared
<1>2. s \in Snapshot /\ Revive(t)
    BY <1>1 DEF Sound, Retry
<1> HIDE DEF s
<1>3. node \in [Nodes -> {"absent", "pending", "active", "completed", "failed", "cancelled"}]
    BY <1>2 DEF Snapshot
<1>4. \A n \in Nodes : node[n] \in {s.node[n], "pending", "cancelled"}
    OBVIOUS
<1> HIDE DEF node
<1>5. t \in Snapshot /\ t.tries = s.tries /\ t.deps = s.deps /\ t.node = node
    BY <1>2, <1>3 DEF Snapshot
<1>6. Sound(t, finished, failures)
    BY <1>1, <1>4, <1>5, PutBack
<1>7. QED
    BY <1>2, <1>6, ReviveInv

-----------------------------------------------------------------------------
(* The specification. *)

LEMMA StutterInv == ASSUME Inv, UNCHANGED vars PROVE Inv'
<1>1. Shared /\ LoopOK /\ TodoOK /\ JobsOK /\ Rest
    BY DEF Inv
<1>2. UNCHANGED <<mem, disk, main, job, cancel, lives, faults, finished, failures>>
    BY DEF vars
<1>3. LoopOK' /\ TodoOK'
    BY <1>1, <1>2 DEF LoopOK, TodoOK, MayStart, Fresh, DepsMet, Active
<1>4. Rest'
    BY <1>1, <1>2 DEF Rest
<1>5. QED
    BY <1>1, <1>2, <1>3, <1>4, JobsStay, SameSelf DEF Inv, Shared

LEMMA NextInv == Inv /\ [Next]_vars => Inv'
<1> SUFFICES ASSUME Inv, [Next]_vars PROVE Inv'
    OBVIOUS
<1>1. ASSUME MainStep PROVE Inv'
    <2>1. CASE Scan
        BY <2>1, ScanInv
    <2>2. CASE PlannerStarts
        BY <2>2, PlannerStartsInv
    <2>3. CASE \E added \in SUBSET Nodes : \E edges \in SUBSET Plannable :
                   \E exhausted \in BOOLEAN : PlannerAnswers(added, edges, exhausted)
        BY <2>3, PlannerAnswersInv
    <2>4. CASE PlannerFails
        BY <2>4, PlannerFailsInv
    <2>5. CASE PlannerDone
        BY <2>5, PlannerDoneInv
    <2>6. CASE Finish
        BY <2>6, FinishInv
    <2>7. CASE GiveUp
        BY <2>7, PauseInv DEF GiveUp
    <2>8. CASE Wait
        BY <2>8, WaitInv
    <2>9. CASE Blocked
        BY <2>9, PauseInv DEF Blocked
    <2>10. CASE \E n \in Nodes : Start(n)
        BY <2>10, StartInv
    <2>11. CASE \E n \in Nodes : Collect(n)
        BY <2>11, CollectInv
    <2>12. CASE Thrown
        BY <2>12, ThrownInv
    <2>13. QED
        BY <1>1, <2>1, <2>2, <2>3, <2>4, <2>5, <2>6, <2>7, <2>8, <2>9, <2>10, <2>11, <2>12 DEF MainStep
<1>2. ASSUME NEW n \in Active, JobStep(n) PROVE Inv'
    BY <1>2, JobWroteInv, AnnouncedInv, AnsweredInv, FailedInv, RejectedInv DEF JobStep
<1>3. CASE PlannerLinked
    BY <1>3, PlannerLinkedInv
<1>4. CASE \E n \in Active : Linked(n)
    BY <1>4, LinkedInv
<1>5. CASE Resume
    BY <1>5, ResumeInv
<1>6. CASE \E scope \in {Nodes} \cup {{n} : n \in Nodes} : Retry(scope)
    BY <1>6, RetryInv
<1>7. CASE Crash
    BY <1>7, CrashInv
<1>8. CASE CancelWrites
    BY <1>8, CancelWritesInv
<1>9. CASE Abort
    BY <1>9, AbortInv
<1>10. CASE UNCHANGED vars
    BY <1>10, StutterInv
<1>11. QED
    BY <1>1, <1>2, <1>3, <1>4, <1>5, <1>6, <1>7, <1>8, <1>9, <1>10 DEF Next

LEMMA InvHolds == Spec => []Inv
<1>1. Inv /\ [Next]_vars => Inv'
    BY NextInv
<1>2. QED
    BY InitInv, <1>1, PTL DEF Spec

\* Every snapshot, wherever it is, and the loop and the jobs keep their types.
THEOREM TypeCorrect == Spec => []TypeOK
<1>1. Inv => TypeOK
    <2>1. ASSUME Inv PROVE TypeOK
        <3>1. mem \in Snapshot /\ disk \in Snapshot
            BY <2>1 DEF Inv, Shared, Sound
        <3>2. main \in Main /\ job \in [Nodes -> Job \cup {None}]
            BY <2>1 DEF Inv, LoopOK, JobsOK
        <3>3. QED
            BY <2>1, <3>1, <3>2 DEF Inv, Rest, Histories, TypeOK
    <2>2. QED
        BY <2>1
<1>2. QED
    BY <1>1, InvHolds, PTL

\* A phase that counts as complete has the answer of every node of its graph that was
\* not cancelled: of all the snapshots that overwrote each other none invented one.
THEOREM NoAnswerInvented == Spec => []CompletionIsReal
<1>1. Inv => CompletionIsReal
    <2>1. SUFFICES ASSUME Inv, main.at = "completed"
                   PROVE  Having(mem, {"absent", "cancelled"}) \cup finished = Nodes
        BY DEF CompletionIsReal
    <2>2. Sound(mem, finished, failures) /\ finished \subseteq Nodes
        BY <2>1 DEF Inv, Shared, Rest
    <2>3. Having(mem, {"pending", "active", "failed"}) = {}
        BY <2>1 DEF Inv, LoopOK
    <2>4. \A n \in Nodes : mem.node[n] \in {"absent", "cancelled", "completed"}
        BY <2>2, <2>3 DEF Sound, Snapshot, Having
    <2>5. QED
        BY <2>2, <2>4 DEF Sound, Having
<1>2. QED
    BY <1>1, InvHolds, PTL

\* No other step calls runWorkflowNode.
LEMMA OnlyStartStarts ==
    ASSUME Inv, Next, NEW n \in Nodes, Starts(n) PROVE Start(n)
<1>1. main \in Main /\ main.at # "starting" /\ main'.at = "starting" /\ main'.node = n
    BY DEF Inv, LoopOK, Starts
<1>2. ASSUME NEW m \in Nodes, Start(m) PROVE m = n
    BY <1>1, <1>2 DEF Start, Main
<1>3. \E m \in Nodes : Start(m)
    <2>1. main' # main
        BY <1>1
    <2>2. \A at \in {"top"} \cup Over : main' # Loop(at)
        BY <1>1, LoopAt, Places
    <2>3. ~Scan
        BY <1>1 DEF Scan, Goes, Writes, Main
    <2>4. ~PlannerStarts /\ ~PlannerDone /\ ~PlannerFails
        BY <1>1 DEF PlannerStarts, PlannerDone, PlannerFails, Goes, Writes, Main
    <2>5. ~\E added \in SUBSET Nodes : \E edges \in SUBSET Plannable :
              \E exhausted \in BOOLEAN : PlannerAnswers(added, edges, exhausted)
        BY <1>1 DEF PlannerAnswers, Writes, Main
    <2>6. ~Finish /\ ~GiveUp /\ ~Blocked /\ ~Thrown /\ ~Crash
        BY <2>2 DEF Finish, GiveUp, Blocked, Pause, Thrown, Crash, Over
    <2>7. ~Wait /\ ~\E m \in Nodes : Collect(m)
        BY <1>1 DEF Wait, Goes, Collect, Main
    <2>8. ~\E m \in Active : JobStep(m) \/ Linked(m)
        BY <1>1, <2>1 DEF JobStep, JobWrote, Announced, Answered, Failed, Rejected, Linked, Main
    <2>9. ~Resume /\ ~\E scope \in {Nodes} \cup {{m} : m \in Nodes} : Retry(scope)
        BY <2>2 DEF Resume, Retry, Revive
    <2>10. ~PlannerLinked /\ ~CancelWrites /\ ~Abort
        BY <2>1 DEF PlannerLinked, CancelWrites, Abort
    <2>11. QED
        BY <2>3, <2>4, <2>5, <2>6, <2>7, <2>8, <2>9, <2>10 DEF Next, MainStep
<1>4. QED
    BY <1>2, <1>3

\* No node is dispatched while it has a job, whatever the shared snapshot says of it.
THEOREM NeverTwoJobs == Spec => OneJob
<1>1. Inv /\ [Next]_vars => [\A n \in Nodes : Starts(n) => job[n] = None]_vars
    <2>1. SUFFICES ASSUME Inv, Next, NEW n \in Nodes, Starts(n) PROVE job[n] = None
        OBVIOUS
    <2>2. Start(n)
        BY <2>1, OnlyStartStarts
    <2>3. QED
        BY <2>1, <2>2, TodoMayStart DEF Start, MayStart
<1>2. QED
    BY <1>1, InvHolds, PTL DEF Spec, OneJob

\* No node starts before the nodes it was seeded to depend on, and those it depended
\* on when it was listed, are over: through any number of lives, whatever the planner
\* adds and whatever snapshot overwrites another.
THEOREM OrderKept == Spec => DependenciesFirst
<1>1. Inv /\ [Next]_vars =>
          [\A n \in Nodes : Starts(n) =>
               \A d \in Deps[n] \cup Todo[n].deps :
                   \/ d \in finished
                   \/ failures[d] = MaxErrors
                   \/ mem.node[d] = "cancelled"]_vars
    <2>1. SUFFICES ASSUME Inv, Next, NEW n \in Nodes, Starts(n)
                   PROVE  Deps[n] \subseteq Todo[n].deps /\ DepsMet(Todo[n].deps)
        BY DEF DepsMet
    <2>2. Start(n)
        BY <2>1, OnlyStartStarts
    <2>3. QED
        BY <2>1, <2>2, TodoMayStart DEF Start, MayStart
<1>2. QED
    BY <1>1, InvHolds, PTL DEF Spec, DependenciesFirst
=============================================================================
