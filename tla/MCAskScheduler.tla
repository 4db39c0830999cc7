--------------------------- MODULE MCAskScheduler ---------------------------
(***************************************************************************)
(* Small scripts for AskScheduler.                                         *)
(*                                                                         *)
(* Crossed: x1 and x2 go to subagents of their own, and b gets y1 once x1  *)
(* is answered and y2 once x2 is, in whichever order they come.            *)
(* Pipelines: two items pass a first and a second stage, each stage one    *)
(* ask site, each item its own subagents.  Line: one subagent is given     *)
(* three asks at once.                                                     *)
(***************************************************************************)
EXTENDS AskScheduler

CONSTANTS x1, x2, y1, y2, a1, a2, b, p1, p2, q1, q2, w1, w2, r1, r2

CrossedCalls == {x1, x2, y1, y2}
CrossedScript == <<x1, x2, y1, y2>>
CrossedAfter == x1 :> {} @@ x2 :> {} @@ y1 :> {x1} @@ y2 :> {x2}
CrossedActors == <<a1, a2, b>>
CrossedActorOf == x1 :> a1 @@ x2 :> a2 @@ y1 :> b @@ y2 :> b
OneSiteEach == [c \in CrossedCalls |-> c]

PipedCalls == {p1, p2, q1, q2}
PipedScript == <<p1, p2, q1, q2>>
PipedAfter == p1 :> {} @@ p2 :> {} @@ q1 :> {p1} @@ q2 :> {p2}
PipedActors == <<w1, w2, r1, r2>>
PipedActorOf == p1 :> w1 @@ p2 :> w2 @@ q1 :> r1 @@ q2 :> r2
PipedSiteOf == p1 :> 1 @@ p2 :> 1 @@ q1 :> 2 @@ q2 :> 2
OwnTexts == [c \in PipedCalls |-> c]
SharedText == p1 :> p1 @@ p2 :> p2 @@ q1 :> q1 @@ q2 :> q1

LineCalls == {x1, x2, y1}
LineScript == <<x1, x2, y1>>
LineAfter == [c \in LineCalls |-> {}]
LineActors == <<b>>
LineActorOf == [c \in LineCalls |-> b]
LineSites == [c \in LineCalls |-> c]
=============================================================================
