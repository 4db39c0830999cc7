------------------------ MODULE MCArtifactPublisher ------------------------
(***************************************************************************)
(* Small scripts for ArtifactPublisher.                                    *)
(*                                                                         *)
(* Report: x1 and y1 race for the primary flag, x2 and x3 are later        *)
(* versions of x1 (x3 above the cap), w1 comes when there may be no id     *)
(* left, z1 and z2 declare one chart twice, y2 declares a chart by the id  *)
(* of y1.  No two publications of one id are at the driver at once.        *)
(*                                                                         *)
(* Twins: x1 (primary) and x2 publish one id at once, then y1 asks for the *)
(* primary flag.                                                           *)
(***************************************************************************)
EXTENDS ArtifactPublisher

CONSTANTS x1, x2, x3, y1, y2, z1, z2, w1

ReportScript == <<z1, x1, y1, x2, z2, w1, x3, y2>>
ReportCalls == Range(ReportScript)
ReportReturns == {x1, x2, x3, y1, w1}
ReportAfter ==
    z1 :> {} @@ x1 :> {} @@ y1 :> {} @@ x2 :> {x1} @@ x3 :> {x2} @@ z2 :> {x1}
       @@ w1 :> {y1} @@ y2 :> {x2, y1}
ReportIds ==
    z1 :> "z" @@ z2 :> "z" @@ x1 :> "x" @@ x2 :> "x" @@ x3 :> "x" @@ y1 :> "y" @@ y2 :> "y"
       @@ w1 :> "w"
ReportKinds == [c \in ReportCalls |-> IF c \in {z1, z2, y2} THEN "chart" ELSE "file"]
ReportSpecs == [c \in ReportCalls |-> IF ReportKinds[c] = "chart" THEN ReportIds[c] ELSE None]

TwinScript == <<x1, x2, y1>>
TwinCalls == Range(TwinScript)
TwinAfter == x1 :> {} @@ x2 :> {} @@ y1 :> {x1, x2}
TwinIds == x1 :> "x" @@ x2 :> "x" @@ y1 :> "y"
TwinKinds == [c \in TwinCalls |-> "file"]
TwinSpecs == [c \in TwinCalls |-> None]

\* What the theorems suppose of a script holds of Report and not of Twins.
ASSUME ScriptsDiffer == OneAtATime <=> Script = ReportScript
=============================================================================
