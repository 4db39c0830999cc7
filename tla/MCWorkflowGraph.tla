--------------------------- MODULE MCWorkflowGraph ---------------------------
(* Instances of WorkflowGraph. *)
EXTENDS WorkflowGraph, TLC

CONSTANTS a, b, c

\* b depends on a.  The planner may add c, make it depend on a, and b on it.
MCDeps == (a :> {}) @@ (b :> {a}) @@ (c :> {})
MCPlannable == {<<a, c>>, <<c, b>>}

\* Nodes that do not depend on each other.
MCFree == [n \in {a, b} |-> {}]
=============================================================================
