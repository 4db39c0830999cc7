------------------------------ MODULE HostCalls ------------------------------
(***************************************************************************)
(* A workflow script as its engine sees it: the host calls it makes (asks, *)
(* publications) and which answers it has awaited before each.  A call is  *)
(* one evaluation of a call site.                                          *)
(***************************************************************************)
EXTENDS Naturals, FiniteSets

CONSTANTS
    Calls,    \* the calls the script makes
    After,    \* After[c]: the calls whose answers c waits for
    Returns,  \* the calls whose answers the script's result waits for
    None      \* undefined

\* An answer names the call whose execution produced it.
Answers == [by : Calls, ok : BOOLEAN]

ASSUME ScriptAssumption ==
    /\ IsFiniteSet(Calls)
    /\ After \in [Calls -> SUBSET Calls]
    /\ Returns \subseteq Calls
    /\ None \notin Answers \cup Calls

Nothing == [c \in Calls |-> None]

Opt(S) == S \cup {None}

\* The elements of s that are in T, in their order.
Among(s, T) ==
    LET at      == {i \in DOMAIN s : s[i] \in T}
        rank(i) == Cardinality({j \in at : j <= i})
    IN  [n \in 1..Cardinality(at) |-> s[CHOOSE i \in at : rank(i) = n]]

Statuses == {"running", "stopped", "completed", "errored"}
=============================================================================
