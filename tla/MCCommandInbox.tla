--------------------------- MODULE MCCommandInbox ---------------------------
(* CommandInbox with a table of one answer, so that it forgets at once. *)
EXTENDS CommandInbox

CONSTANTS c1, c2, k1, k2
=============================================================================
