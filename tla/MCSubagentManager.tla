-------------------------- MODULE MCSubagentManager -------------------------
(* SubagentManager on small instances. *)
EXTENDS SubagentManager

CONSTANTS main, other
=============================================================================
