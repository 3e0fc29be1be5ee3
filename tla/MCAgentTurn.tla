----------------------------- MODULE MCAgentTurn ----------------------------
(* AgentTurn on small instances. *)
EXTENDS AgentTurn

MCSafeChars == {"a", "b", "_"}

\* One conversation, and two that sanitizeSegment keeps apart.
OneKey == {<<"a">>}
TwoKeys == {<<"a">>, <<"b", "+">>}
=============================================================================
