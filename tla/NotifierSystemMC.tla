-------------------------- MODULE NotifierSystemMC --------------------------
(***************************************************************************)
(* A small instance of NotifierSystem: two windows, either of which may be *)
(* looked at or closed, and an alert the user may switch off.              *)
(***************************************************************************)
EXTENDS NotifierSystem, TLC

CONSTANTS c1, c2, s1, finished, Denied

MCClient == {c1, c2}
MCSession == {s1}
MCGroup == {finished}
MCPermission == {Granted, Denied}
MCEvent == {[session |-> s1, group |-> finished, subagent |-> FALSE]}

MCPresence ==
  {[focused |-> TRUE, visible |-> TRUE, open |-> TRUE, session |-> None,
    permission |-> Granted],
   [focused |-> FALSE, visible |-> FALSE, open |-> FALSE, session |-> None,
    permission |-> Granted]}

MCConfig ==
  {[groups |-> g, subagent |-> FALSE, suppressFocused |-> TRUE] : g \in SUBSET MCGroup}

Symmetry == Permutations(MCClient) \cup Permutations(Id) \cup Permutations(Token)

=============================================================================
