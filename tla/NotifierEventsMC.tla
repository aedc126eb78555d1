-------------------------- MODULE NotifierEventsMC --------------------------
(***************************************************************************)
(* Small instances of NotifierEvents: one session with two successive      *)
(* runtimes and its requests to the user, and two subagents of which one   *)
(* has a local agent.                                                      *)
(***************************************************************************)
EXTENDS NotifierEvents, TLC

CONSTANTS a1, a2, b1, s1, k1, k2

TwoRuntimes == {a1, a2}
TwoRuntimesOf == a1 :> s1 @@ a2 :> s1

SubagentSessions == {k1, k2}
LocalSubagent == {b1}
LocalSubagentOf == b1 :> k1

\* A setting that makes no difference to an instance is left as it is.
TurnSettings == [goalOnly: BOOLEAN, subagent: {TRUE}]
SubagentSettings == [goalOnly: {FALSE}, subagent: BOOLEAN]

=============================================================================
