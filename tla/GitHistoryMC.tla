---------------------------- MODULE GitHistoryMC ----------------------------
(***************************************************************************)
(* A rebase and a plan of another kind, two branches and one commit of     *)
(* somebody else.                                                          *)
(***************************************************************************)
EXTENDS GitHistory, TLC

CONSTANTS p1, p2, main, other, w1

MCChoice == p1 :> {"reorder"} @@ p2 :> {"squash", "pick"}

=============================================================================
