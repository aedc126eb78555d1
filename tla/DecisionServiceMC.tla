------------------------- MODULE DecisionServiceMC -------------------------
(***************************************************************************)
(* Small instances of DecisionService.                                     *)
(***************************************************************************)
EXTENDS DecisionService, TLC

Symmetry ==
  Permutations(Editor) \cup Permutations(Evaluation)
    \cup Permutations(Url) \cup Permutations(Key)

=============================================================================
