--------------------------- MODULE CheckpointsMC ---------------------------
(***************************************************************************)
(* Small instances of Checkpoints.                                         *)
(***************************************************************************)
EXTENDS Checkpoints, TLC

\* Nothing is committed.
NoCommit == [p \in Path |-> Missing]

Symmetry == Permutations(Path) \cup Permutations(Data)

\* For instances whose contents differ.
PathSymmetry == Permutations(Path)

=============================================================================
