---------------------------- MODULE GitCommitMC ----------------------------
(***************************************************************************)
(* Small instances of GitCommit: two tries to commit under one id, and a   *)
(* request that stages.                                                    *)
(***************************************************************************)
EXTENDS GitCommit

CONSTANTS r1, r2, s1, k1

OneKey == [r \in CommitAll |-> k1]

=============================================================================
