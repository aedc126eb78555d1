------------------------------ MODULE GitCall ------------------------------
(***************************************************************************)
(* What a Git invocation of the plugin promises its caller: one answer,    *)
(* and an answer other than "unconfirmed" only when the process group it   *)
(* started is gone, so that a rollback or another mutation may follow.     *)
(***************************************************************************)

VARIABLES
  group,   \* the process group: not started, alive or gone
  answer   \* what the caller was told

vars == <<group, answer>>

TypeOK ==
  /\ group \in {"new", "alive", "gone"}
  /\ answer \in {"none", "settled", "unconfirmed"}

Init == group = "new" /\ answer = "none"

Start ==
  /\ group = "new" /\ answer = "none"
  /\ group' = "alive" /\ UNCHANGED answer

End ==
  /\ group = "alive"
  /\ group' = "gone" /\ UNCHANGED answer

Settle ==
  /\ group \in {"new", "gone"} /\ answer = "none"
  /\ answer' = "settled" /\ UNCHANGED group

GiveUp ==
  /\ answer = "none"
  /\ answer' = "unconfirmed" /\ UNCHANGED group

Next == Start \/ End \/ Settle \/ GiveUp

Spec == Init /\ [][Next]_vars

=============================================================================
