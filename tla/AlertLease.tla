----------------------------- MODULE AlertLease -----------------------------
(***************************************************************************)
(* What the delivery of notifications promises, whatever the broker does   *)
(* with clients, clocks and settings: an alert waits, is lent to one       *)
(* holder at a time, and ends either delivered by the holder it was lent   *)
(* to or withdrawn.  Several alerts may move in one step.                  *)
(***************************************************************************)
CONSTANTS Id, Holder, None

VARIABLES stage, holder

alertVars == <<stage, holder>>

Init ==
  /\ stage = [i \in Id |-> "unpublished"]
  /\ holder = [i \in Id |-> None]

Stay(i) == stage'[i] = stage[i] /\ holder'[i] = holder[i]

Appear(i) ==
  /\ stage[i] = "unpublished"
  /\ stage'[i] = "waiting" /\ holder'[i] = None

Lend(i) ==
  /\ stage[i] = "waiting"
  /\ stage'[i] = "held" /\ holder'[i] \in Holder

GiveBack(i) ==
  /\ stage[i] = "held"
  /\ stage'[i] = "waiting" /\ holder'[i] = None

Deliver(i) ==
  /\ stage[i] = "held"
  /\ stage'[i] = "delivered" /\ holder'[i] = holder[i]

Withdraw(i) ==
  /\ stage[i] \in {"waiting", "held"}
  /\ stage'[i] = "withdrawn" /\ holder'[i] = None

Move(i) ==
  Stay(i) \/ Appear(i) \/ Lend(i) \/ GiveBack(i) \/ Deliver(i) \/ Withdraw(i)

Spec == Init /\ [][\A i \in Id : Move(i)]_alertVars

=============================================================================
