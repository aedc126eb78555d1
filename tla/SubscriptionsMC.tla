-------------------------- MODULE SubscriptionsMC --------------------------
(***************************************************************************)
(* Small instances of Subscriptions.                                       *)
(***************************************************************************)
EXTENDS Subscriptions

PortedFamilies == {1}

\* The service starts with the second family listed and signed in.
ListedSets == {{2}}
GrantedSets == {{2}}

=============================================================================
