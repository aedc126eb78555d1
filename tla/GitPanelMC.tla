----------------------------- MODULE GitPanelMC -----------------------------
(***************************************************************************)
(* Instances of GitPanel.                                                  *)
(***************************************************************************)
EXTENDS GitPanel

=============================================================================
