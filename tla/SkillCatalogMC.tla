--------------------------- MODULE SkillCatalogMC ---------------------------
(***************************************************************************)
(* Small instances of SkillCatalog.                                        *)
(***************************************************************************)
EXTENDS SkillCatalog

DefaultProviders == Provider

\* A shared configuration with a recorded copy; the providers are the defaults.
StartConfigs == [providers : {{}}, record : {CHOOSE p \in Provider : TRUE}]

=============================================================================
