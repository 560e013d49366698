-------------------------- MODULE MCCatalogRegistry --------------------------
(***************************************************************************)
(* TLC instances of CatalogRegistry.                                       *)
(***************************************************************************)
EXTENDS CatalogRegistry, TLC

ActorSymmetry == Permutations(Getters) \cup Permutations(Refreshers)

SearchDeferred == [toolSearch |-> TRUE, deferAuthorization |-> TRUE]
SearchOnly == [toolSearch |-> TRUE, deferAuthorization |-> FALSE]
Direct == [toolSearch |-> FALSE, deferAuthorization |-> FALSE]

SafetyConfigs == {SearchDeferred, Direct}
SearchConfigs == {SearchOnly}
DirectConfigs == {Direct}
=============================================================================
