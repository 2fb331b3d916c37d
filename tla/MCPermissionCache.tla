------------------------- MODULE MCPermissionCache -------------------------
(* Small instances of PermissionCache for TLC. *)
EXTENDS PermissionCache, TLC

CONSTANTS alice, manager

SeededAlice == {<<alice, manager>>}
SeededNobody == {}

HandlerSymmetry == Permutations(Handlers)
=============================================================================
