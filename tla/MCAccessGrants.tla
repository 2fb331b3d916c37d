--------------------------- MODULE MCAccessGrants ---------------------------
(* Small instances of AccessGrants for TLC: one employee asks twice for one  *)
(* resource, once for a few seconds and once for good, so both requests      *)
(* share a grant key.                                                        *)
EXTENDS AccessGrants, TLC

CONSTANTS carol, mgr, demo, temp, perm

MCRequester == [r \in Requests |-> carol]
MCResource == [r \in Requests |-> demo]
MCPermanent == {perm} \cap Requests
MCSeconds == [r \in Requests |-> IF r = perm THEN 0 ELSE 1]
MCSeconds2 == [r \in Requests |-> IF r = perm THEN 0 ELSE 2]

HandlerSymmetry == Permutations(Handlers)
=============================================================================
