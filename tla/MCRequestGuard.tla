--------------------------- MODULE MCRequestGuard ---------------------------
(* A small instance of RequestGuard for TLC: an administrator who changes    *)
(* accounts, in the last office hour of a day and after it.                  *)
EXTENDS RequestGuard, TLC

CONSTANTS sales

DeleteUsers == Permission("users", "delete")
UpdateUsers == Permission("users", "update")

MCPermissions == {DeleteUsers, UpdateUsers}
MCDelete == {DeleteUsers}
MCLists == {{Permission("users", Star)}, {UpdateUsers}}

MCEnvironments == {[resourceDept |-> sales, ip |-> <<10, 0, 0>>, sessionAge |-> 0]}

\* Without a department yet, which PATCH gives it
MCAccounts == {[active |-> TRUE, dept |-> None, mfa |-> TRUE]}

MCHourAt == [t \in 0..MaxTime |-> IF t < 1 THEN 17 ELSE 20]
MCDayAt == [t \in 0..MaxTime |-> 1]

HandlerSymmetry == Permutations(Handlers)
=============================================================================
