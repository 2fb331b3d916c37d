----------------------------- MODULE GrantLease -----------------------------
(***************************************************************************)
(* What access grants promise to a downstream service, without the         *)
(* documents, the handlers and the jobs behind them: a grant key is a      *)
(* lease.  It names a request that some reviewer has approved for exactly  *)
(* this user and resource, it runs for the time this request asked for at  *)
(* most, every write starts it anew, and anybody may end it early.         *)
(***************************************************************************)
EXTENDS Integers

CONSTANTS
  Keys,      \* what can be leased
  Requests,
  None,      \* no request
  Covers,    \* the key of a request
  Term       \* the longest lease of a request, Forever for a permanent one

Forever == -1
Absent == -2

VARIABLES
  approved,  \* requests approved at least once
  lease      \* per key the request it names and the time left

lvars == <<approved, lease>>

NoLease == [req |-> None, left |-> Absent]
Terms(r) == IF Term[r] = Forever THEN {Forever} ELSE 1..Term[r]

Init == approved = {} /\ lease = [k \in Keys |-> NoLease]

Approve(r) ==
  /\ approved' = approved \cup {r}
  /\ UNCHANGED lease

Renew(r) ==
  /\ r \in approved
  /\ \E t \in Terms(r) :
       lease' = [lease EXCEPT ![Covers[r]] = [req |-> r, left |-> t]]
  /\ UNCHANGED approved

End(ks) ==
  /\ lease' = [k \in Keys |-> IF k \in ks THEN NoLease ELSE lease[k]]
  /\ UNCHANGED approved

\* A second less for every lease that has an end; the last one ends it.
Aged(l) ==
  IF l.left = 1 THEN NoLease
  ELSE IF l.left > 1 THEN [l EXCEPT !.left = @ - 1] ELSE l

Pass ==
  /\ lease' = [k \in Keys |-> Aged(lease[k])]
  /\ UNCHANGED approved

Next ==
  \/ \E r \in Requests : Approve(r) \/ Renew(r)
  \/ \E ks \in SUBSET Keys : End(ks)
  \/ Pass

Spec == Init /\ [][Next]_lvars
=============================================================================
