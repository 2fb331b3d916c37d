---------------------------- MODULE MCDashboard ----------------------------
\* Two users and a request of one of them.
EXTENDS Dashboard

CONSTANTS ann, bob, req
MCUsers == {ann, bob}
MCRequests == {req}
MCOwner == [r \in MCRequests |-> ann]
MCFilters == {"pending", "approved"}
=============================================================================
