-------------------------- MODULE MCAuditPipeline --------------------------
(* A small instance of AuditPipeline for TLC: two seconds that end with the  *)
(* business hours.                                                           *)
EXTENDS AuditPipeline, TLC

MCHourAt == [t \in 0..MaxTime |-> IF t < 2 THEN 19 ELSE 20]
=============================================================================
