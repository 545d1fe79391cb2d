--------------------------- MODULE MCAuditPipeline ---------------------------
(* Instances of AuditPipeline for TLC. *)
EXTENDS AuditPipeline, TLC

CONSTANTS r1, h1, h2, t1

MCOneTenant == [e \in 1..NumRecords |-> t1]
=============================================================================
