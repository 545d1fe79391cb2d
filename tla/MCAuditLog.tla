----------------------------- MODULE MCAuditLog -----------------------------
(* Instance of AuditLog for TLC. *)
EXTENDS AuditLog, TLC

CONSTANTS e1, e2, e3, f1, t1, t2, h1, h2

\* Three events of one tenant (a fork of the chain needs three) and one of
\* another.
MCEvents == {e1, e2, e3, f1}
MCTenantOf == [e \in MCEvents |-> IF e = f1 THEN t2 ELSE t1]
=============================================================================
