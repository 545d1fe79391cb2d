------------------------------ MODULE MCOutbox ------------------------------
(* Instances of Outbox for TLC. *)
EXTENDS Outbox

CONSTANTS r1, r2

MCRelays == {r1, r2}
=============================================================================
