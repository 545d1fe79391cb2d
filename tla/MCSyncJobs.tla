----------------------------- MODULE MCSyncJobs -----------------------------
(* Instances of SyncJobs for TLC: resource a names b, and names itself, in *)
(* the first version of its properties; b names a in the second.           *)
EXTENDS SyncJobs

CONSTANTS a, b, w1, w2

MCRefs ==
    [r \in Resources |-> [v \in 0..MaxChanges |->
        (IF v % 2 = 0 THEN {a, b} ELSE {a}) \cap Resources]]
MCWorkers == {w1, w2}
=============================================================================
