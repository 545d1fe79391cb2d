----------------------------- MODULE MCCommands -----------------------------
(* Instance of Commands for TLC: a client that sends a sync job three      *)
(* times, one that sends an operation twice and an invalid one once, all   *)
(* with the same text as key, and one request for an assessment.           *)
EXTENDS Commands, TLC

CONSTANTS s1, s2, s3, o1, o2, o3, a1, k

MCCommand ==
    [q \in {s1, s2, s3} |-> "sync"] @@ [q \in {o1, o2, o3} |-> "operation"]
        @@ a1 :> "assessment"
MCKey == [q \in Requests |-> k]
=============================================================================
