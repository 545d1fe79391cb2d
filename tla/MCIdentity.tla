----------------------------- MODULE MCIdentity -----------------------------
(* Instances of Identity for TLC: a and b sign in.  The token broker, a    *)
(* bearer token and a session cookie are used on behalf of b, who may be   *)
(* the bootstrap administrator and may have signed in before.              *)
EXTENDS Identity

CONSTANTS a, b, callbackA, callbackB, broker, bearer, session

MCUserOf == [q \in Requests |-> IF q = callbackA THEN a ELSE b]
MCKind ==
    [q \in Requests |-> CASE q = bearer -> "bearer" [] q = session -> "session"
                          [] q = broker -> "broker" [] OTHER -> "callback"]
=============================================================================
