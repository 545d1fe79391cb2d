----------------------------- MODULE MCAccounts -----------------------------
(* Instances of Accounts for TLC: two users of an organisation, one of     *)
(* another organisation and personal accounts.                             *)
EXTENDS Accounts

CONSTANTS a1, a2, b1, p1, p2, p3, orgA, orgB

MCTidOf ==
    [a \in Accounts |-> CASE a \in {a1, a2} -> orgA [] a = b1 -> orgB [] OTHER -> Consumer]
=============================================================================
