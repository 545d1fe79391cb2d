---------------------------- MODULE MCProjection ----------------------------
(* Two resources whose second version names the other one.                *)
EXTENDS Projection, TLC

CONSTANTS a, b

MCResources == {a, b}
MCRefs == (a :> (0 :> {a} @@ 1 :> {b})) @@ (b :> (0 :> {} @@ 1 :> {a}))
=============================================================================
