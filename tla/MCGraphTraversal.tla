-------------------------- MODULE MCGraphTraversal --------------------------
(* Instances of GraphTraversal for TLC. *)
EXTENDS GraphTraversal

CONSTANTS a, b, c

MCUnwanted == {<<a, b>>, <<b, c>>}
MCQueries ==
    [direction : {"downstream", "upstream", "both"}, max_depth : 1..3, max_nodes : 1..4]
=============================================================================
