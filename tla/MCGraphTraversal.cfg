\* Three nodes, every graph, every query; one edge may change under way.
CONSTANTS
    a = a
    b = b
    c = c
    Nodes = {a, b, c}
    Root = a
    Unwanted <- MCUnwanted
    Queries <- MCQueries
    MaxChanges = 1
SPECIFICATION Spec
INVARIANTS
    ExactWhenComplete
    Connected
    TruncatedMeansFull
    NodeBound
CHECK_DEADLOCK FALSE
