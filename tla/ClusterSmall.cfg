SPECIFICATION Spec
CONSTANTS
    a = a
    b = b
    c = c
    d = d
    Nodes = {a, b, c, d}
    Slots = {1, 2, 3}
    NoNode = NoNode
    Name <- NodeNames
    MaxEpoch = 4
    Topologies <- Small
INVARIANTS ClusterTypeOK ElectionSafe SlaveOwnsNothing
PROPERTIES ClaimsOrdered
CHECK_DEADLOCK FALSE
