CONSTANTS
    MaxResolves = 2
    MaxConns = 2
    MaxParallelBackground = 1
    FreshWireIds = TRUE
    w1 = w1
    w2 = w2
    w3 = w3
    w4 = w4
    WireIds <- MCWireIds

SPECIFICATION Spec
SYMMETRY Symmetry

INVARIANT TypeOK
INVARIANT ResultAccounting
INVARIANT WorkIsTimed
INVARIANT InFlightOnOpenConnection
