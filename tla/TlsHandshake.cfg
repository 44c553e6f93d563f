SPECIFICATION Spec
CONSTANTS
    c1 = c1
    c2 = c2
    Connections <- SomeConnections
    Roles <- SomeRoles
INVARIANTS
    Agreement
    CachedIsFinished
PROPERTY
    HandshakeEnds
CHECK_DEADLOCK FALSE
