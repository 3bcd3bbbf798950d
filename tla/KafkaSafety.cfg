SPECIFICATION Spec
CONSTANTS
    Owner = {r1, r2}
    Id = {a}
    None = None
    MaxCalls = 4
    MaxConnections = 2
SYMMETRY Symmetry
INVARIANTS ProducerTracked WithinCap DeadOwnNothing RegisteredIsUsable
CHECK_DEADLOCK FALSE
