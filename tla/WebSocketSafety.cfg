SPECIFICATION Spec
CONSTANTS
    Owner = {w1, w2}
    Id = {i1, i2}
    None = None
    MaxCalls = 3
    MaxConnections = 2
SYMMETRY Symmetry
INVARIANTS
    TypeOK
    Tracked
    WithinCap
    DeadOwnNothing
    ChannelDiscipline
    NoSilentEnd
PROPERTIES
    NoStaleCommit
    ImplementsRegistry
