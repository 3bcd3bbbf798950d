SPECIFICATION TransportsSpec
CONSTANTS
    Owner = {r1, r2}
    Id = {a, b}
    None = None
    MaxCalls = 3
    MaxConnections = 2
    MaxAcks = 2
    MaxRedirects = 1
    MaxSlots = 1
    MaxMessages = 4
    MaxTokens = 2
    StreamId = {a}
    MaxWrites = 4
    MaxReplay = 3
    MaxResponse = 2
    NotEnded = NotEnded
INVARIANTS
    TransportsTypeOK
    Tracked
    WithinCap
    DeadOwnNothing
    DeliveredOnce
    DisconnectIsFinal
    NoOrphan
PROPERTIES
    ImplementsRegistry
    NothingHangs
    AnsweringMetadata
    KeepsContract
    SilentOnceDropped
    OutboundArrives
CHECK_DEADLOCK FALSE
