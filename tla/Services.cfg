SPECIFICATION ServicesSpec
CONSTANTS
    File = {f1, f2}
    FirstFile = f1
    Layout = {{f1}, {f2}, {f1, f2}}
    Absent = Absent
    Unread = Unread
    MaxSaves = 2
    MaxEdits = 2
    MaxLoads = 1
    MaxFaults = 2
    MaxEvents = 3
    WaitMs = 2
    MaxWaitMs = 4
    Nothing = Nothing
    MaxSets = 4
    MaxTime = 7
    Sender = {s1, s2}
    MaxRequests = 2
    WindowMs = 2
    MaxNow = 5
    MaxAsked = 5
    TicketTtl = 3
    GcSizeThreshold = 2
    GcInterval = 1
    MaxTickets = 3
    MaxClock = 6
    MaxTasks = 3
    MaxUserEdits = 1
    MaxDiskEdits = 2
    MaxFailures = 1
    MaxTurns = 6
    Path = {p1, p2}
    Nobody = Nobody
    MaxOps = 3
    MaxTerminal = 1
INVARIANTS
    
    OwnWritesAreSilent
    Checkpointed
    PersistsLast
    SettledIsDisk
PROPERTIES
    SaveIsWhole
    ResolvedWholeAndOnce
    RateIsExact
    TicketsAreExact
CHECK_DEADLOCK FALSE
