SPECIFICATION FairSpec
CONSTANTS
    c1 = c1
    c2 = c2
    Conns <- MCConns
    Responsive <- MCResponsive
    PingInterval = 2
    PingTimeout = 3
    IdleTimeout = 4
    Never = Never
INVARIANTS
    TypeOK
PROPERTIES
    AnsweringStays
    ServedIsKept
    AbandonedDropped
    PingTasksEnd
