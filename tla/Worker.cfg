CONSTANTS
    SetSize    = 4
    Backends   = {"epoll", "kqueue", "select", "evport"}
    Reserved   = 1
    PendingMod = 4
    CounterMod = 1
    MaxTimers  = 2
    Configs    <- EveryConfig
    Procs      <- HandlerProcs
    Owners     = {c1, c2}
    NoProc     = NoProc
    NoOwner    = NoOwner
SPECIFICATION Spec
INVARIANTS FreshDispatch SocketsAccounted NeverAborts ResponseExpected PendingMatches
PROPERTIES HealthyKept ImplementsCycle
SYMMETRY Symmetry
