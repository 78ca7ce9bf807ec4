CONSTANTS
    SetSize    = 3
    Backends   = {"epoll", "kqueue", "select", "evport"}
    Reserved   = 1
    PendingMod = 4
    CounterMod = 1
    MaxTimers  = 2
    Configs    <- Served
    Procs      <- HandlerProcs
    Owners     = {c1, c2}
    NoProc     = NoProc
    NoOwner    = NoOwner
SPECIFICATION SpecServed
PROPERTIES StopEnds KeepsGoing CutsNoticed
