CONSTANTS
    SetSize    = 2
    Backends   = {"epoll", "kqueue", "select", "evport"}
    Reserved   = 1
    PendingMod = 4
    CounterMod = 1
    MaxTimers  = 2
    Configs    <- CutDelayed
    Procs      <- HandlerProcs
    Owners     = {c1}
    NoProc     = NoProc
    NoOwner    = NoOwner
SPECIFICATION Spec
INVARIANTS DelayedCycle
