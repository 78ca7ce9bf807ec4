CONSTANTS
    SetSize   = 2
    Backends  = {"epoll", "kqueue", "select", "evport"}
    Procs     = {p}
    Owners    = {o}
    NoProc    = NoProc
    NoOwner   = NoOwner
    ReadySets <- FewReady
SPECIFICATION FairSpec
INVARIANTS TypeOK BackendInSync MaxFdExact EitherKernelOrPending
PROPERTIES NoLostReadiness
