CONSTANTS
    Threads  = {t1, t2}
    Fds      = {3, 4, 5, 6, 7, 8}
    Calls    = {"accept", "read", "write", "ioctl"}
    Target   = "read"
    Builds   <- EveryBuild
    BufSize  = 3
    MaxApp   = 2
SPECIFICATION FairSpec
INVARIANTS DescriptorsApart TracedAndLogged
PROPERTIES WrappersReturn
CHECK_DEADLOCK FALSE
