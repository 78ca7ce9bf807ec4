SPECIFICATION Spec
CONSTANTS
    Servers     = {"lighttpd", "nginx", "memcached", "redis"}
    Listed      <- FilterLists
    LoadsLast   = {"lighttpd"}
    Calls       <- AllCalls
    Arches      = {AUDIT_ARCH_X86_64, AUDIT_ARCH_I386}
    AUDIT_ARCH_X86_64 = AUDIT_ARCH_X86_64
    PerrorCalls = {"dup", "fcntl", "newfstatat", "write", "close"}
    None        = None
INVARIANTS ProgramExecuted
CHECK_DEADLOCK FALSE
