CONSTANTS
    NumBuilds     = 2
    Iterations    = 2
    Entries       = {1}
    MaxInterrupts = 2
SPECIFICATION Spec
INVARIANTS Attributed MergedKept
