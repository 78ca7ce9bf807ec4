SPECIFICATION Spec
CONSTANTS
    Nodes    = {n1, n2, n3}
    NULL     = NULL
    Sec      = 2
    Delays   = {0, 3}
    Epoch    = 6
    Jumps    <- SomeJumps
    MaxJumps = 1
    MaxTime  = 3
    MaxId    = 3
INVARIANTS InTime ListSound
PROPERTIES OnlyWhenAsked
SYMMETRY Symmetry
