----------------------------- MODULE MCAeTimers ---------------------------
(* Constants of the run about timers: the addresses are interchangeable.   *)
EXTENDS AeTimers, TLC

Symmetry    == Permutations(Nodes)
SomeJumps   == {-3, 3}
===========================================================================
