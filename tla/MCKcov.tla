------------------------------ MODULE MCKcov ------------------------------
(* Values for the constants of Kcov: two threads without signal handlers,  *)
(* one with them, where write is selected (exclusive) and where it is not. *)
EXTENDS Kcov

Build(T, calls, inclusive, signals, limit) ==
    [threads |-> T, calls |-> calls, inclusive |-> inclusive, signals |-> signals,
     limit |-> limit]

Overlapping == Build(Threads, {"accept", "read"}, FALSE, FALSE, 6)
Inclusive   == Build(Threads, {"read", "ioctl"}, TRUE, FALSE, 6)
Interrupted == {Build({t}, {"accept", "read"}, inclusive, TRUE, 8) :
                   t \in Threads, inclusive \in BOOLEAN}

EveryBuild == {Overlapping, Inclusive} \cup Interrupted
Exclusive  == {Build({t}, {"read", "ioctl"}, FALSE, FALSE, 7) : t \in Threads}
===========================================================================
