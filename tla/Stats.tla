------------------------------- MODULE Stats ------------------------------
(***************************************************************************)
(* The histogram the worker threads share (wrk/src/stats.c): every thread  *)
(* calls stats_record on the same stats struct, without a lock, while the  *)
(* others do.  One action per access to shared memory: the two atomic      *)
(* additions, the plain reads of min and max, and the compare-and-swap     *)
(* loops.                                                                  *)
(***************************************************************************)
EXTENDS Integers, Functions

CONSTANTS
    Threads,    \* the worker threads
    Limit,      \* stats->limit: values 0..Limit-1 have a bucket
    Values,     \* the values stats_record is called with
    Infinity,   \* UINT64_MAX, the initial min
    MaxCalls    \* bound: calls of stats_record in all

ASSUME StatsAssumption ==
    /\ Limit \in Nat \ {0}
    /\ Values \subseteq Nat
    /\ Infinity \in Nat /\ Infinity >= Limit
    /\ MaxCalls \in Nat

VARIABLES
    data, count, min, max,  \* the struct
    pc, n, lmin, lmax,      \* each thread's place and locals in stats_record
    recorded,               \* history: the samples of each value recorded
    calls                   \* calls made so far (bounded by MaxCalls)

shared == <<data, count, min, max, recorded>>
vars   == <<data, count, min, max, recorded, pc, n, lmin, lmax, calls>>

Buckets == 0 .. Limit - 1
Places  == {"out", "data", "count", "readMin", "readMax", "casMin", "casMax"}

FrameType ==
    /\ recorded \in [Buckets -> Nat]
    /\ min \in Buckets \cup {Infinity}
    /\ max \in Buckets
    /\ pc \in [Threads -> Places]
    /\ n \in [Threads -> Nat]
    /\ \A t \in Threads : pc[t] # "out" => n[t] \in Buckets
    /\ lmin \in [Threads -> Buckets \cup {Infinity}]
    /\ lmax \in [Threads -> Buckets]

TypeOK ==
    /\ data \in [Buckets -> Nat] /\ count \in Nat
    /\ FrameType
    /\ calls \in 0 .. MaxCalls

(* stats_alloc *)
Init ==
    /\ data = [v \in Buckets |-> 0] /\ count = 0
    /\ recorded = [v \in Buckets |-> 0]
    /\ min = Infinity /\ max = 0
    /\ pc = [t \in Threads |-> "out"]
    /\ n = [t \in Threads |-> 0]
    /\ lmin = [t \in Threads |-> Infinity] /\ lmax = [t \in Threads |-> 0]
    /\ calls = 0

---------------------------------------------------------------------------
Goto(t, place) == pc' = [pc EXCEPT ![t] = place]

(* Mutant: the limit is not tested.                                        *)
Call_NoLimit(t, v) ==
    /\ pc[t] = "out" /\ calls < MaxCalls
    /\ calls' = calls + 1
    /\ n' = [n EXCEPT ![t] = v]
    /\ Goto(t, "data")
    /\ UNCHANGED <<shared, lmin, lmax>>

Call(t, v) ==           \* a value at or beyond the limit is not recorded
    /\ pc[t] = "out" /\ calls < MaxCalls
    /\ calls' = calls + 1
    /\ n' = [n EXCEPT ![t] = v]
    /\ Goto(t, IF v >= Limit THEN "out" ELSE "data")
    /\ UNCHANGED <<shared, lmin, lmax>>

AddData(t) ==
    /\ pc[t] = "data"
    /\ data' = [data EXCEPT ![n[t]] = @ + 1]
    /\ recorded' = [recorded EXCEPT ![n[t]] = @ + 1]
    /\ Goto(t, "count")
    /\ UNCHANGED <<count, min, max, n, lmin, lmax, calls>>

AddCount(t) ==
    /\ pc[t] = "count"
    /\ count' = count + 1
    /\ Goto(t, "readMin")
    /\ UNCHANGED <<data, min, max, recorded, n, lmin, lmax, calls>>

ReadMin(t) ==
    /\ pc[t] = "readMin"
    /\ lmin' = [lmin EXCEPT ![t] = min]
    /\ Goto(t, "readMax")
    /\ UNCHANGED <<shared, n, lmax, calls>>

ReadMax(t) ==
    /\ pc[t] = "readMax"
    /\ lmax' = [lmax EXCEPT ![t] = max]
    /\ Goto(t, "casMin")
    /\ UNCHANGED <<shared, n, lmin, calls>>

(* Mutants: one attempt only; a plain store; min is not loaded again.      *)
CasMin_Once(t) ==
    /\ pc[t] = "casMin" /\ n[t] < lmin[t]
    /\ min' = IF min = lmin[t] THEN n[t] ELSE min
    /\ lmin' = [lmin EXCEPT ![t] = n[t]]
    /\ UNCHANGED <<data, count, max, recorded, pc, n, lmax, calls>>

CasMin_Stores(t) ==
    /\ pc[t] = "casMin" /\ n[t] < lmin[t]
    /\ min' = n[t]
    /\ lmin' = [lmin EXCEPT ![t] = n[t]]
    /\ UNCHANGED <<data, count, max, recorded, pc, n, lmax, calls>>

CasMin_NoReload(t) ==
    /\ pc[t] = "casMin" /\ n[t] < lmin[t]
    /\ min' = IF min = lmin[t] THEN n[t] ELSE min
    /\ UNCHANGED <<data, count, max, recorded, pc, n, lmin, lmax, calls>>

(* while (n < min) min = CAS(&stats->min, min, n): the loop goes on with   *)
(* the value it found, after a success too.                                *)
CasMin(t) ==
    /\ pc[t] = "casMin" /\ n[t] < lmin[t]
    /\ min' = IF min = lmin[t] THEN n[t] ELSE min
    /\ lmin' = [lmin EXCEPT ![t] = min]
    /\ UNCHANGED <<data, count, max, recorded, pc, n, lmax, calls>>

MinDone(t) ==
    /\ pc[t] = "casMin" /\ ~(n[t] < lmin[t])
    /\ Goto(t, "casMax")
    /\ UNCHANGED <<shared, n, lmin, lmax, calls>>

CasMax(t) ==
    /\ pc[t] = "casMax" /\ n[t] > lmax[t]
    /\ max' = IF max = lmax[t] THEN n[t] ELSE max
    /\ lmax' = [lmax EXCEPT ![t] = max]
    /\ UNCHANGED <<data, count, min, recorded, pc, n, lmin, calls>>

Return(t) ==
    /\ pc[t] = "casMax" /\ ~(n[t] > lmax[t])
    /\ Goto(t, "out")
    /\ UNCHANGED <<shared, n, lmin, lmax, calls>>

Step(t) == \/ AddData(t) \/ AddCount(t) \/ ReadMin(t) \/ ReadMax(t)
           \/ CasMin(t) \/ MinDone(t) \/ CasMax(t) \/ Return(t)

Next == \E t \in Threads : Step(t) \/ \E v \in Values : Call(t, v)

Spec == Init /\ [][Next]_vars

---------------------------------------------------------------------------
(* stats->min and stats->max frame the recorded values whenever no call is *)
(* in progress, which is what main reads after pthread_join: every loop    *)
(* over the histogram runs from min to max (stats.c:49, 58, 71, 83, 92,    *)
(* 100) and would miss whatever lies outside.                              *)
AtRest == \A t \in Threads : pc[t] = "out"

Framed ==
    /\ \A v \in Buckets : recorded[v] > 0 => min <= v /\ v <= max
    /\ min # Infinity => recorded[min] > 0
    /\ recorded[max] > 0 \/ max = 0

FramedAtRest == AtRest => Framed

(* A thread may only leave a bound that does not cover its value to itself *)
(* while it is still on the way to its compare-and-swap loop.              *)
Lowering(t) == pc[t] \in {"count", "readMin", "readMax", "casMin"}
Raising(t)  == Lowering(t) \/ pc[t] = "casMax"

FramedOrOnTheWay == \A v \in Buckets : recorded[v] > 0 =>
    /\ min <= v \/ \E t \in Threads : n[t] = v /\ Lowering(t)
    /\ v <= max \/ \E t \in Threads : n[t] = v /\ Raising(t)

(* min never rises and max never falls, although every thread writes them  *)
(* from a value it has read earlier.                                       *)
BoundsOnlyWiden == [][min' <= min /\ max' >= max]_vars
===========================================================================
