----------------------------- MODULE StatsRead ----------------------------
(***************************************************************************)
(* What main does with a histogram once the threads are joined             *)
(* (wrk/src/wrk.c:168-198): stats_correct adds the samples that            *)
(* coordinated omission hid, then the report and the script's done() read  *)
(* the mean, the percentiles and the single values (wrk/src/stats.c).      *)
(*                                                                         *)
(* The correction is one action per iteration of its two loops; the reads  *)
(* are operators on the struct.  Module WrkMain runs them after the        *)
(* threads of module Stats.                                                *)
(***************************************************************************)
EXTENDS Stats, FiniteSets, FiniteSetsExt

VARIABLES
    at,                     \* where main is
    expected,               \* the argument of stats_correct, 0 before its call
    reached, m,             \* its loop variables n and m
    left                    \* its local count, the samples at n when reached

locals == <<expected, reached, m, left>>
outside == <<min, max, recorded, pc, n, lmin, lmax, calls>>

(* The samples of a histogram, numbered in each bucket; the sum over its   *)
(* buckets is how many they are.                                           *)
Samples(d) == UNION {{v} \X (1 .. d[v]) : v \in DOMAIN d}
Total(d)   == Cardinality(Samples(d))
Used(d)    == {v \in Buckets : d[v] > 0}

---------------------------------------------------------------------------
(* stats_correct                                                           *)

Outer ==
    /\ at = "outer" /\ reached <= max
    /\ left' = data[reached]
    /\ m' = reached - expected
    /\ at' = "inner"
    /\ UNCHANGED <<outside, data, count, expected, reached>>

(* Mutant: the lower end of the loop is one lower.                         *)
Inner_AddsAtExpected ==
    /\ at = "inner" /\ left > 0 /\ m >= expected
    /\ data' = [data EXCEPT ![m] = @ + left]
    /\ count' = count + left
    /\ m' = m - expected
    /\ UNCHANGED <<outside, expected, reached, left, at>>

Inner ==
    /\ at = "inner" /\ left > 0 /\ m > expected
    /\ data' = [data EXCEPT ![m] = @ + left]
    /\ count' = count + left
    /\ m' = m - expected
    /\ UNCHANGED <<outside, expected, reached, left, at>>

InnerEnds ==
    /\ at = "inner" /\ ~(left > 0 /\ m > expected)
    /\ reached' = reached + 1
    /\ at' = "outer"
    /\ UNCHANGED <<outside, data, count, expected, m, left>>

OuterEnds ==
    /\ at = "outer" /\ reached > max
    /\ at' = "report"
    /\ UNCHANGED <<outside, data, count, locals>>

Correct == Outer \/ Inner \/ InnerEnds \/ OuterEnds

---------------------------------------------------------------------------
(* The readers.  Each one scans from min to max; an empty histogram has    *)
(* min above max.                                                          *)

Scan == IF min <= max THEN min .. max ELSE {}

(* stats_mean: the numerator and what the report divides it by.            *)
MeanSum == Total([v \in Scan |-> data[v] * v])

(* stats_percentile, for p percent: round(p / 100 * count + 0.5), halves   *)
(* away from zero, is the rank.                                            *)
Rank_Truncates(p) == (p * count) \div 100          \* Mutant

Rank(p) == (p * count) \div 100 + 1

UpTo(v) == Total(Restrict(data, min .. v))

stats_percentile(p) ==
    LET hits == {v \in Scan : UpTo(v) >= Rank(p)}
    IN  IF hits = {} THEN 0 ELSE Min(hits)

stats_popcount == Cardinality({v \in Scan : data[v] > 0})

(* stats_value_at: the index-th used value and its count; <<0, the number  *)
(* of used values>> when there are not so many.                            *)
Before(v) == Cardinality({u \in Scan : u < v /\ data[u] > 0})

stats_value_at(index) ==
    LET hits == {v \in Scan : data[v] > 0 /\ Before(v) = index}
    IN  IF hits = {} THEN <<0, stats_popcount>>
        ELSE <<Min(hits), data[Min(hits)]>>

---------------------------------------------------------------------------
(* The histogram that is reported holds every sample the threads recorded, *)
(* and the correction's (stats.c:33-43): a sample at v adds one at         *)
(* v - k * expected for every k >= 1 that stays above expected, and the    *)
(* samples it adds are corrected no further.  count, which the threads and *)
(* then the correction add to on their own, is still their number.         *)
From(v) == {u \in Buckets :
               u > v /\ u >= 2 * expected /\ v > expected /\ (u - v) % expected = 0}

Added(v) == IF expected = 0 THEN 0 ELSE Total(Restrict(recorded, From(v)))

CorrectedOnce ==
    at = "report" =>
        /\ \A v \in Buckets : data[v] = recorded[v] + Added(v)
        /\ count = Total(data)

(* Before the correction, and after it when no sample was added below min, *)
(* the readers see every sample: a percentile is a value that was seen,    *)
(* with at least that share of the samples at or below it; the single      *)
(* values enumerate the used buckets in order; and the mean lies between   *)
(* the reported minimum and maximum (wrk/SCRIPTING:99-101), as its sum and *)
(* its count are of the same samples.  Not so once the correction has added*)
(* samples below min, which only count contains.                           *)
PercentileIsSample ==
    \A p \in {50, 75, 90, 99} :
        LET v == stats_percentile(p) IN
        /\ data[v] > 0
        /\ 100 * Total([u \in Buckets |-> IF u <= v THEN data[u] ELSE 0]) >= p * count

ValuesEnumerate ==
    LET used == Used(data) IN
    /\ stats_popcount = Cardinality(used)
    /\ {stats_value_at(i)[1] : i \in 0 .. stats_popcount - 1} = used
    /\ \A i, j \in 0 .. stats_popcount - 1 :
          i < j => stats_value_at(i)[1] < stats_value_at(j)[1]

MeanFramed == min * count <= MeanSum /\ MeanSum <= max * count

ReadersSeeSamples ==
    at = "report" /\ count > 0 /\ Used(data) \subseteq Scan
      => PercentileIsSample /\ ValuesEnumerate /\ MeanFramed
===========================================================================
