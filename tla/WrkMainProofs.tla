--------------------------- MODULE WrkMainProofs --------------------------
(***************************************************************************)
(* What holds of the shared histogram for every number of threads, every   *)
(* limit and every recorded value: its types, that its bounds only widen   *)
(* and that they frame the recorded values once the threads are done; and  *)
(* that a run of wrk keeps it, however main and SIGINT interleave with the *)
(* threads, that main reads the histogram alone and complete, corrects it  *)
(* once, and that the readers see every sample.                            *)
(***************************************************************************)
EXTENDS WrkMain, FiniteSetTheorems, SequenceTheorems, NaturalsInduction, TLAPS

(***************************************************************************)
(* The histogram by itself.                                                *)
(***************************************************************************)
LEMMA TypeInit == Init => TypeOK
BY StatsAssumption DEF Init, TypeOK, FrameType, Buckets, Places

(* What the bounds depend on: neither the buckets nor count.               *)
LEMMA FrameTypeNext == FrameType /\ [Next]_vars => FrameType'
<1> SUFFICES ASSUME FrameType, [Next]_vars PROVE FrameType'
  OBVIOUS
<1> USE StatsAssumption DEF FrameType, Places, Goto, shared
<1>1. ASSUME NEW t \in Threads, NEW v \in Values, Call(t, v)
      PROVE  FrameType'
  <2>1. UNCHANGED <<min, max, recorded, lmin, lmax>>
    BY <1>1 DEF Call
  <2>2. pc' \in [Threads -> Places] /\ n' \in [Threads -> Nat]
    BY <1>1 DEF Call
  <2>3. \A u \in Threads : pc'[u] # "out" => n'[u] \in Buckets
    BY <1>1 DEF Call, Buckets
  <2> QED BY <2>1, <2>2, <2>3
<1>2. ASSUME NEW t \in Threads, AddData(t)
      PROVE  FrameType'
  BY <1>2 DEF AddData
<1>3. ASSUME NEW t \in Threads, AddCount(t)
      PROVE  FrameType'
  BY <1>3 DEF AddCount
<1>4. ASSUME NEW t \in Threads, ReadMin(t)
      PROVE  FrameType'
  BY <1>4 DEF ReadMin
<1>5. ASSUME NEW t \in Threads, ReadMax(t)
      PROVE  FrameType'
  BY <1>5 DEF ReadMax
<1>6. ASSUME NEW t \in Threads, CasMin(t)
      PROVE  FrameType'
  BY <1>6 DEF CasMin
<1>7. ASSUME NEW t \in Threads, MinDone(t)
      PROVE  FrameType'
  BY <1>7 DEF MinDone
<1>8. ASSUME NEW t \in Threads, CasMax(t)
      PROVE  FrameType'
  BY <1>8 DEF CasMax
<1>9. ASSUME NEW t \in Threads, Return(t)
      PROVE  FrameType'
  BY <1>9 DEF Return
<1>10. CASE UNCHANGED vars
  BY <1>10 DEF vars
<1> QED BY <1>1, <1>2, <1>3, <1>4, <1>5, <1>6, <1>7, <1>8, <1>9, <1>10 DEF Next, Step

LEMMA TypeNext == TypeOK /\ [Next]_vars => TypeOK'
<1> SUFFICES ASSUME TypeOK, [Next]_vars PROVE TypeOK'
  OBVIOUS
<1>1. FrameType'
  BY FrameTypeNext DEF TypeOK
<1>2. data' \in [Buckets -> Nat]
  <2>1. CASE \E t \in Threads : AddData(t)
    BY <2>1 DEF AddData, TypeOK, FrameType
  <2>2. CASE UNCHANGED data
    BY <2>2 DEF TypeOK
  <2>3. Next => UNCHANGED data \/ \E t \in Threads : AddData(t)
    BY DEF Next, Step, Call, AddCount, ReadMin, ReadMax, CasMin, MinDone, CasMax, Return, shared
  <2> QED BY <2>1, <2>2, <2>3 DEF vars
<1>3. count' \in Nat /\ calls' \in 0 .. MaxCalls
  <2>1. count' = count \/ count' = count + 1
    BY DEF Next, Step, Call, AddData, AddCount, ReadMin, ReadMax, CasMin, MinDone, CasMax, Return,
           shared, vars
  <2>2. calls' = calls \/ (calls < MaxCalls /\ calls' = calls + 1)
    BY DEF Next, Step, Call, AddData, AddCount, ReadMin, ReadMax, CasMin, MinDone, CasMax, Return,
           shared, vars
  <2> QED BY <2>1, <2>2, StatsAssumption DEF TypeOK
<1> QED BY <1>1, <1>2, <1>3 DEF TypeOK

(* The struct and the locals keep their types; in particular a thread only *)
(* ever adds to a bucket below the limit (stats.c:22-24).                  *)
THEOREM TypeCorrect == Spec => []TypeOK
BY TypeInit, TypeNext, PTL DEF Spec

---------------------------------------------------------------------------
(* FramedAtRest is not inductive.  It becomes so with what holds while the *)
(* calls are in progress: a thread past its first addition has a sample in *)
(* its bucket, no local copy of a bound is tighter than the bound, a bound *)
(* that does not cover a sample yet has a thread on the way to widen it,   *)
(* and a bound that was set is a value with samples.                       *)

Counted == \A t \in Threads : pc[t] \notin {"out", "data"} => recorded[n[t]] > 0

Loose == \A t \in Threads : min <= lmin[t] /\ lmax[t] <= max

Attained == (min # Infinity => recorded[min] > 0) /\ (recorded[max] > 0 \/ max = 0)

FrameInv == FrameType /\ Counted /\ Loose /\ FramedOrOnTheWay /\ Attained

LEMMA FrameInit == Init => FrameInv
<1> SUFFICES ASSUME Init PROVE FrameInv
  OBVIOUS
<1>1. FrameType
  BY TypeInit DEF TypeOK
<1>2. Counted /\ Loose /\ FramedOrOnTheWay /\ Attained
  BY StatsAssumption DEF Init, Counted, Loose, FramedOrOnTheWay, Attained, Buckets
<1> QED BY <1>1, <1>2 DEF FrameInv

LEMMA FrameNext == FrameInv /\ [Next]_vars => FrameInv'
<1> SUFFICES ASSUME FrameInv, [Next]_vars PROVE FrameInv'
  OBVIOUS
<1>b. FrameType /\ FrameType'
  BY FrameTypeNext DEF FrameInv
<1> DEFINE Inv == Counted /\ Loose /\ FramedOrOnTheWay /\ Attained
<1>a. Inv
  BY DEF FrameInv
<1> SUFFICES Inv'
  BY <1>b DEF FrameInv
<1> USE <1>a, <1>b, StatsAssumption
    DEF FrameType, Buckets, Places, Goto, shared, Counted, Loose, FramedOrOnTheWay,
        Attained, Lowering, Raising
<1>1. ASSUME NEW t \in Threads, NEW v \in Values, Call(t, v)
      PROVE  Inv'
  <2>1. Counted'
    BY <1>1 DEF Call
  <2>2. Loose'
    BY <1>1 DEF Call
  <2>3. FramedOrOnTheWay'
    <3>1. \A u \in Threads : u # t => n'[u] = n[u] /\ pc'[u] = pc[u]
      BY <1>1 DEF Call
    <3>2. ~Lowering(t) /\ ~Raising(t)
      BY <1>1 DEF Call
    <3>3. recorded' = recorded /\ min' = min /\ max' = max
      BY <1>1 DEF Call
    <3>4. ASSUME NEW w \in Buckets, recorded[w] > 0, ~(min <= w)
          PROVE  \E u \in Threads : n'[u] = w /\ Lowering(u)'
      <4>1. PICK u \in Threads : n[u] = w /\ Lowering(u)
        BY <1>a, <3>4 DEF FramedOrOnTheWay
      <4>2. u # t
        BY <3>2, <4>1
      <4> QED BY <3>1, <4>1, <4>2 DEF Lowering
    <3>5. ASSUME NEW w \in Buckets, recorded[w] > 0, ~(w <= max)
          PROVE  \E u \in Threads : n'[u] = w /\ Raising(u)'
      <4>1. PICK u \in Threads : n[u] = w /\ Raising(u)
        BY <1>a, <3>5 DEF FramedOrOnTheWay
      <4>2. u # t
        BY <3>2, <3>5, <4>1
      <4> QED BY <3>1, <4>1, <4>2 DEF Raising, Lowering
    <3> QED BY <3>3, <3>4, <3>5 DEF FramedOrOnTheWay
  <2>4. Attained'
    BY <1>1 DEF Call
  <2> QED BY <2>1, <2>2, <2>3, <2>4
<1>2. ASSUME NEW t \in Threads, AddData(t)
      PROVE  Inv'
  <2>0. /\ pc[t] = "data" /\ Goto(t, "count")
        /\ recorded' = [recorded EXCEPT ![n[t]] = @ + 1]
        /\ UNCHANGED <<min, max, n, lmin, lmax>>
    BY <1>2 DEF AddData
  <2>1. Counted'
    BY <2>0
  <2>2. Loose'
    BY <2>0
  <2>3. FramedOrOnTheWay'
    BY <2>0
  <2>4. Attained'
    BY <2>0
  <2> QED BY <2>1, <2>2, <2>3, <2>4
<1>3. ASSUME NEW t \in Threads, AddCount(t)
      PROVE  Inv'
  <2>1. Counted'
    BY <1>3 DEF AddCount
  <2>2. Loose'
    BY <1>3 DEF AddCount
  <2>3. FramedOrOnTheWay'
    BY <1>3 DEF AddCount
  <2>4. Attained'
    BY <1>3 DEF AddCount
  <2> QED BY <2>1, <2>2, <2>3, <2>4
<1>4. ASSUME NEW t \in Threads, ReadMin(t)
      PROVE  Inv'
  <2>1. Counted'
    BY <1>4 DEF ReadMin
  <2>2. Loose'
    BY <1>4 DEF ReadMin
  <2>3. FramedOrOnTheWay'
    BY <1>4 DEF ReadMin
  <2>4. Attained'
    BY <1>4 DEF ReadMin
  <2> QED BY <2>1, <2>2, <2>3, <2>4
<1>5. ASSUME NEW t \in Threads, ReadMax(t)
      PROVE  Inv'
  <2>1. Counted'
    BY <1>5 DEF ReadMax
  <2>2. Loose'
    BY <1>5 DEF ReadMax
  <2>3. FramedOrOnTheWay'
    BY <1>5 DEF ReadMax
  <2>4. Attained'
    BY <1>5 DEF ReadMax
  <2> QED BY <2>1, <2>2, <2>3, <2>4
<1>6. ASSUME NEW t \in Threads, CasMin(t)
      PROVE  Inv'
  <2>1. Counted'
    BY <1>6 DEF CasMin
  <2>2. Loose'
    BY <1>6 DEF CasMin
  <2>3. FramedOrOnTheWay'
    BY <1>6 DEF CasMin
  <2>4. Attained'
    BY <1>6 DEF CasMin
  <2> QED BY <2>1, <2>2, <2>3, <2>4
<1>7. ASSUME NEW t \in Threads, MinDone(t)
      PROVE  Inv'
  <2>1. Counted'
    BY <1>7 DEF MinDone
  <2>2. Loose'
    BY <1>7 DEF MinDone
  <2>3. FramedOrOnTheWay'
    BY <1>7 DEF MinDone
  <2>4. Attained'
    BY <1>7 DEF MinDone
  <2> QED BY <2>1, <2>2, <2>3, <2>4
<1>8. ASSUME NEW t \in Threads, CasMax(t)
      PROVE  Inv'
  <2>1. Counted'
    BY <1>8 DEF CasMax
  <2>2. Loose'
    BY <1>8 DEF CasMax
  <2>3. FramedOrOnTheWay'
    BY <1>8 DEF CasMax
  <2>4. Attained'
    BY <1>8 DEF CasMax
  <2> QED BY <2>1, <2>2, <2>3, <2>4
<1>9. ASSUME NEW t \in Threads, Return(t)
      PROVE  Inv'
  <2>1. Counted'
    BY <1>9 DEF Return
  <2>2. Loose'
    BY <1>9 DEF Return
  <2>3. FramedOrOnTheWay'
    <3>1. \A u \in Threads : u # t => n'[u] = n[u] /\ pc'[u] = pc[u]
      BY <1>9 DEF Return
    <3>2. ~Lowering(t) /\ n[t] <= max
      BY <1>9 DEF Return
    <3>3. recorded' = recorded /\ min' = min /\ max' = max
      BY <1>9 DEF Return
    <3>4. ASSUME NEW w \in Buckets, recorded[w] > 0, ~(min <= w)
          PROVE  \E u \in Threads : n'[u] = w /\ Lowering(u)'
      <4>1. PICK u \in Threads : n[u] = w /\ Lowering(u)
        BY <1>a, <3>4 DEF FramedOrOnTheWay
      <4>2. u # t
        BY <3>2, <4>1
      <4> QED BY <3>1, <4>1, <4>2 DEF Lowering
    <3>5. ASSUME NEW w \in Buckets, recorded[w] > 0, ~(w <= max)
          PROVE  \E u \in Threads : n'[u] = w /\ Raising(u)'
      <4>1. PICK u \in Threads : n[u] = w /\ Raising(u)
        BY <1>a, <3>5 DEF FramedOrOnTheWay
      <4>2. u # t
        BY <3>2, <3>5, <4>1
      <4> QED BY <3>1, <4>1, <4>2 DEF Raising, Lowering
    <3> QED BY <3>3, <3>4, <3>5 DEF FramedOrOnTheWay
  <2>4. Attained'
    BY <1>9 DEF Return
  <2> QED BY <2>1, <2>2, <2>3, <2>4
<1>10. CASE UNCHANGED vars
  BY <1>10 DEF vars
<1> QED BY <1>1, <1>2, <1>3, <1>4, <1>5, <1>6, <1>7, <1>8, <1>9, <1>10 DEF Next, Step

LEMMA FrameGivesFramed == FrameInv => FramedAtRest
<1> SUFFICES ASSUME FrameInv, AtRest PROVE Framed
  BY DEF FramedAtRest
<1>1. ASSUME NEW v \in Buckets, recorded[v] > 0
      PROVE  min <= v /\ v <= max
  BY <1>1 DEF FrameInv, FramedOrOnTheWay, AtRest, Lowering, Raising
<1>2. (min # Infinity => recorded[min] > 0) /\ (recorded[max] > 0 \/ max = 0)
  BY DEF FrameInv, Attained
<1> QED BY <1>1, <1>2 DEF Framed

(* stats->min and stats->max frame what was recorded once every call has   *)
(* returned (stats.c:27-28): for every number of threads, no interleaving  *)
(* of the compare-and-swap loops leaves a sample outside the bounds that   *)
(* every loop over the histogram runs between.                             *)
THEOREM FramedCorrect == Spec => [](FramedAtRest /\ FramedOrOnTheWay)
<1>1. FrameInv => FramedAtRest /\ FramedOrOnTheWay
  BY FrameGivesFramed DEF FrameInv
<1> QED BY FrameInit, FrameNext, <1>1, PTL DEF Spec

LEMMA WidenNext == FrameType /\ [Next]_vars => min' <= min /\ max' >= max
<1> SUFFICES ASSUME FrameType, [Next]_vars PROVE min' <= min /\ max' >= max
  OBVIOUS
<1> USE StatsAssumption DEF FrameType, Buckets, shared
<1>1. ASSUME NEW t \in Threads, CasMin(t)
      PROVE  min' <= min /\ max' >= max
  BY <1>1 DEF CasMin
<1>2. ASSUME NEW t \in Threads, CasMax(t)
      PROVE  min' <= min /\ max' >= max
  BY <1>2 DEF CasMax
<1>3. ASSUME min' = min, max' = max
      PROVE  min' <= min /\ max' >= max
  BY <1>3
<1>4. [Next]_vars => \/ (min' = min /\ max' = max)
                    \/ (\E t \in Threads : CasMin(t) \/ CasMax(t))
  BY DEF Next, Step, Call, AddData, AddCount, ReadMin, ReadMax, MinDone, Return, vars
<1> QED BY <1>1, <1>2, <1>3, <1>4

(* No step raises min or lowers max, although the value a thread stores    *)
(* there (stats.c:27-28) was compared with one it had read earlier.        *)
THEOREM BoundsWiden == Spec => BoundsOnlyWiden
<1>1. TypeOK /\ [Next]_vars => [min' <= min /\ max' >= max]_vars
  BY WidenNext DEF TypeOK
<1> QED BY <1>1, TypeCorrect, PTL DEF Spec, BoundsOnlyWiden

(***************************************************************************)
(* A run of wrk.                                                           *)
(***************************************************************************)

(* ReadAlone is not inductive.  It becomes so with where the threads are:  *)
(* only a running thread is inside stats_record, main has started only     *)
(* threads it will join, and those it has joined stay ended.               *)
MainType ==
    /\ line \in CommandLines /\ i \in Nat
    /\ thr \in [Threads -> {"none", "running", "ended"}]

OnlyRunning == \A t \in Threads : thr[t] # "running" => pc[t] = "out"
WillBeJoined == \A t \in Threads : thr[t] = "running" => t <= line.threads
HasJoined ==
    /\ at = "join" => \A t \in Threads : t < i => thr[t] = "ended"
    /\ at \in Joined => \A t \in Threads : thr[t] # "running"

MainInv == FrameInv /\ MainType /\ OnlyRunning /\ WillBeJoined /\ HasJoined

LEMMA MainInvInit == MainInit => MainInv
<1> SUFFICES ASSUME MainInit PROVE MainInv
  OBVIOUS
<1>1. FrameInv
  BY FrameInit DEF MainInit
<1>2. MainType /\ OnlyRunning /\ WillBeJoined /\ HasJoined
  BY DEF MainInit, Init, MainType, OnlyRunning, WillBeJoined, HasJoined, Joined
<1> QED BY <1>1, <1>2 DEF MainInv

(* What a step of the run does to the bounds and the threads' locals: a    *)
(* step of stats_record, or nothing.                                       *)
LEMMA StatsStep ==
    ASSUME MainType, [MainNext]_allVars PROVE [Next]_vars \/ UNCHANGED outside
<1>1. CASE MainStep
  <2>1. CASE Correct
    BY <2>1 DEF Correct, Outer, Inner, InnerEnds, OuterEnds, outside
  <2>2. CASE Resolve \/ Create \/ InstallHandler \/ SleepEnds \/ Stop \/ Join \/ Interval
    BY <2>2 DEF Resolve, Create, InstallHandler, SleepEnds, Stop, Join, Interval, statsVars
  <2> QED BY <1>1, <2>1, <2>2 DEF MainStep
<1>2. CASE ParseArgs \/ InterruptSleep \/ InterruptElsewhere \/ Done \/ UNCHANGED allVars
  BY <1>2 DEF ParseArgs, InterruptSleep, InterruptElsewhere, Done, statsVars, allVars
<1>3. CASE \E t \in Threads : Recording(t) \/ ThreadEnds(t)
  BY <1>3 DEF Recording, ThreadEnds, Next, statsVars
<1>4. CASE \E t \in Threads : \E v \in line.values : Response(t, v)
  BY <1>4, WrkMainAssumption DEF Response, Next, MainType
<1> QED BY <1>1, <1>2, <1>3, <1>4 DEF MainNext

(* The frame depends on nothing that the correction changes.               *)
LEMMA FrameKept == FrameInv /\ UNCHANGED outside => FrameInv'
BY DEF FrameInv, FrameType, Counted, Loose, FramedOrOnTheWay, Attained, Lowering, Raising, outside

LEMMA MainInvNext == MainInv /\ [MainNext]_allVars => MainInv'
<1> SUFFICES ASSUME MainInv, [MainNext]_allVars PROVE MainInv'
  OBVIOUS
<1>1. FrameInv'
  BY StatsStep, FrameNext, FrameKept DEF MainInv
<1>2. pc \in [Threads -> Places] /\ Threads \subseteq Nat \ {0}
  BY WrkMainAssumption DEF MainInv, FrameInv, FrameType
<1>3. line.threads \in Nat /\ \A t \in Threads : t \in Nat \ {0}
  BY <1>2, WrkMainAssumption DEF MainInv, MainType
<1> DEFINE Inv == MainType /\ OnlyRunning /\ WillBeJoined /\ HasJoined
<1>a. Inv
  BY DEF MainInv
<1> SUFFICES Inv'
  BY <1>1 DEF MainInv
<1> USE <1>a, <1>2, <1>3 DEF MainType, OnlyRunning, WillBeJoined, HasJoined, Joined
<1>4. CASE ParseArgs
  BY <1>4 DEF ParseArgs, statsVars, vars
<1>5. CASE Resolve
  BY <1>5 DEF Resolve, statsVars, vars
<1>6. CASE Create
  BY <1>6 DEF Create, statsVars, vars
<1>7. CASE InstallHandler \/ SleepEnds \/ InterruptSleep \/ InterruptElsewhere
  BY <1>7 DEF InstallHandler, SleepEnds, InterruptSleep, InterruptElsewhere, mvars, statsVars, vars
<1>8. CASE Stop
  BY <1>8 DEF Stop, statsVars, vars
<1>9. CASE Join
  BY <1>9 DEF Join, statsVars, vars
<1>10. CASE Interval
  BY <1>10 DEF Interval, mvars, statsVars, vars
<1>11. CASE Correct /\ UNCHANGED mvars
  <2>1. at \in Joined /\ at' \in Joined /\ UNCHANGED pc
    BY <1>11 DEF Correct, Outer, Inner, InnerEnds, OuterEnds, outside
  <2> QED BY <1>11, <2>1 DEF mvars
<1>12. ASSUME NEW t \in Threads, Recording(t)
       PROVE  Inv'
  <2>1. UNCHANGED <<line, i, thr, at>> /\ thr[t] = "running"
    BY <1>12 DEF Recording, mvars
  <2>2. \A u \in Threads : u # t => pc'[u] = pc[u]
    BY <1>12 DEF Recording, Step, AddData, AddCount, ReadMin, ReadMax, CasMin, MinDone,
                 CasMax, Return, Goto
  <2> QED BY <2>1, <2>2
<1>13. ASSUME NEW t \in Threads, ThreadEnds(t)
       PROVE  Inv'
  BY <1>13 DEF ThreadEnds, statsVars, vars
<1>14. ASSUME NEW t \in Threads, NEW v \in line.values, Response(t, v)
       PROVE  Inv'
  <2>1. UNCHANGED <<line, i, thr, at>> /\ thr[t] = "running"
    BY <1>14 DEF Response
  <2>2. \A u \in Threads : u # t => pc'[u] = pc[u]
    BY <1>14 DEF Response, Call, Goto
  <2> QED BY <2>1, <2>2
<1>15. CASE Done \/ UNCHANGED allVars
  BY <1>15 DEF Done, allVars, mvars, vars
<1> QED BY <1>4, <1>5, <1>6, <1>7, <1>8, <1>9, <1>10, <1>11, <1>12, <1>13, <1>14, <1>15
        DEF MainNext, MainStep

LEMMA MainInvariant == MainSpec => []MainInv
BY MainInvInit, MainInvNext, PTL DEF MainSpec

(* From the first join on main reads the counters of ended threads, and    *)
(* from the correction on no thread is inside stats_record (wrk.c:170-217):*)
(* for every number of threads, wherever they and an interrupt are.        *)
THEOREM ReadAloneCorrect == MainSpec => []ReadAlone
<1>1. MainInv => ReadAlone
  BY DEF MainInv, MainType, OnlyRunning, HasJoined, ReadAlone, AtRest, Running
<1> QED BY <1>1, MainInvariant, PTL

(* The bounds frame the recorded samples whenever no thread is inside      *)
(* stats_record, so also while main corrects and reports (stats.c:32-110). *)
THEOREM MainFramed == MainSpec => []FramedAtRest
<1>1. MainInv => FramedAtRest
  BY FrameGivesFramed DEF MainInv
<1> QED BY <1>1, MainInvariant, PTL

(* Nothing main does narrows the bounds either.                            *)
THEOREM MainBoundsWiden == MainSpec => BoundsOnlyWiden
<1>1. MainInv /\ [MainNext]_allVars => [min' <= min /\ max' >= max]_vars
  <2> SUFFICES ASSUME MainInv, [MainNext]_allVars PROVE min' <= min /\ max' >= max
    OBVIOUS
  <2>1. FrameType
    BY DEF MainInv, FrameInv
  <2>2. CASE [Next]_vars
    BY <2>1, <2>2, WidenNext
  <2>3. CASE UNCHANGED outside
    BY <2>1, <2>3, StatsAssumption DEF FrameType, Buckets, outside
  <2> QED BY <2>2, <2>3, StatsStep DEF MainInv
<1> QED BY <1>1, MainInvariant, PTL DEF MainSpec, BoundsOnlyWiden

(***************************************************************************)
(* Sums.  The total of a histogram is the number of its samples, so the    *)
(* laws of a sum are those of finite sets.                                 *)
(***************************************************************************)
(* What a sample of a histogram is.                                        *)
LEMMA SamplesIn ==
    ASSUME NEW D, NEW d \in [D -> Nat]
    PROVE  /\ \A x \in Samples(d) : x[1] \in D /\ x[2] \in 1 .. d[x[1]] /\ x = <<x[1], x[2]>>
           /\ \A v \in D : \A k \in 1 .. d[v] : <<v, k>> \in Samples(d)
BY DEF Samples

(* A histogram of finitely many buckets has finitely many samples.         *)
LEMMA FiniteTotal ==
    ASSUME NEW D, IsFiniteSet(D), NEW d \in [D -> Nat]
    PROVE  IsFiniteSet(Samples(d)) /\ Total(d) \in Nat
<1> DEFINE S == {{v} \X (1 .. d[v]) : v \in D}
<1>1. ASSUME NEW v \in D
      PROVE  IsFiniteSet({v} \X (1 .. d[v]))
  <2>1. PICK x \in Nat : d[v] = x
    OBVIOUS
  <2>2. IsFiniteSet({v})
    BY FS_Singleton
  <2>3. IsFiniteSet(1 .. x)
    BY FS_Interval
  <2>4. IsFiniteSet({v} \X (1 .. x))
    BY <2>2, <2>3, FS_Product
  <2> QED BY <2>1, <2>4
<1>2. IsFiniteSet(S)
  <2> DEFINE f == [v \in D |-> {v} \X (1 .. d[v])]
  <2>1. f \in Surjection(D, S)
    BY DEF Surjection
  <2> HIDE DEF f, S
  <2> QED BY <2>1, FS_Surjection
<1>3. IsFiniteSet(UNION S)
  BY <1>1, <1>2, FS_UNION
<1>4. Samples(d) = UNION S
  BY DEF Samples
<1> QED BY <1>3, <1>4, FS_CardinalityType DEF Total

(* An empty histogram has none.                                            *)
LEMMA TotalOfZeros ==
    ASSUME NEW D, NEW d \in [D -> Nat], \A v \in D : d[v] = 0
    PROVE  Total(d) = 0
<1>1. Samples(d) = {}
  BY SamplesIn
<1> QED BY <1>1, FS_EmptySet DEF Total

(* Histograms of disjoint buckets.                                         *)
LEMMA TotalSplits ==
    ASSUME NEW D, IsFiniteSet(D), NEW d \in [D -> Nat],
           NEW A, NEW B, D = A \cup B, A \cap B = {}
    PROVE  Total(d) = Total(Restrict(d, A)) + Total(Restrict(d, B))
<1> DEFINE a == Restrict(d, A)
           b == Restrict(d, B)
<1>1. a \in [A -> Nat] /\ (\A v \in A : a[v] = d[v]) /\ IsFiniteSet(A)
  BY FS_Subset DEF Restrict
<1>2. b \in [B -> Nat] /\ (\A v \in B : b[v] = d[v]) /\ IsFiniteSet(B)
  BY FS_Subset DEF Restrict
<1> HIDE DEF a, b
<1>3. /\ IsFiniteSet(Samples(a)) /\ Total(a) \in Nat
      /\ IsFiniteSet(Samples(b)) /\ Total(b) \in Nat
  BY <1>1, <1>2, FiniteTotal
<1>4. Samples(d) = Samples(a) \cup Samples(b)
  BY <1>1, <1>2 DEF Samples
<1>5. Samples(a) \cap Samples(b) = {}
  <2>1. \A x \in Samples(a) : x[1] \in A
    BY <1>1, SamplesIn
  <2>2. \A x \in Samples(b) : x[1] \in B
    BY <1>2, SamplesIn
  <2> QED BY <2>1, <2>2
<1>6. Cardinality(Samples(a) \cap Samples(b)) = 0
  BY <1>5, FS_EmptySet
<1>7. Total(d) = Total(a) + Total(b) - 0
  BY <1>3, <1>4, <1>6, FS_Union DEF Total
<1> QED BY <1>3, <1>7 DEF a, b

(* A single bucket.                                                        *)
LEMMA TotalOfOne ==
    ASSUME NEW v, NEW d \in [{v} -> Nat]
    PROVE  Total(d) = d[v]
<1>1. PICK x \in Nat : d[v] = x
  OBVIOUS
<1>2. Samples(d) = {v} \X (1 .. x)
  BY <1>1 DEF Samples
<1>3. IsFiniteSet({v}) /\ Cardinality({v}) = 1
  BY FS_Singleton
<1>4. IsFiniteSet(1 .. x) /\ Cardinality(1 .. x) = x
  BY FS_Interval
<1>5. Cardinality({v} \X (1 .. x)) = 1 * x
  BY <1>3, <1>4, FS_Product
<1> QED BY <1>1, <1>2, <1>5 DEF Total

(* One bucket is taken out.                                                *)
LEMMA TotalWithout ==
    ASSUME NEW D, IsFiniteSet(D), NEW d \in [D -> Nat], NEW v \in D
    PROVE  Total(d) = Total(Restrict(d, D \ {v})) + d[v]
<1> DEFINE r == Restrict(d, {v})
<1>1. r \in [{v} -> Nat] /\ r[v] = d[v]
  BY DEF Restrict
<1> HIDE DEF r
<1>2. Total(r) = d[v]
  BY <1>1, TotalOfOne
<1>3. D = (D \ {v}) \cup {v} /\ (D \ {v}) \cap {v} = {}
  OBVIOUS
<1> QED BY <1>2, <1>3, TotalSplits DEF r

(* One bucket grows.                                                       *)
LEMMA TotalAdds ==
    ASSUME NEW D, IsFiniteSet(D), NEW d \in [D -> Nat], NEW v \in D, NEW k \in Nat,
           NEW e \in [D -> Nat], e[v] = d[v] + k, \A u \in D \ {v} : e[u] = d[u]
    PROVE  Total(e) = Total(d) + k
<1>1. Restrict(e, D \ {v}) = Restrict(d, D \ {v})
  BY DEF Restrict
<1> DEFINE R == Total(Restrict(d, D \ {v}))
<1>2. Total(e) = R + e[v] /\ Total(d) = R + d[v]
  BY <1>1, TotalWithout
<1>3. R \in Nat
  <2>1. IsFiniteSet(D \ {v})
    BY FS_Subset
  <2>2. Restrict(d, D \ {v}) \in [D \ {v} -> Nat]
    BY DEF Restrict
  <2> QED BY <2>1, <2>2, FiniteTotal
<1>4. PICK x \in Nat : x = d[v]
  OBVIOUS
<1> HIDE DEF R
<1>5. Total(e) = R + (x + k) /\ Total(d) = R + x
  BY <1>2, <1>4
<1> QED BY <1>3, <1>5

(* Empty buckets may be left out.                                          *)
LEMMA TotalOfRest ==
    ASSUME NEW D, IsFiniteSet(D), NEW d \in [D -> Nat],
           NEW A \in SUBSET D, \A v \in D \ A : d[v] = 0
    PROVE  Total(Restrict(d, A)) = Total(d)
<1> DEFINE r == Restrict(d, D \ A)
<1>1. r \in [D \ A -> Nat] /\ \A v \in D \ A : r[v] = 0
  BY DEF Restrict
<1>2. Restrict(d, A) \in [A -> Nat] /\ IsFiniteSet(A)
  BY FS_Subset DEF Restrict
<1> HIDE DEF r
<1>3. Total(r) = 0
  BY <1>1, TotalOfZeros
<1>4. Total(Restrict(d, A)) \in Nat
  BY <1>2, FiniteTotal
<1>5. Total(d) = Total(Restrict(d, A)) + Total(r)
  BY TotalSplits DEF r
<1> QED BY <1>3, <1>4, <1>5

(* Quotient and remainder, and that the remainder is the only one.         *)
LEMMA DivMod ==
    ASSUME NEW e \in Nat \ {0}, NEW a \in Nat
    PROVE  \E q \in Nat : \E r \in 0 .. e - 1 : a = q * e + r /\ r = a % e
<1>1. a \div e \in Nat /\ a % e \in 0 .. e - 1 /\ a = (a \div e) * e + (a % e)
  OBVIOUS
<1> QED BY <1>1

LEMMA Remainder ==
    ASSUME NEW e \in Nat \ {0}, NEW q \in Nat, NEW r \in 0 .. e - 1
    PROVE  (q * e + r) % e = r
<1>1. q * e + r \in Nat
  OBVIOUS
<1>2. PICK p \in Nat, s \in 0 .. e - 1 : q * e + r = p * e + s /\ s = (q * e + r) % e
  BY <1>1, DivMod
<1>3. (p - q) * e = r - s
  BY <1>2
<1>4. p - q >= 1 => (p - q) * e >= e
  OBVIOUS
<1>5. p - q <= -1 => (p - q) * e <= -e
  OBVIOUS
<1>6. p = q
  BY <1>3, <1>4, <1>5
<1> QED BY <1>2, <1>6

(* Remainders from a multiple of e on.                                     *)
LEMMA RemainderAdds ==
    ASSUME NEW e \in Nat \ {0}, NEW a \in Nat, a % e = 0, NEW r \in 0 .. e - 1
    PROVE  (a + r) % e = r /\ (a + e) % e = 0
<1>1. PICK q \in Nat, s \in 0 .. e - 1 : a = q * e + s /\ s = a % e
  BY DivMod
<1>2. a = q * e
  BY <1>1
<1>3. (q * e + r) % e = r
  BY Remainder
<1>4. ((q + 1) * e + 0) % e = 0
  BY Remainder
<1>5. (q + 1) * e + 0 = a + e
  BY <1>2
<1> QED BY <1>2, <1>3, <1>4, <1>5

(***************************************************************************)
(* What the threads have counted, what main makes of it, and how far the   *)
(* correction is.  ReportIsComplete and CorrectedOnce are not inductive:   *)
(* a thread between its two additions has counted only one of them, a      *)
(* joined sum is a part of the whole, and the correction has come to some  *)
(* bucket and, there, to some place.                                       *)
(***************************************************************************)
(* The threads at a place of stats_record.                                 *)
AtPlace(p) == {t \in Threads : pc[t] = p}

(* count lags behind the buckets by the threads between the two additions  *)
(* (stats.c:23-24).                                                        *)
Sampled ==
    /\ data \in [Buckets -> Nat] /\ count \in Nat
    /\ count + Cardinality(AtPlace("count")) = Total(data)

(* The threads' counters sum up to the responses.                          *)
Answered ==
    /\ complete \in [Threads -> Nat] /\ calls \in Nat
    /\ Total(complete) = calls /\ calls <= line.calls
    /\ \A t \in Threads : t > line.threads => complete[t] = 0

(* The histogram lags behind the responses by the threads that have not    *)
(* reached their first addition; latencies beyond the limit are not in     *)
(* it.                                                                     *)
InHistogram ==
    LET late == Cardinality(AtPlace("data")) IN
    /\ Total(recorded) + late <= Total(complete)
    /\ line.values \subseteq Buckets => Total(recorded) + late = Total(complete)

(* The sum main takes is that of the threads it has joined.                *)
Summed ==
    /\ total \in Nat
    /\ at \in {"start", "resolve", "create", "sleep", "awake"} => total = 0
    /\ at = "join" => i >= 1 /\ total = Total(Restrict(complete, {t \in Threads : t < i}))
    /\ at \in Joined => total = Total(complete)

(* Main goes on only with options it accepts.                              *)
Understood == at \notin {"start", "usage"} => OptionsOK(line)

SumInv == Sampled /\ Answered /\ InHistogram /\ Summed /\ Understood

(* The samples added at v by the buckets below r.                          *)
AddedBelow(v, r) == Total(Restrict(recorded, {u \in From(v) : u < r}))

(* Where the outer loop is.                                                *)
Reached ==
    at \in {"outer", "inner"} =>
        expected \in Nat \ {0} /\ reached \in Nat /\ reached >= 2 * expected

(* Between two buckets all that the lower ones add has been added.         *)
Passed ==
    /\ at \notin Joined => data = recorded /\ expected = 0
    /\ at = "outer" => \A v \in Buckets : data[v] = recorded[v] + AddedBelow(v, reached)
    /\ at = "report" => \A v \in Buckets : data[v] = recorded[v] + Added(v)

(* Inside the inner loop it also added at the places above m.              *)
Passing ==
    at = "inner" =>
        /\ reached <= max /\ left = recorded[reached]
        /\ m \in 1 .. reached - 1 /\ (reached - m) % expected = 0
        /\ \A v \in Buckets :
              data[v] = recorded[v] + AddedBelow(v, reached)
                            + (IF reached \in From(v) /\ v > m THEN left ELSE 0)

CorrectInv == Reached /\ Passed /\ Passing

---------------------------------------------------------------------------
(* The threads at a place of stats_record are finitely many.               *)
LEMMA PlacesFinite == \A p : IsFiniteSet(AtPlace(p)) /\ Cardinality(AtPlace(p)) \in Nat
<1>1. ASSUME NEW p PROVE IsFiniteSet(AtPlace(p)) /\ Cardinality(AtPlace(p)) \in Nat
  <2>1. AtPlace(p) \in SUBSET Threads
    BY DEF AtPlace
  <2>2. IsFiniteSet(Threads)
    BY WrkMainAssumption
  <2>3. IsFiniteSet(AtPlace(p))
    BY <2>1, <2>2, FS_Subset
  <2> QED BY <2>3, FS_CardinalityType
<1> QED BY <1>1

(* A thread that goes from one place to another is counted there instead.  *)
LEMMA Moves ==
    ASSUME pc \in [Threads -> Places], NEW t \in Threads,
           NEW p, NEW q, p # q, pc[t] = p, Goto(t, q)
    PROVE  /\ Cardinality(AtPlace(q)') = Cardinality(AtPlace(q)) + 1
           /\ Cardinality(AtPlace(p)') = Cardinality(AtPlace(p)) - 1
           /\ \A r : r \notin {p, q} => AtPlace(r)' = AtPlace(r)
<1>1. /\ AtPlace(q)' = AtPlace(q) \cup {t} /\ t \notin AtPlace(q)
      /\ AtPlace(p)' = AtPlace(p) \ {t} /\ t \in AtPlace(p)
  BY DEF AtPlace, Goto
<1>2. \A r : r \notin {p, q} => AtPlace(r)' = AtPlace(r)
  BY DEF AtPlace, Goto
<1>3. IsFiniteSet(AtPlace(q)) /\ IsFiniteSet(AtPlace(p))
  BY PlacesFinite
<1>4. Cardinality(AtPlace(q) \cup {t}) = Cardinality(AtPlace(q)) + 1
  BY <1>1, <1>3, FS_AddElement
<1>5. Cardinality(AtPlace(p) \ {t}) = Cardinality(AtPlace(p)) - 1
  BY <1>1, <1>3, FS_RemoveElement
<1> QED BY <1>1, <1>2, <1>4, <1>5

(* So are the buckets.                                                     *)
LEMMA BucketsFinite == IsFiniteSet(Buckets)
<1>1. Limit - 1 \in Int
  BY StatsAssumption
<1> QED BY <1>1, FS_Interval DEF Buckets

(* A step inside stats_record: one sample more, and its thread counts it.  *)
LEMMA SampledStep ==
    ASSUME FrameType, Sampled, NEW t \in Threads, Step(t)
    PROVE  Sampled'
<1> DEFINE K == Cardinality(AtPlace("count"))
           T == Total(data)
<1>0. /\ pc \in [Threads -> Places] /\ n[t] \in Nat /\ (pc[t] # "out" => n[t] \in Buckets)
      /\ data \in [Buckets -> Nat] /\ count \in Nat /\ count + K = T
  BY DEF FrameType, Sampled
<1>1. K \in Nat /\ T \in Nat
  BY <1>0, PlacesFinite, BucketsFinite, FiniteTotal
<1>2. CASE AddData(t)
  <2>1. /\ pc[t] = "data" /\ Goto(t, "count") /\ count' = count
        /\ data' = [data EXCEPT ![n[t]] = @ + 1] /\ n[t] \in Buckets
    BY <1>0, <1>2 DEF AddData
  <2>2. K' = K + 1
    BY <1>0, <2>1, Moves
  <2>3. Total(data') = T + 1
    <3>1. /\ IsFiniteSet(Buckets) /\ data \in [Buckets -> Nat] /\ n[t] \in Buckets /\ 1 \in Nat
          /\ data' \in [Buckets -> Nat] /\ data'[n[t]] = data[n[t]] + 1
          /\ \A u \in Buckets \ {n[t]} : data'[u] = data[u]
      BY <1>0, <2>1, BucketsFinite
    <3>2. Total(data') = Total(data) + 1
      BY ONLY <3>1, TotalAdds
    <3> QED BY <3>2
  <2>4. data' \in [Buckets -> Nat]
    BY <1>0, <2>1
  <2> HIDE DEF K, T
  <2>5. count' + K' = T + 1
    BY <1>0, <1>1, <2>1, <2>2
  <2> QED BY <1>0, <2>1, <2>3, <2>4, <2>5 DEF Sampled, K
<1>3. CASE AddCount(t)
  <2>1. /\ pc[t] = "count" /\ Goto(t, "readMin") /\ count' = count + 1 /\ data' = data
    BY <1>3 DEF AddCount
  <2>2. K' = K - 1
    BY <1>0, <2>1, Moves
  <2> HIDE DEF K, T
  <2>3. count' + K' = T
    BY <1>0, <1>1, <2>1, <2>2
  <2> QED BY <1>0, <2>1, <2>3 DEF Sampled, K, T
<1>4. CASE UNCHANGED <<data, count>> /\ AtPlace("count")' = AtPlace("count")
  BY <1>4 DEF Sampled
<1>5. ASSUME NEW q, q # "count", pc[t] # "count", Goto(t, q)
      PROVE  AtPlace("count")' = AtPlace("count")
  BY <1>0, <1>5 DEF AtPlace, Goto
<1>6. CASE ReadMin(t) \/ ReadMax(t) \/ CasMin(t) \/ MinDone(t) \/ CasMax(t) \/ Return(t)
  <2>1. UNCHANGED <<data, count>>
    BY <1>6 DEF ReadMin, ReadMax, CasMin, MinDone, CasMax, Return, shared
  <2>2. AtPlace("count")' = AtPlace("count")
    <3>1. CASE CasMin(t) \/ CasMax(t)
      BY <3>1 DEF CasMin, CasMax, AtPlace
    <3>2. CASE ReadMin(t) \/ ReadMax(t) \/ MinDone(t) \/ Return(t)
      BY <1>5, <3>2 DEF ReadMin, ReadMax, MinDone, Return
    <3> QED BY <1>6, <3>1, <3>2
  <2> QED BY <1>4, <2>1, <2>2
<1> QED BY <1>2, <1>3, <1>6 DEF Step

(* A call does not touch the histogram.                                    *)
LEMMA SampledCall ==
    ASSUME FrameType, Sampled, NEW t \in Threads, NEW v \in Values, Call(t, v)
    PROVE  Sampled'
<1>1. pc \in [Threads -> Places]
  BY DEF FrameType
<1>2. UNCHANGED <<data, count>>
  BY DEF Call, shared
<1>3. AtPlace("count")' = AtPlace("count")
  BY <1>1 DEF Call, Goto, AtPlace
<1> QED BY <1>2, <1>3 DEF Sampled

(* How many samples a thread still has to add to the buckets.              *)
LEMMA HistogramStep ==
    ASSUME FrameType, InHistogram, NEW t \in Threads, Step(t),
           UNCHANGED <<line, complete>>
    PROVE  InHistogram'
<1> DEFINE K == Cardinality(AtPlace("data"))
           T == Total(recorded)
           C == Total(complete)
<1>0. /\ pc \in [Threads -> Places] /\ (pc[t] # "out" => n[t] \in Buckets)
      /\ recorded \in [Buckets -> Nat]
      /\ T + K <= C /\ (line.values \subseteq Buckets => T + K = C)
  BY DEF FrameType, InHistogram
<1>1. K \in Nat /\ T \in Nat
  BY <1>0, PlacesFinite, BucketsFinite, FiniteTotal
<1>2. CASE AddData(t)
  <2>1. /\ pc[t] = "data" /\ Goto(t, "count")
        /\ recorded' = [recorded EXCEPT ![n[t]] = @ + 1] /\ n[t] \in Buckets
    BY <1>0, <1>2 DEF AddData
  <2>2. K' = K - 1
    BY <1>0, <2>1, Moves
  <2>3. T' = T + 1
    <3>1. /\ IsFiniteSet(Buckets) /\ recorded \in [Buckets -> Nat] /\ n[t] \in Buckets /\ 1 \in Nat
          /\ recorded' \in [Buckets -> Nat] /\ recorded'[n[t]] = recorded[n[t]] + 1
          /\ \A u \in Buckets \ {n[t]} : recorded'[u] = recorded[u]
      BY <1>0, <2>1, BucketsFinite
    <3>2. Total(recorded') = Total(recorded) + 1
      BY ONLY <3>1, TotalAdds
    <3> QED BY <3>2
  <2>4. C' = C /\ line' = line /\ Buckets' = Buckets
    BY DEF Buckets
  <2> HIDE DEF K, T, C
  <2>5. T' + K' = T + K
    BY <1>1, <2>2, <2>3
  <2> QED BY <1>0, <2>4, <2>5 DEF InHistogram, K, T, C
<1>3. CASE ~AddData(t)
  <2>1. UNCHANGED recorded
    BY <1>3 DEF Step, AddCount, ReadMin, ReadMax, CasMin, MinDone, CasMax, Return, shared
  <2>2. AtPlace("data")' = AtPlace("data")
    <3>1. CASE CasMin(t) \/ CasMax(t)
      BY <3>1 DEF CasMin, CasMax, AtPlace
    <3>2. CASE AddCount(t) \/ ReadMin(t) \/ ReadMax(t) \/ MinDone(t) \/ Return(t)
      BY <1>0, <3>2 DEF AddCount, ReadMin, ReadMax, MinDone, Return, AtPlace, Goto
    <3> QED BY <1>3, <3>1, <3>2 DEF Step
  <2> QED BY <2>1, <2>2 DEF InHistogram, Buckets
<1> QED BY <1>2, <1>3

(* A response more, and its latency unless it is beyond the limit.         *)
LEMMA ResponseCounted ==
    ASSUME FrameType, MainType, Answered, InHistogram, WillBeJoined,
           NEW t \in Threads, NEW v \in line.values, Response(t, v)
    PROVE  Answered' /\ InHistogram'
<1> DEFINE K == Cardinality(AtPlace("data"))
           T == Total(recorded)
           C == Total(complete)
<1>0. /\ pc \in [Threads -> Places] /\ pc[t] = "out" /\ recorded \in [Buckets -> Nat]
      /\ complete \in [Threads -> Nat] /\ C = calls /\ calls \in Nat
      /\ T + K <= C /\ (line.values \subseteq Buckets => T + K = C)
  BY DEF FrameType, Answered, InHistogram, Response, Call
<1>1. /\ IsFiniteSet(Threads) /\ v \in Nat /\ line.calls \in Nat
      /\ t \in Nat /\ line.threads \in Nat
  <2>1. line \in CommandLines
    BY DEF MainType
  <2>2. line.calls \in Nat /\ line.threads \in Nat /\ line.values \subseteq Values
    BY <2>1, WrkMainAssumption, StatsAssumption
  <2>3. t \in Nat /\ IsFiniteSet(Threads)
    BY WrkMainAssumption
  <2> QED BY <2>2, <2>3, StatsAssumption
<1>2. K \in Nat /\ T \in Nat /\ C \in Nat
  BY <1>0, <1>1, PlacesFinite, BucketsFinite, FiniteTotal
<1>3. /\ complete' = [complete EXCEPT ![t] = @ + 1] /\ calls' = calls + 1 /\ calls < line.calls
      /\ UNCHANGED <<line, recorded>> /\ thr[t] = "running"
      /\ Goto(t, IF v >= Limit THEN "out" ELSE "data")
  BY DEF Response, Call, shared
<1>4. C' = C + 1
  <2>1. /\ IsFiniteSet(Threads) /\ complete \in [Threads -> Nat] /\ t \in Threads /\ 1 \in Nat
        /\ complete' \in [Threads -> Nat] /\ complete'[t] = complete[t] + 1
        /\ \A u \in Threads \ {t} : complete'[u] = complete[u]
    BY <1>0, <1>1, <1>3
  <2>2. Total(complete') = Total(complete) + 1
    BY ONLY <2>1, TotalAdds
  <2> QED BY <2>2
<1>5. Answered'
  <2>1. complete' \in [Threads -> Nat] /\ \A u \in Threads : u # t => complete'[u] = complete[u]
    BY <1>0, <1>3
  <2>2. ~(t > line.threads)
    BY <1>1, <1>3 DEF WillBeJoined
  <2> HIDE DEF C
  <2>3. C' = calls' /\ calls' \in Nat /\ calls' <= line'.calls
    BY <1>0, <1>1, <1>3, <1>4
  <2> QED BY <1>3, <2>1, <2>2, <2>3 DEF Answered, C
<1>6. T' = T
  BY <1>3
<1>7. CASE v >= Limit
  <2>1. AtPlace("data")' = AtPlace("data")
    BY <1>0, <1>3, <1>7 DEF Goto, AtPlace
  <2>2. ~(line.values \subseteq Buckets)
    BY <1>1, <1>7, StatsAssumption DEF Buckets
  <2>3. K' = K
    BY <2>1
  <2> HIDE DEF K, T, C
  <2>4. T' + K' <= C'
    BY <1>0, <1>2, <1>4, <1>6, <2>3
  <2> QED BY <1>3, <1>5, <2>2, <2>4 DEF InHistogram, K, T, C, Buckets
<1>8. CASE ~(v >= Limit)
  <2>1. K' = K + 1
    BY <1>0, <1>3, <1>8, Moves
  <2> HIDE DEF K, T, C
  <2>2. T' + K' <= C' /\ (T + K = C => T' + K' = C')
    BY <1>0, <1>2, <1>4, <1>6, <2>1
  <2> QED BY <1>0, <1>3, <1>5, <2>2 DEF InHistogram, K, T, C, Buckets
<1> QED BY <1>7, <1>8

(* What main does besides the correction changes neither the histogram nor *)
(* the threads' counters.                                                  *)
Quiet == UNCHANGED <<line, complete, data, count, min, max, recorded, pc, n, lmin, lmax, calls>>

(* The four kinds of steps of a run.                                       *)
LEMMA StepKinds ==
    ASSUME [MainNext]_allVars
    PROVE  \/ Quiet
           \/ Correct /\ UNCHANGED mvars
           \/ \E t \in Threads : Recording(t)
           \/ \E t \in Threads : \E v \in line.values : Response(t, v)
<1>1. CASE MainStep
  BY <1>1 DEF MainStep, Resolve, Create, InstallHandler, SleepEnds, Stop, Join, Interval,
              mvars, statsVars, vars, Quiet
<1>2. CASE ParseArgs \/ InterruptSleep \/ InterruptElsewhere \/ Done \/ UNCHANGED allVars
  BY <1>2 DEF ParseArgs, InterruptSleep, InterruptElsewhere, Done, mvars, allVars, statsVars, vars,
              Quiet
<1>3. CASE \E t \in Threads : ThreadEnds(t)
  BY <1>3 DEF ThreadEnds, statsVars, vars, Quiet
<1> QED BY <1>1, <1>2, <1>3 DEF MainNext

(* All sums start at zero.                                                 *)
LEMMA SumInvInit == MainInit => SumInv /\ CorrectInv
<1> SUFFICES ASSUME MainInit PROVE SumInv /\ CorrectInv
  OBVIOUS
<1>1. /\ data \in [Buckets -> Nat] /\ recorded \in [Buckets -> Nat] /\ complete \in [Threads -> Nat]
      /\ data = recorded /\ count = 0 /\ calls = 0 /\ total = 0 /\ expected = 0 /\ at = "start"
      /\ \A v \in Buckets : data[v] = 0
      /\ \A t \in Threads : complete[t] = 0 /\ pc[t] = "out"
  BY DEF MainInit, Init
<1>2. Total(data) = 0 /\ Total(recorded) = 0 /\ Total(complete) = 0
  BY <1>1, TotalOfZeros
<1>3. Cardinality(AtPlace("data")) = 0 /\ Cardinality(AtPlace("count")) = 0
  <2>1. AtPlace("data") = {} /\ AtPlace("count") = {}
    BY <1>1 DEF AtPlace
  <2> QED BY <2>1, FS_EmptySet
<1>4. line.calls \in Nat
  BY WrkMainAssumption DEF MainInit
<1>5. Sampled /\ Answered /\ InHistogram
  BY <1>1, <1>2, <1>3, <1>4 DEF Sampled, Answered, InHistogram
<1>6. Summed /\ Understood
  BY <1>1 DEF Summed, Understood, Joined
<1>7. CorrectInv
  BY <1>1 DEF CorrectInv, Reached, Passed, Passing, Joined
<1> QED BY <1>5, <1>6, <1>7 DEF SumInv

(* The correction counts what it adds.                                     *)
LEMMA SampledCorrect ==
    ASSUME FrameType, Sampled, Reached, Passing, Correct
    PROVE  Sampled'
<1> DEFINE K == Cardinality(AtPlace("count"))
           T == Total(data)
<1>0. /\ recorded \in [Buckets -> Nat] /\ max \in Buckets
      /\ data \in [Buckets -> Nat] /\ count \in Nat /\ count + K = T
  BY DEF FrameType, Sampled
<1>1. K \in Nat /\ T \in Nat
  BY <1>0, PlacesFinite, BucketsFinite, FiniteTotal
<1>2. AtPlace("count")' = AtPlace("count")
  BY DEF Correct, Outer, Inner, InnerEnds, OuterEnds, outside, AtPlace
<1>3. CASE Inner
  <2>1. /\ at = "inner" /\ data' = [data EXCEPT ![m] = @ + left] /\ count' = count + left
    BY <1>3 DEF Inner
  <2>2. reached <= max /\ left = recorded[reached] /\ m \in 1 .. reached - 1 /\ reached \in Nat
    BY <2>1 DEF Reached, Passing
  <2>3. m \in Buckets /\ reached \in Buckets
    BY <1>0, <2>2, StatsAssumption DEF Buckets
  <2>4. left \in Nat
    BY <1>0, <2>2, <2>3
  <2>5. /\ IsFiniteSet(Buckets) /\ data \in [Buckets -> Nat] /\ m \in Buckets /\ left \in Nat
        /\ data' \in [Buckets -> Nat] /\ data'[m] = data[m] + left
        /\ \A u \in Buckets \ {m} : data'[u] = data[u]
    BY <1>0, <2>1, <2>3, <2>4, BucketsFinite
  <2>6. Total(data') = Total(data) + left
    BY ONLY <2>5, TotalAdds
  <2>7. K' = K
    BY <1>2
  <2> HIDE DEF K, T
  <2>8. count' \in Nat /\ count' + K' = T + left
    BY <1>0, <1>1, <2>1, <2>4, <2>7
  <2> QED BY <2>5, <2>6, <2>8 DEF Sampled, K, T
<1>4. CASE UNCHANGED <<data, count>>
  BY <1>2, <1>4 DEF Sampled
<1> QED BY <1>3, <1>4 DEF Correct, Outer, InnerEnds, OuterEnds

(* The threads that main has joined keep their counters.                   *)
LEMMA SummedNext ==
    ASSUME MainInv, MainInv', Answered, Answered', Summed, Understood, [MainNext]_allVars
    PROVE  Summed' /\ Understood'
<1>0. /\ Threads \subseteq Nat \ {0} /\ IsFiniteSet(Threads)
      /\ line.threads \in Nat /\ 1 .. line.threads \subseteq Threads
      /\ i \in Nat /\ complete \in [Threads -> Nat] /\ total \in Nat
      /\ \A t \in Threads : t \in Nat /\ t >= 1
  BY WrkMainAssumption DEF MainInv, MainType, Answered, Summed
<1> DEFINE Joining(k) == {t \in Threads : t < k}
           First(k) == Total(Restrict(complete, Joining(k)))
<1>1. ASSUME NEW k \in Nat
      PROVE  /\ Restrict(complete, Joining(k)) \in [Joining(k) -> Nat] /\ IsFiniteSet(Joining(k))
             /\ First(k) \in Nat
  <2>1. Restrict(complete, Joining(k)) \in [Joining(k) -> Nat]
    BY <1>0 DEF Restrict
  <2>2. IsFiniteSet(Joining(k))
    BY <1>0, FS_Subset
  <2> QED BY <2>1, <2>2, FiniteTotal
<1>2. CASE ParseArgs
  BY <1>2 DEF ParseArgs, Summed, Understood, Joined
<1>3. CASE Resolve \/ Create \/ InstallHandler \/ SleepEnds \/ InterruptSleep \/ InterruptElsewhere
  BY <1>3 DEF Resolve, Create, InstallHandler, SleepEnds, InterruptSleep, InterruptElsewhere, mvars,
              Summed, Understood, OptionsOK, Joined
<1>4. CASE Stop
  <2>1. at = "awake" /\ at' = "join" /\ i' = 1 /\ UNCHANGED <<line, complete, total>>
    BY <1>4 DEF Stop
  <2>2. Joining(1) = {}
    <3>1. \A t \in Threads : ~(t < 1)
      BY <1>0
    <3> QED BY <3>1
  <2>3. First(1) = 0
    <3>1. Restrict(complete, Joining(1)) \in [{} -> Nat]
      BY <2>2 DEF Restrict
    <3> QED BY <3>1, TotalOfZeros
  <2>4. {t \in Threads : t < i'} = Joining(1)
    BY <2>1
  <2> QED BY <2>1, <2>3, <2>4 DEF Summed, Understood, OptionsOK, Joined
<1>5. CASE Join
  <2>1. /\ at = "join" /\ at' = "join" /\ i' = i + 1 /\ UNCHANGED <<line, complete>>
        /\ total' = total + complete[i] /\ i <= line.threads
    BY <1>5 DEF Join
  <2>2. i \in Threads
    <3>1. i >= 1
      BY <2>1 DEF Summed
    <3> QED BY <1>0, <2>1, <3>1
  <2>3. /\ Joining(i + 1) = Joining(i) \cup {i}
        /\ i \in Joining(i + 1) /\ Joining(i + 1) \ {i} = Joining(i)
    <3>1. \A t \in Threads : (t < i + 1 <=> t < i \/ t = i) /\ ~(i < i)
      BY <1>0
    <3> QED BY <2>2, <3>1
  <2> DEFINE d == Restrict(complete, Joining(i + 1))
  <2>4. /\ d \in [Joining(i + 1) -> Nat] /\ IsFiniteSet(Joining(i + 1)) /\ d[i] = complete[i]
        /\ Restrict(d, Joining(i)) = Restrict(complete, Joining(i))
    <3>1. i + 1 \in Nat
      BY <1>0
    <3>2. d[i] = complete[i] /\ Restrict(d, Joining(i)) = Restrict(complete, Joining(i))
      BY <2>3 DEF Restrict
    <3> QED BY <1>1, <3>1, <3>2
  <2> HIDE DEF d, Joining
  <2>5. Total(d) = Total(Restrict(d, Joining(i + 1) \ {i})) + d[i]
    BY <2>3, <2>4, TotalWithout
  <2>6. Total(d) = total'
    BY <2>1, <2>3, <2>4, <2>5 DEF Summed, Joining
  <2>7. total' \in Nat
    BY <1>0, <2>1, <2>2
  <2>8. i' >= 1
    BY <1>0, <2>1
  <2> QED BY <2>1, <2>6, <2>7, <2>8 DEF d, Joining, Summed, Understood, OptionsOK, Joined
<1>6. CASE Interval
  <2>1. /\ at = "join" /\ i > line.threads /\ at' \in {"outer", "report"}
        /\ UNCHANGED <<line, complete, total>>
    BY <1>6 DEF Interval, mvars
  <2>2. Joining(i) \in SUBSET Threads /\ \A t \in Threads \ Joining(i) : complete[t] = 0
    BY <1>0, <2>1 DEF Answered
  <2>3. First(i) = Total(complete)
    BY <1>0, <2>2, TotalOfRest
  <2> QED BY <1>0, <2>1, <2>3 DEF Summed, Understood, OptionsOK, Joined
<1>7. CASE Correct /\ UNCHANGED mvars
  <2>1. at \in Joined /\ at' \in Joined /\ at # "join" /\ at' # "join"
    BY <1>7 DEF Correct, Outer, Inner, InnerEnds, OuterEnds, Joined
  <2> QED BY <1>7, <2>1 DEF mvars, Summed, Understood, OptionsOK, Joined
<1>8. CASE \E t \in Threads : Recording(t) \/ ThreadEnds(t)
  BY <1>8 DEF Recording, ThreadEnds, mvars, Summed, Understood, OptionsOK
<1>9. ASSUME NEW t \in Threads, NEW v \in line.values, Response(t, v)
      PROVE  Summed' /\ Understood'
  <2>1. /\ complete' = [complete EXCEPT ![t] = @ + 1] /\ UNCHANGED <<at, i, total, line>>
        /\ thr[t] = "running"
    BY <1>9 DEF Response
  <2>2. at \notin Joined
    BY <2>1 DEF MainInv, HasJoined
  <2>3. at = "join" => t \notin Joining(i)
    BY <2>1 DEF MainInv, HasJoined
  <2>4. at = "join" => Restrict(complete', Joining(i)) = Restrict(complete, Joining(i))
    BY <1>0, <2>1, <2>3 DEF Restrict
  <2> QED BY <2>1, <2>2, <2>4 DEF Summed, Understood, OptionsOK
<1>10. CASE Done \/ UNCHANGED allVars
  BY <1>10 DEF Done, allVars, mvars, Summed, Understood, OptionsOK
<1> QED BY <1>2, <1>3, <1>4, <1>5, <1>6, <1>7, <1>8, <1>9, <1>10 DEF MainNext, MainStep

---------------------------------------------------------------------------
(* What the correction has added at v when it has passed the buckets below *)
(* r: nothing yet when it starts, all of it when it is past the last       *)
(* sample, and at each bucket the samples recorded there.                  *)
LEMMA AddedType ==
    ASSUME FrameType, NEW v, NEW r
    PROVE  /\ IsFiniteSet({u \in From(v) : u < r}) /\ IsFiniteSet(From(v))
           /\ Restrict(recorded, {u \in From(v) : u < r}) \in [{u \in From(v) : u < r} -> Nat]
           /\ Restrict(recorded, From(v)) \in [From(v) -> Nat]
           /\ AddedBelow(v, r) \in Nat
<1>1. From(v) \in SUBSET Buckets /\ {u \in From(v) : u < r} \in SUBSET Buckets
  BY DEF From
<1>2. IsFiniteSet({u \in From(v) : u < r}) /\ IsFiniteSet(From(v))
  BY <1>1, BucketsFinite, FS_Subset
<1>3. recorded \in [Buckets -> Nat]
  BY DEF FrameType
<1>4. /\ Restrict(recorded, {u \in From(v) : u < r}) \in [{u \in From(v) : u < r} -> Nat]
      /\ Restrict(recorded, From(v)) \in [From(v) -> Nat]
  BY <1>1, <1>3 DEF Restrict
<1> QED BY <1>2, <1>4, FiniteTotal DEF AddedBelow

(* Nothing was added at v before the loop is past it or has begun.         *)
LEMMA AddedFirst ==
    ASSUME NEW v \in Nat, NEW r \in Nat, expected \in Nat,
           r <= 2 * expected \/ r <= v
    PROVE  AddedBelow(v, r) = 0
<1>1. {u \in From(v) : u < r} = {}
  <2> SUFFICES ASSUME NEW u \in From(v), u < r PROVE FALSE
    OBVIOUS
  <2>1. u \in Int /\ u > v /\ u >= 2 * expected
    BY StatsAssumption DEF From, Buckets
  <2> QED BY <2>1
<1>2. Restrict(recorded, {u \in From(v) : u < r}) \in [{} -> Nat]
  BY <1>1 DEF Restrict
<1> QED BY <1>2, TotalOfZeros DEF AddedBelow

(* Passing a bucket adds its samples at the places it reaches.             *)
LEMMA AddedNext ==
    ASSUME FrameType, NEW v \in Buckets, NEW r \in Buckets
    PROVE  AddedBelow(v, r + 1)
             = AddedBelow(v, r) + (IF r \in From(v) THEN recorded[r] ELSE 0)
<1> DEFINE S(k) == {u \in From(v) : u < k}
<1>1. r \in Nat /\ \A u \in From(v) : u \in Nat
  BY StatsAssumption DEF From, Buckets
<1>2. \A u \in From(v) : u < r + 1 <=> u < r \/ u = r
  BY <1>1
<1>3. CASE r \notin From(v)
  <2>1. S(r + 1) = S(r)
    BY <1>2, <1>3
  <2>2. AddedBelow(v, r) \in Nat
    BY AddedType
  <2> QED BY <1>3, <2>1, <2>2 DEF AddedBelow
<1>4. CASE r \in From(v)
  <2>1. r \in S(r + 1) /\ S(r + 1) \ {r} = S(r)
    <3>1. r < r + 1 /\ ~(r < r)
      BY <1>1
    <3> QED BY <1>2, <1>4, <3>1
  <2> DEFINE d == Restrict(recorded, S(r + 1))
  <2>2. d \in [S(r + 1) -> Nat] /\ IsFiniteSet(S(r + 1))
    BY AddedType
  <2>3. Restrict(d, S(r)) = Restrict(recorded, S(r)) /\ d[r] = recorded[r]
    BY <2>1 DEF Restrict
  <2>4. Total(d) = Total(Restrict(d, S(r + 1) \ {r})) + d[r]
    <3> HIDE DEF d, S
    <3> QED BY <2>1, <2>2, TotalWithout
  <2> QED BY <1>4, <2>1, <2>3, <2>4 DEF AddedBelow
<1> QED BY <1>3, <1>4

(* Beyond the last sample nothing more is added.                           *)
LEMMA AddedLast ==
    ASSUME FrameType, NEW v \in Buckets, NEW r \in Nat, expected # 0,
           \A u \in Buckets : u >= r => recorded[u] = 0
    PROVE  AddedBelow(v, r) = Added(v)
<1> DEFINE S == {u \in From(v) : u < r}
           d == Restrict(recorded, From(v))
<1>1. d \in [From(v) -> Nat] /\ IsFiniteSet(From(v)) /\ S \in SUBSET From(v)
  BY AddedType
<1>2. \A u \in From(v) \ S : d[u] = 0
  <2> SUFFICES ASSUME NEW u \in From(v) \ S PROVE d[u] = 0
    OBVIOUS
  <2>1. u \in Buckets /\ u \in Nat /\ ~(u < r)
    BY StatsAssumption DEF From, Buckets
  <2>2. recorded[u] = 0
    BY <2>1
  <2> QED BY <2>2 DEF Restrict
<1>3. Restrict(d, S) = Restrict(recorded, S)
  BY <1>1 DEF Restrict
<1> HIDE DEF d, S
<1>4. Total(Restrict(d, S)) = Total(d)
  BY <1>1, <1>2, TotalOfRest
<1> QED BY <1>3, <1>4 DEF Added, AddedBelow, d, S

(* Between two places where the inner loop adds there is none that         *)
(* coordinated omission would have hidden a sample at.                     *)
LEMMA NoneBetween ==
    ASSUME NEW e \in Nat \ {0}, NEW r \in Nat, NEW k \in Nat, k <= r, (r - k) % e = 0,
           NEW v \in Nat, v < k, v > k - e
    PROVE  (r - v) % e # 0
<1>1. PICK a \in Nat : a = r - k
  OBVIOUS
<1>2. PICK b \in 1 .. e - 1 : b = k - v
  OBVIOUS
<1>3. a % e = 0
  BY <1>1
<1>4. (a + b) % e = b
  <2>1. b \in 0 .. e - 1
    OBVIOUS
  <2> QED BY <1>3, <2>1, RemainderAdds
<1>5. a + b = r - v
  BY <1>1, <1>2
<1> QED BY <1>4, <1>5

(* One interval below such a place is another.                             *)
LEMMA NextPlace ==
    ASSUME NEW e \in Nat \ {0}, NEW r \in Nat, NEW k \in Nat, k <= r, (r - k) % e = 0
    PROVE  (r - (k - e)) % e = 0
<1>1. PICK a \in Nat : a = r - k
  OBVIOUS
<1>2. a % e = 0
  BY <1>1
<1>3. (a + e) % e = 0
  <2>1. 0 \in 0 .. e - 1
    OBVIOUS
  <2> QED BY <1>2, <2>1, RemainderAdds
<1>4. a + e = r - (k - e)
  BY <1>1
<1> QED BY <1>3, <1>4

(* What the steps of the correction start from.                            *)
CorrectHyp ==
    /\ FrameType /\ data \in [Buckets -> Nat]
    /\ Framed
    /\ Reached /\ Passed /\ Passing

(* What they leave alone.                                                  *)
Kept == UNCHANGED <<recorded, expected, max>>

(* What was added depends on what was recorded and on the interval only.   *)
LEMMA KeptAdded ==
    ASSUME Kept
    PROVE  /\ \A v : From(v)' = From(v) /\ Added(v)' = Added(v)
           /\ \A v, r : AddedBelow(v, r)' = AddedBelow(v, r)
           /\ Buckets' = Buckets
BY DEF Kept, From, Added, AddedBelow, Buckets

(* The outer loop enters a bucket, to which nothing was added yet.         *)
LEMMA CorrectOuter ==
    ASSUME CorrectHyp, Outer PROVE Reached' /\ Passed' /\ Passing'
<1>1. /\ at = "outer" /\ reached <= max /\ left' = data[reached] /\ m' = reached - expected
      /\ at' = "inner" /\ UNCHANGED <<data, recorded, expected, reached, max>>
  BY DEF Outer, outside
<1>2. /\ expected \in Nat \ {0} /\ reached \in Nat /\ reached >= 2 * expected
      /\ max \in Buckets /\ recorded \in [Buckets -> Nat]
      /\ \A v \in Buckets : data[v] = recorded[v] + AddedBelow(v, reached)
  BY <1>1 DEF CorrectHyp, FrameType, Reached, Passed
<1>3. reached \in Buckets
  BY <1>1, <1>2, StatsAssumption DEF Buckets
<1>4. left' = recorded[reached]
  <2>1. AddedBelow(reached, reached) = 0
    BY <1>2, AddedFirst
  <2>2. recorded[reached] \in Nat
    BY <1>2, <1>3
  <2> QED BY <1>1, <1>2, <1>3, <2>1, <2>2
<1>5. m' \in 1 .. reached - 1 /\ (reached - m') % expected = 0
  <2>1. reached - m' = 0 + expected
    BY <1>1, <1>2
  <2>2. 0 % expected = 0 /\ 0 \in Nat /\ 0 \in 0 .. expected - 1
    BY <1>2
  <2>3. (0 + expected) % expected = 0
    BY <1>2, <2>2, RemainderAdds
  <2>4. m' \in 1 .. reached - 1
    BY <1>1, <1>2
  <2> QED BY <2>1, <2>3, <2>4
<1>6. ASSUME NEW v \in Buckets, reached \in From(v), v > m'
      PROVE  FALSE
  <2>1. v \in Nat /\ v < reached /\ (reached - v) % expected = 0
    BY <1>6, StatsAssumption DEF From, Buckets
  <2>2. reached <= reached /\ (reached - reached) % expected = 0 /\ v > reached - expected
    BY <1>1, <1>2, <1>6
  <2> QED BY <1>2, <2>1, <2>2, NoneBetween
<1>7. ASSUME NEW v \in Buckets
      PROVE  data'[v] = recorded'[v] + AddedBelow(v, reached)'
                          + (IF reached' \in From(v)' /\ v > m' THEN left' ELSE 0)
  <2>1. AddedBelow(v, reached) \in Nat /\ recorded[v] \in Nat
    BY <1>2, AddedType DEF CorrectHyp
  <2>2. From(v)' = From(v) /\ AddedBelow(v, reached)' = AddedBelow(v, reached)
    BY <1>1, KeptAdded DEF Kept
  <2>3. ~(reached' \in From(v)' /\ v > m')
    BY <1>1, <1>6, <2>2
  <2>4. data'[v] = recorded'[v] + AddedBelow(v, reached)
    BY <1>1, <1>2
  <2> QED BY <1>1, <2>1, <2>2, <2>3, <2>4
<1>8. Passing'
  <2>1. Buckets' = Buckets
    BY DEF Buckets
  <2>2. reached' <= max' /\ left' = recorded'[reached']
    BY <1>1, <1>4
  <2>3. m' \in 1 .. reached' - 1 /\ (reached' - m') % expected' = 0
    BY <1>1, <1>5
  <2> QED BY <1>7, <2>1, <2>2, <2>3 DEF Passing
<1>9. Reached' /\ Passed'
  BY <1>1, <1>2 DEF Reached, Passed, Joined
<1> QED BY <1>8, <1>9

(* The inner loop adds the samples of the bucket at one place.             *)
LEMMA CorrectInner ==
    ASSUME CorrectHyp, Inner PROVE Reached' /\ Passed' /\ Passing'
<1>1. /\ at = "inner" /\ left > 0 /\ m > expected
      /\ data' = [data EXCEPT ![m] = @ + left] /\ m' = m - expected
      /\ at' = "inner" /\ UNCHANGED <<recorded, expected, reached, left, max>>
  BY DEF Inner, outside
<1>2. /\ expected \in Nat \ {0} /\ reached \in Nat /\ reached >= 2 * expected
      /\ max \in Buckets /\ recorded \in [Buckets -> Nat] /\ data \in [Buckets -> Nat]
  BY <1>1 DEF CorrectHyp, FrameType, Reached
<1>3. /\ reached <= max /\ left = recorded[reached]
      /\ m \in 1 .. reached - 1 /\ (reached - m) % expected = 0
      /\ \A v \in Buckets :
            data[v] = recorded[v] + AddedBelow(v, reached)
                          + (IF reached \in From(v) /\ v > m THEN left ELSE 0)
  BY <1>1 DEF CorrectHyp, Passing
<1>4. reached \in Buckets /\ m \in Buckets /\ m \in Nat /\ m < reached
  BY <1>2, <1>3, StatsAssumption DEF Buckets
<1>5. left \in Nat
  BY <1>2, <1>3, <1>4
<1>6. m' \in 1 .. reached - 1 /\ (reached - m') % expected = 0
  <2>1. m' \in 1 .. reached - 1
    BY <1>1, <1>2, <1>4
  <2>2. m <= reached
    BY <1>2, <1>4
  <2>3. (reached - (m - expected)) % expected = 0
    BY <1>2, <1>3, <1>4, <2>2, NextPlace
  <2> QED BY <1>1, <2>1, <2>3
<1>7. reached \in From(m)
  BY <1>1, <1>2, <1>3, <1>4 DEF From
<1>8. ASSUME NEW v \in Buckets, reached \in From(v), v # m, v > m'
      PROVE  v > m
  <2>1. v \in Nat /\ v < reached /\ (reached - v) % expected = 0
    BY <1>8, StatsAssumption DEF From, Buckets
  <2>2. v > m - expected /\ m <= reached
    BY <1>1, <1>2, <1>4, <1>8
  <2>3. ~(v < m)
    BY <1>2, <1>3, <1>4, <2>1, <2>2, NoneBetween
  <2> QED BY <1>4, <1>8, <2>1, <2>3
<1>9. ASSUME NEW v \in Buckets
      PROVE  data'[v] = recorded'[v] + AddedBelow(v, reached)'
                          + (IF reached' \in From(v)' /\ v > m' THEN left' ELSE 0)
  <2>1. AddedBelow(v, reached) \in Nat /\ recorded[v] \in Nat
    BY <1>2, AddedType DEF CorrectHyp
  <2>2. From(v)' = From(v) /\ AddedBelow(v, reached)' = AddedBelow(v, reached)
    BY <1>1, KeptAdded DEF Kept
  <2>3. CASE v = m
    <3>1. ~(v > m) /\ v > m'
      BY <1>1, <1>2, <1>4, <2>3
    <3>2. data[v] = recorded[v] + AddedBelow(v, reached) + 0
      BY <1>3, <3>1
    <3>3. data'[v] = data[v] + left
      BY <1>1, <1>2, <1>4, <2>3
    <3>4. reached' \in From(v)' /\ v > m'
      BY <1>1, <1>7, <2>2, <2>3, <3>1
    <3>5. data'[v] = recorded[v] + AddedBelow(v, reached) + left
      BY <1>5, <2>1, <3>2, <3>3
    <3> QED BY <1>1, <2>2, <3>4, <3>5
  <2>4. CASE v # m
    <3>1. data'[v] = data[v]
      BY <1>1, <1>2, <1>4, <2>4
    <3>2. reached \in From(v) => (v > m <=> v > m')
      <4>1. v > m => v > m'
        BY <1>1, <1>2, <1>4, StatsAssumption DEF Buckets
      <4> QED BY <1>8, <2>4, <4>1
    <3> QED BY <1>1, <1>3, <2>2, <3>1, <3>2
  <2> QED BY <2>3, <2>4
<1>10. Passing'
  <2>1. Buckets' = Buckets
    BY DEF Buckets
  <2>2. reached' <= max' /\ left' = recorded'[reached']
    BY <1>1, <1>3
  <2>3. m' \in 1 .. reached' - 1 /\ (reached' - m') % expected' = 0
    BY <1>1, <1>6
  <2> QED BY <1>9, <2>1, <2>2, <2>3 DEF Passing
<1>11. Reached' /\ Passed'
  BY <1>1, <1>2 DEF Reached, Passed, Joined
<1> QED BY <1>10, <1>11

(* The inner loop ends at the last place above the interval.               *)
LEMMA CorrectInnerEnds ==
    ASSUME CorrectHyp, InnerEnds PROVE Reached' /\ Passed' /\ Passing'
<1>1. /\ at = "inner" /\ ~(left > 0 /\ m > expected)
      /\ at' = "outer" /\ reached' = reached + 1
      /\ UNCHANGED <<data, recorded, expected, left, max>>
  BY DEF InnerEnds, outside
<1>2. /\ expected \in Nat \ {0} /\ reached \in Nat /\ reached >= 2 * expected
      /\ max \in Buckets /\ recorded \in [Buckets -> Nat] /\ data \in [Buckets -> Nat]
  BY <1>1 DEF CorrectHyp, FrameType, Reached
<1>3. /\ reached <= max /\ left = recorded[reached] /\ m \in 1 .. reached - 1
      /\ \A v \in Buckets :
            data[v] = recorded[v] + AddedBelow(v, reached)
                          + (IF reached \in From(v) /\ v > m THEN left ELSE 0)
  BY <1>1 DEF CorrectHyp, Passing
<1>4. reached \in Buckets /\ m \in Nat
  BY <1>2, <1>3, StatsAssumption DEF Buckets
<1>5. left \in Nat
  BY <1>2, <1>3, <1>4
<1>6. ASSUME NEW v \in Buckets
      PROVE  data'[v] = recorded'[v] + AddedBelow(v, reached)'
  <2>1. AddedBelow(v, reached) \in Nat /\ recorded[v] \in Nat
    BY <1>2, AddedType DEF CorrectHyp
  <2>2. AddedBelow(v, reached)' = AddedBelow(v, reached + 1)
    BY <1>1, KeptAdded DEF Kept
  <2>3. AddedBelow(v, reached + 1)
          = AddedBelow(v, reached) + (IF reached \in From(v) THEN left ELSE 0)
    BY <1>3, <1>4, AddedNext DEF CorrectHyp
  <2>4. left > 0 /\ reached \in From(v) => v > m
    <3>1. v \in Nat /\ (reached \in From(v) => v > expected)
      BY StatsAssumption DEF From, Buckets
    <3> QED BY <1>1, <1>2, <1>4, <3>1
  <2>5. (IF reached \in From(v) /\ v > m THEN left ELSE 0)
          = (IF reached \in From(v) THEN left ELSE 0)
    BY <1>5, <2>4
  <2>6. data[v] = recorded[v] + AddedBelow(v, reached)
                    + (IF reached \in From(v) THEN left ELSE 0)
    BY <1>3, <2>5
  <2> QED BY <1>1, <1>5, <2>1, <2>2, <2>3, <2>6
<1>7. Passed' /\ Passing'
  BY <1>1, <1>6 DEF Passed, Passing, Joined, Buckets
<1>8. Reached'
  BY <1>1, <1>2 DEF Reached
<1> QED BY <1>7, <1>8

(* The outer loop ends beyond the last sample.                             *)
LEMMA CorrectOuterEnds ==
    ASSUME CorrectHyp, OuterEnds PROVE Reached' /\ Passed' /\ Passing'
<1>1. /\ at = "outer" /\ reached > max
      /\ at' = "report" /\ UNCHANGED <<data, recorded, expected, reached, max>>
  BY DEF OuterEnds, outside, locals
<1>2. /\ expected \in Nat \ {0} /\ reached \in Nat
      /\ max \in Buckets /\ recorded \in [Buckets -> Nat]
      /\ \A v \in Buckets : data[v] = recorded[v] + AddedBelow(v, reached)
      /\ \A v \in Buckets : recorded[v] > 0 => v <= max
  BY <1>1 DEF CorrectHyp, FrameType, Reached, Passed, Framed
<1>3. \A u \in Buckets : u >= reached => recorded[u] = 0
  <2> SUFFICES ASSUME NEW u \in Buckets, u >= reached PROVE recorded[u] = 0
    OBVIOUS
  <2>1. u \in Nat /\ max \in Nat
    BY <1>2, StatsAssumption DEF Buckets
  <2>2. ~(u <= max)
    BY <1>1, <1>2, <2>1
  <2> QED BY <1>2, <2>2
<1>4. \A v \in Buckets : AddedBelow(v, reached) = Added(v)
  BY <1>2, <1>3, AddedLast DEF CorrectHyp
<1>5. \A v \in Buckets : data'[v] = recorded'[v] + Added(v)'
  BY <1>1, <1>2, <1>4, KeptAdded DEF Kept
<1>6. Passed' /\ Passing' /\ Reached'
  BY <1>1, <1>5 DEF Reached, Passed, Passing, Joined, Buckets
<1> QED BY <1>6

(* Division as main uses it.                                               *)
LEMMA Quotient ==
    ASSUME NEW r \in Nat, NEW d \in Nat \ {0}
    PROVE  r \div d \in Nat /\ r \div d <= r /\ (d <= r => r \div d # 0)
OBVIOUS

(* A quotient of at most c * r by c is at most r.                          *)
LEMMA QuotientBound ==
    ASSUME NEW t \in Nat, NEW c \in Nat \ {0}, NEW r \in Nat, t <= c * r
    PROVE  t \div c <= r
<1>1. PICK q \in Nat, x \in 0 .. c - 1 : t = q * c + x /\ q = t \div c
  <2>1. t \div c \in Nat /\ t % c \in 0 .. c - 1 /\ t = (t \div c) * c + (t % c)
    OBVIOUS
  <2> QED BY <2>1
<1>2. q >= r + 1 => q * c >= (r + 1) * c
  OBVIOUS
<1>3. (r + 1) * c = c * r + c
  OBVIOUS
<1>4. PICK a \in Nat : a = c * r
  OBVIOUS
<1>5. PICK b \in Nat : b = q * c
  OBVIOUS
<1>6. t = b + x /\ t <= a /\ (q >= r + 1 => b >= a + c)
  BY <1>1, <1>2, <1>3, <1>4, <1>5
<1> QED BY <1>1, <1>6

(* The correction starts with a positive interval: no connection answers   *)
(* more than once in a unit of time.                                       *)
LEMMA IntervalStarts ==
    ASSUME MainInv, Answered', Summed', Understood, CorrectInv, Interval
    PROVE  CorrectInv'
<1>1. /\ at = "join" /\ at' \in {"outer", "report"} /\ data = recorded /\ expected = 0
      /\ UNCHANGED <<line, complete, total, calls, data, recorded, max>>
  BY DEF Interval, mvars, statsVars, vars, CorrectInv, Passed, Joined
<1>2. /\ recorded \in [Buckets -> Nat] /\ line \in CommandLines
      /\ line.calls \in Nat /\ line.connections \in Nat /\ line.threads \in Nat
      /\ \A r \in line.runtimes : r \in Nat /\ line.connections * r >= line.calls
  BY WrkMainAssumption, StatsAssumption DEF MainInv, MainType, FrameInv, FrameType
<1>3. line.connections \in Nat \ {0}
  BY <1>1, <1>2 DEF Understood, OptionsOK
<1>4. total \in Nat /\ total <= line.calls
  BY <1>1, <1>2 DEF Summed, Answered, Joined
<1> DEFINE q == total \div line.connections
<1>5. q \in Nat /\ q <= total
  BY <1>3, <1>4, Quotient
<1>6. CASE q > 0
  <2>1. PICK r \in line.runtimes : expected' = r \div q
    BY <1>6 DEF Interval
  <2>2. at' = "outer" /\ reached' = 2 * expected'
    BY <1>6 DEF Interval
  <2> HIDE DEF q
  <2>3. q \in Nat \ {0} /\ q <= r /\ r \in Nat
    <3>1. r \in Nat /\ line.connections * r >= line.calls
      BY <1>2
    <3>2. total <= line.connections * r
      <4>1. PICK a \in Nat : a = line.connections * r
        BY <1>2, <3>1
      <4> QED BY <1>2, <1>4, <3>1, <4>1
    <3>3. total \div line.connections <= r
      BY <1>3, <1>4, <3>1, <3>2, QuotientBound
    <3> QED BY <1>5, <1>6, <3>1, <3>3 DEF q
  <2>4. expected' \in Nat \ {0}
    BY <2>1, <2>3, Quotient
  <2>5. reached' \in Nat /\ reached' >= 2 * expected'
    BY <2>2, <2>4
  <2>6. ASSUME NEW v \in Buckets
        PROVE  data'[v] = recorded'[v] + AddedBelow(v, reached)'
    <3>1. {u \in From(v)' : u < reached'} = {}
      <4>1. PICK e \in Nat : e = expected'
        BY <2>4
      <4>2. \A u \in From(v)' : u \in Int /\ u >= 2 * e
        <5>1. \A u \in From(v)' : u \in Buckets /\ u >= 2 * expected'
          BY DEF From, Buckets
        <5>2. \A u \in Buckets : u \in Int
          BY StatsAssumption DEF Buckets
        <5> QED BY <4>1, <5>1, <5>2
      <4>3. \A u \in From(v)' : ~(u < 2 * e)
        BY <4>2
      <4> QED BY <2>2, <4>1, <4>3
    <3>2. Restrict(recorded', {u \in From(v)' : u < reached'}) \in [{} -> Nat]
      BY <3>1 DEF Restrict
    <3>3. AddedBelow(v, reached)' = 0
      <4>1. Total(Restrict(recorded', {u \in From(v)' : u < reached'})) = 0
        BY ONLY <3>2, TotalOfZeros
      <4> QED BY <4>1 DEF AddedBelow
    <3>4. data'[v] = recorded'[v] /\ recorded'[v] \in Nat
      BY <1>1, <1>2
    <3> QED BY <3>3, <3>4
  <2>7. Passed' /\ Passing'
    BY <2>2, <2>6 DEF Passed, Passing, Joined, Buckets
  <2> QED BY <2>4, <2>5, <2>7 DEF CorrectInv, Reached
<1>7. CASE ~(q > 0)
  <2>1. at' = "report" /\ UNCHANGED expected
    BY <1>7 DEF Interval
  <2>2. ASSUME NEW v \in Buckets
        PROVE  data'[v] = recorded'[v] + Added(v)'
    <3>1. Added(v)' = 0
      BY <1>1, <2>1 DEF Added
    <3>2. data'[v] = recorded'[v] /\ recorded'[v] \in Nat
      BY <1>1, <1>2
    <3> QED BY <3>1, <3>2
  <2> QED BY <2>1, <2>2 DEF CorrectInv, Reached, Passed, Passing, Joined, Buckets
<1> QED BY <1>6, <1>7

(* Steps that leave the histogram and the loop alone.                      *)
LEMMA CorrectKept ==
    ASSUME CorrectInv,
           UNCHANGED <<data, recorded, expected, max, reached, m, left>>,
           at' = at \/ (at \notin Joined /\ at' \notin Joined)
    PROVE  CorrectInv'
<1>1. Kept
  BY DEF Kept
<1>2. \A v : /\ From(v)' = From(v) /\ Added(v)' = Added(v)
             /\ AddedBelow(v, reached)' = AddedBelow(v, reached)
  BY <1>1, KeptAdded
<1>3. CASE at' = at
  <2>1. Reached'
    BY <1>3 DEF CorrectInv, Reached
  <2>2. Passed'
    BY <1>2, <1>3 DEF CorrectInv, Passed, Joined, Buckets
  <2>3. Passing'
    BY <1>2, <1>3 DEF CorrectInv, Passing, Buckets
  <2> QED BY <2>1, <2>2, <2>3 DEF CorrectInv
<1>4. CASE at \notin Joined /\ at' \notin Joined
  BY <1>4 DEF CorrectInv, Reached, Passed, Passing, Joined
<1> QED BY <1>3, <1>4

(* While threads run the histogram holds exactly what was recorded.        *)
LEMMA CorrectRecording ==
    ASSUME FrameType, data \in [Buckets -> Nat], CorrectInv, at \notin Joined,
           NEW t \in Threads, Recording(t)
    PROVE  CorrectInv'
<1>1. /\ data = recorded /\ expected = 0 /\ UNCHANGED <<at, expected>> /\ Step(t)
  BY DEF CorrectInv, Passed, Recording, locals
<1>2. data' = recorded'
  <2>1. CASE AddData(t)
    BY <1>1, <2>1 DEF AddData
  <2>2. CASE ~AddData(t)
    BY <1>1, <2>2 DEF Step, AddCount, ReadMin, ReadMax, CasMin, MinDone, CasMax, Return, shared
  <2> QED BY <2>1, <2>2
<1> QED BY <1>1, <1>2 DEF CorrectInv, Reached, Passed, Passing, Joined

(* Every step of a run keeps the invariant of the correction.              *)
LEMMA CorrectInvNext ==
    ASSUME MainInv, MainInv', Sampled, Answered', Summed', Understood, CorrectInv,
           [MainNext]_allVars
    PROVE  CorrectInv'
<1>1. FrameType /\ data \in [Buckets -> Nat] /\ FramedAtRest
  BY FrameGivesFramed DEF MainInv, FrameInv, Sampled
<1>2. CASE Interval
  BY <1>2, IntervalStarts
<1>3. CASE ParseArgs \/ Resolve \/ Create \/ InstallHandler \/ SleepEnds \/ Stop \/ Join
  BY <1>3, CorrectKept DEF ParseArgs, Resolve, Create, InstallHandler, SleepEnds, Stop, Join, mvars,
     statsVars, vars, locals, Joined
<1>4. CASE InterruptSleep \/ InterruptElsewhere \/ Done \/ UNCHANGED allVars
  BY <1>4, CorrectKept DEF InterruptSleep, InterruptElsewhere, Done, allVars, mvars,
     statsVars, vars, locals, Joined
<1>5. CASE \E t \in Threads : ThreadEnds(t)
  BY <1>5, CorrectKept DEF ThreadEnds, statsVars, vars, locals
<1>6. CASE \E t \in Threads : \E v \in line.values : Response(t, v)
  BY <1>6, CorrectKept DEF Response, Call, shared, locals
<1>7. CASE Correct /\ UNCHANGED mvars
  <2>1. at \in Joined
    BY <1>7 DEF Correct, Outer, Inner, InnerEnds, OuterEnds, Joined
  <2>2. AtRest
    BY <2>1 DEF MainInv, HasJoined, OnlyRunning, AtRest
  <2>3. CorrectHyp
    BY <1>1, <2>2 DEF CorrectHyp, FramedAtRest, CorrectInv
  <2> QED BY <1>7, <2>3, CorrectOuter, CorrectInner, CorrectInnerEnds, CorrectOuterEnds
          DEF Correct, CorrectInv
<1>8. ASSUME NEW t \in Threads, Recording(t)
      PROVE  CorrectInv'
  <2>1. at \notin Joined
    BY <1>8 DEF Recording, MainInv, HasJoined
  <2> QED BY <1>1, <1>8, <2>1, CorrectRecording
<1> QED BY <1>2, <1>3, <1>4, <1>5, <1>6, <1>7, <1>8 DEF MainNext, MainStep

(* The sums and the correction, together.                                  *)
LEMMA SumInvNext == MainInv /\ MainInv' /\ SumInv /\ CorrectInv /\ [MainNext]_allVars
                       => SumInv' /\ CorrectInv'
<1> SUFFICES ASSUME MainInv, MainInv', SumInv, CorrectInv, [MainNext]_allVars
             PROVE  SumInv' /\ CorrectInv'
  OBVIOUS
<1>1. /\ FrameType /\ MainType /\ WillBeJoined /\ Sampled /\ Answered /\ InHistogram
      /\ Reached /\ Passing
  BY DEF MainInv, FrameInv, SumInv, CorrectInv
<1>2. Sampled' /\ Answered' /\ InHistogram'
  <2>1. CASE Quiet
    <3>1. AtPlace("count")' = AtPlace("count") /\ AtPlace("data")' = AtPlace("data")
      BY <2>1 DEF Quiet, AtPlace
    <3> QED BY <1>1, <2>1, <3>1 DEF Quiet, Sampled, Answered, InHistogram, Buckets
  <2>2. CASE Correct /\ UNCHANGED mvars
    <3>1. Sampled'
      BY <1>1, <2>2, SampledCorrect
    <3>2. UNCHANGED <<recorded, pc, calls, line, complete>>
      BY <2>2 DEF Correct, Outer, Inner, InnerEnds, OuterEnds, outside, mvars
    <3>3. AtPlace("data")' = AtPlace("data")
      BY <3>2 DEF AtPlace
    <3> QED BY <1>1, <3>1, <3>2, <3>3 DEF Answered, InHistogram, Buckets
  <2>3. ASSUME NEW t \in Threads, Recording(t)
        PROVE  Sampled' /\ Answered' /\ InHistogram'
    <3>1. Step(t) /\ UNCHANGED <<line, complete>>
      BY <2>3 DEF Recording, mvars
    <3>2. calls' = calls
      BY <3>1 DEF Step, AddData, AddCount, ReadMin, ReadMax, CasMin, MinDone, CasMax, Return
    <3> QED BY <1>1, <3>1, <3>2, SampledStep, HistogramStep DEF Answered
  <2>4. ASSUME NEW t \in Threads, NEW v \in line.values, Response(t, v)
        PROVE  Sampled' /\ Answered' /\ InHistogram'
    <3>1. v \in Values
      BY <1>1, WrkMainAssumption DEF MainType
    <3>2. Call(t, v)
      BY <2>4 DEF Response
    <3> QED BY <1>1, <2>4, <3>1, <3>2, SampledCall, ResponseCounted
  <2> QED BY <2>1, <2>2, <2>3, <2>4, StepKinds
<1>3. Summed' /\ Understood'
  BY <1>1, <1>2, SummedNext DEF SumInv
<1>4. CorrectInv'
  BY <1>1, <1>2, <1>3, CorrectInvNext DEF SumInv
<1> QED BY <1>2, <1>3, <1>4 DEF SumInv

(* The invariant of every run.                                             *)
LEMMA SumInvariant == MainSpec => [](MainInv /\ SumInv /\ CorrectInv)
BY MainInvInit, MainInvNext, SumInvInit, SumInvNext, PTL DEF MainSpec

(* A run of wrk keeps the types of the histogram: main only adds to a      *)
(* bucket below the limit (stats.c:38), and the threads record no more     *)
(* than the responses (stats.c:22-24).                                     *)
THEOREM MainTypeCorrect == MainSpec => []TypeOK
<1>1. MainInv /\ SumInv => TypeOK
  <2> SUFFICES ASSUME MainInv, SumInv PROVE TypeOK
    OBVIOUS
  <2>1. line.calls \in 0 .. MaxCalls
    BY WrkMainAssumption DEF MainInv, MainType
  <2>2. calls \in 0 .. MaxCalls
    BY <2>1, StatsAssumption DEF SumInv, Answered
  <2> QED BY <2>2 DEF MainInv, FrameInv, SumInv, Sampled, TypeOK
<1> QED BY <1>1, SumInvariant, PTL

(* Between calls no thread is at a place inside stats_record.              *)
LEMMA NoneAt ==
    ASSUME AtRest, NEW p, p # "out"
    PROVE  Cardinality(AtPlace(p)) = 0
<1>1. AtPlace(p) = {}
  BY DEF AtRest, AtPlace
<1> QED BY <1>1, FS_EmptySet

(* The report counts every response of every thread, and the histogram     *)
(* holds exactly the latencies below the limit (wrk.c:149-171,             *)
(* stats.c:22), for every number of threads and of responses, wherever     *)
(* the threads are when main or SIGINT stops them.                         *)
THEOREM ReportCompleteCorrect == MainSpec => []ReportIsComplete
<1>1. MainInv /\ SumInv => ReportIsComplete
  <2> SUFFICES ASSUME MainInv, SumInv, at \in Joined
               PROVE  /\ total = Total(complete)
                      /\ Total(recorded) <= total
                      /\ line.values \subseteq Buckets => Total(recorded) = total
    BY DEF ReportIsComplete
  <2>1. AtRest
    BY DEF MainInv, HasJoined, OnlyRunning, AtRest
  <2>2. Cardinality(AtPlace("data")) = 0
    BY <2>1, NoneAt
  <2>3. total = Total(complete)
    BY DEF SumInv, Summed
  <2>4. Total(recorded) \in Nat
    BY BucketsFinite, FiniteTotal DEF MainInv, FrameInv, FrameType
  <2> QED BY <2>2, <2>3, <2>4 DEF SumInv, InHistogram
<1> QED BY <1>1, SumInvariant, PTL

(* Once the threads are joined count is the number of samples.             *)
LEMMA CountIsTotal ==
    ASSUME MainInv, SumInv, at \in Joined
    PROVE  count = Total(data)
<1>1. AtRest
  BY DEF MainInv, HasJoined, OnlyRunning, AtRest
<1>2. Cardinality(AtPlace("count")) = 0
  BY <1>1, NoneAt
<1> QED BY <1>2 DEF SumInv, Sampled

(* The correction adds each hidden sample once (stats.c:33-43): for every  *)
(* limit, every interval and every histogram the threads can leave, a      *)
(* sample at v adds one at each v - k * expected above expected and none   *)
(* of these is corrected again.                                            *)
THEOREM CorrectedOnceCorrect == MainSpec => []CorrectedOnce
<1>1. MainInv /\ SumInv /\ CorrectInv => CorrectedOnce
  BY CountIsTotal DEF CorrectInv, Passed, CorrectedOnce, Joined
<1> QED BY <1>1, SumInvariant, PTL

---------------------------------------------------------------------------
(* A set of numbers has a least one.                                       *)
LEMMA LeastOfSet ==
    ASSUME NEW S \in SUBSET Nat, S # {}
    PROVE  Min(S) \in S /\ \A x \in S : Min(S) <= x
<1> DEFINE Below == OpToRel(<, Nat)
<1>1. IsWellFoundedOn(Below, Nat)
  BY NatLessThanWellFounded
<1>2. \A j, k \in Nat : j < k => <<j, k>> \in Below
  BY DEF OpToRel
<1> HIDE DEF Below
<1>0. S \subseteq Nat /\ S # {}
  OBVIOUS
<1>3. PICK x \in S : \A y \in S : ~(<<y, x>> \in Below)
  BY <1>0, <1>1, WFMin
<1>4. \A y \in S : ~(y < x)
  BY <1>0, <1>2, <1>3
<1>5. \A y \in S : x <= y
  BY <1>0, <1>4
<1> QED BY <1>5 DEF Min

(* Sums over a range of buckets, bucket by bucket.                         *)
BucketByBucket(d, a, b) ==
    /\ Total(Restrict(d, a .. a)) = d[a]
    /\ \A w \in a .. b :
          /\ Total(Restrict(d, a .. w)) \in Nat
          /\ w # a => /\ w - 1 \in a .. b
                      /\ Total(Restrict(d, a .. w)) = Total(Restrict(d, a .. w - 1)) + d[w]

(* They add up that way.                                                   *)
LEMMA RangeTotal ==
    ASSUME NEW D, IsFiniteSet(D), NEW d \in [D -> Nat],
           NEW a \in Nat, NEW b \in Nat, a .. b \subseteq D, a <= b
    PROVE  BucketByBucket(d, a, b)
<1>1. Total(Restrict(d, a .. a)) = d[a]
  <2>1. a .. a = {a}
    OBVIOUS
  <2>2. Restrict(d, {a}) \in [{a} -> Nat] /\ Restrict(d, {a})[a] = d[a]
    BY DEF Restrict
  <2>3. Total(Restrict(d, {a})) = Restrict(d, {a})[a]
    BY <2>2, TotalOfOne
  <2> QED BY <2>1, <2>2, <2>3
<1>2. ASSUME NEW w \in a .. b
      PROVE  /\ Restrict(d, a .. w) \in [a .. w -> Nat] /\ IsFiniteSet(a .. w)
             /\ Total(Restrict(d, a .. w)) \in Nat
  <2>1. a .. w \subseteq D
    OBVIOUS
  <2>2. Restrict(d, a .. w) \in [a .. w -> Nat] /\ IsFiniteSet(a .. w)
    BY <2>1, FS_Subset DEF Restrict
  <2> QED BY <2>2, FiniteTotal
<1>3. ASSUME NEW w \in a .. b, w # a
      PROVE  /\ w - 1 \in a .. b
             /\ Total(Restrict(d, a .. w)) = Total(Restrict(d, a .. w - 1)) + d[w]
  <2>1. w - 1 \in a .. b /\ w \in a .. w /\ (a .. w) \ {w} = a .. w - 1
    BY <1>3
  <2> DEFINE e == Restrict(d, a .. w)
  <2>2. e \in [a .. w -> Nat] /\ IsFiniteSet(a .. w)
    BY <1>2
  <2>3. e[w] = d[w] /\ Restrict(e, a .. w - 1) = Restrict(d, a .. w - 1)
    BY <2>1 DEF Restrict
  <2> HIDE DEF e
  <2>4. Total(e) = Total(Restrict(e, (a .. w) \ {w})) + e[w]
    BY <2>1, <2>2, TotalWithout
  <2> QED BY <2>1, <2>3, <2>4 DEF e
<1> QED BY <1>1, <1>2, <1>3 DEF BucketByBucket

(* What the readers start from.                                            *)
ReaderHyp ==
    /\ FrameType /\ data \in [Buckets -> Nat]
    /\ count = Total(data) /\ count > 0
    /\ Used(data) \subseteq Scan

(* The bounds of a histogram with samples, none of them outside.           *)
LEMMA ReaderFacts ==
    ASSUME ReaderHyp
    PROVE  /\ min \in Nat /\ max \in Nat /\ min <= max
           /\ Scan = min .. max /\ Scan \subseteq Buckets
           /\ IsFiniteSet(Scan) /\ count \in Nat \ {0}
           /\ \A v \in Buckets \ Scan : data[v] = 0
           /\ \A v \in Scan : data[v] \in Nat
           /\ UpTo(max) = count
<1>0. /\ data \in [Buckets -> Nat] /\ max \in Buckets /\ min \in Buckets \cup {Infinity}
      /\ count = Total(data) /\ count > 0
  BY DEF ReaderHyp, FrameType
<1>1. count \in Nat \ {0}
  <2>1. Total(data) \in Nat
    BY <1>0, BucketsFinite, FiniteTotal
  <2> QED BY <1>0, <2>1
<1>2. Used(data) # {}
  <2> SUFFICES ASSUME Used(data) = {} PROVE FALSE
    OBVIOUS
  <2>1. \A v \in Buckets : data[v] = 0
    BY <1>0 DEF Used
  <2> QED BY <1>0, <1>1, <2>1, TotalOfZeros
<1>3. Scan # {}
  BY <1>2 DEF ReaderHyp
<1>4. min <= max /\ Scan = min .. max
  BY <1>3 DEF Scan
<1>5. max \in Nat /\ max < Limit /\ min \in Nat /\ \A v \in Buckets : v \in Nat
  BY <1>0, StatsAssumption DEF Buckets
<1>6. Scan \subseteq Buckets
  BY <1>4, <1>5, StatsAssumption DEF Buckets
<1>7. \A v \in Buckets \ Scan : data[v] = 0
  BY <1>0 DEF ReaderHyp, Used
<1>8. IsFiniteSet(Scan)
  BY <1>6, BucketsFinite, FS_Subset
<1>9. Total(Restrict(data, Scan)) = Total(data)
  BY <1>0, <1>6, <1>7, BucketsFinite, TotalOfRest
<1> QED BY <1>0, <1>1, <1>4, <1>5, <1>6, <1>7, <1>8, <1>9 DEF UpTo

(* UpTo grows from the samples at min to all of them at max.               *)
LEMMA UpToSteps ==
    ASSUME ReaderHyp
    PROVE  /\ UpTo(min) = data[min]
           /\ \A v \in Scan :
                 /\ UpTo(v) \in Nat
                 /\ v # min => v - 1 \in Scan /\ UpTo(v) = UpTo(v - 1) + data[v]
<1>1. /\ min \in Nat /\ max \in Nat /\ min <= max /\ Scan = min .. max /\ Scan \subseteq Buckets
      /\ IsFiniteSet(Buckets) /\ data \in [Buckets -> Nat]
  BY ReaderFacts, BucketsFinite DEF ReaderHyp
<1> HIDE DEF Scan
<1>2. /\ IsFiniteSet(Buckets) /\ data \in [Buckets -> Nat] /\ min \in Nat /\ max \in Nat
      /\ min .. max \subseteq Buckets /\ min <= max
  BY <1>1
<1>3. BucketByBucket(data, min, max)
  BY ONLY <1>2, RangeTotal
<1> QED BY <1>1, <1>3 DEF BucketByBucket, UpTo

(* The rank of a percentile is a rank among the samples.                   *)
LEMMA RankBounds ==
    ASSUME NEW p \in 0 .. 99, count \in Nat \ {0}
    PROVE  Rank(p) \in Nat \ {0} /\ Rank(p) <= count /\ 100 * Rank(p) >= p * count
<1>1. PICK x \in Nat : x = p * count /\ x < 100 * count
  <2>1. p * count \in Nat /\ p * count < 100 * count
    OBVIOUS
  <2> QED BY <2>1
<1>2. x \div 100 \in Nat /\ 100 * (x \div 100 + 1) >= x /\ x \div 100 < count
  BY <1>1
<1> QED BY <1>1, <1>2 DEF Rank

(* The first bucket at which the rank is reached has samples, and enough   *)
(* are at or below it.                                                     *)
LEMMA PercentilesRight == ReaderHyp => PercentileIsSample
<1> SUFFICES ASSUME ReaderHyp, NEW p \in {50, 75, 90, 99}
             PROVE  LET v == stats_percentile(p) IN
                    /\ data[v] > 0
                    /\ 100 * Total([u \in Buckets |-> IF u <= v THEN data[u] ELSE 0]) >= p * count
  BY DEF PercentileIsSample
<1>1. /\ min \in Nat /\ max \in Nat /\ min <= max /\ Scan = min .. max /\ Scan \subseteq Buckets
      /\ count \in Nat \ {0} /\ UpTo(max) = count
      /\ \A v \in Buckets \ Scan : data[v] = 0
      /\ \A v \in Scan : data[v] \in Nat
      /\ data \in [Buckets -> Nat]
  BY ReaderFacts DEF ReaderHyp
<1>2. /\ UpTo(min) = data[min]
      /\ \A v \in Scan :
            /\ UpTo(v) \in Nat
            /\ v # min => v - 1 \in Scan /\ UpTo(v) = UpTo(v - 1) + data[v]
  BY UpToSteps
<1>3. PICK r \in Nat \ {0} : r = Rank(p) /\ r <= count /\ 100 * r >= p * count
  <2>1. p \in 0 .. 99
    OBVIOUS
  <2> QED BY <1>1, <2>1, RankBounds
<1> DEFINE hits == {v \in Scan : UpTo(v) >= Rank(p)}
           v == Min(hits)
<1>4. max \in hits /\ hits \in SUBSET Nat
  <2>1. max \in Scan /\ Scan \subseteq Nat
    BY <1>1
  <2> QED BY <1>1, <1>3, <2>1
<1>5. v \in hits /\ \A w \in hits : v <= w
  <2> HIDE DEF hits
  <2> QED BY <1>4, LeastOfSet
<1>6. stats_percentile(p) = v
  BY <1>4 DEF stats_percentile
<1>7. v \in Scan /\ v \in Nat /\ v \in Buckets /\ UpTo(v) >= r /\ min <= v
  BY <1>1, <1>3, <1>4, <1>5
<1>8. \A w \in Scan : w < v => ~(UpTo(w) >= r)
  <2> SUFFICES ASSUME NEW w \in Scan, w < v, UpTo(w) >= r PROVE FALSE
    OBVIOUS
  <2>1. w \in hits /\ w \in Nat
    BY <1>1, <1>3
  <2>2. v <= w
    BY <1>5, <2>1
  <2> HIDE DEF v
  <2> QED BY <1>7, <2>1, <2>2
<1> HIDE DEF v, hits
<1>9. data[v] > 0
  <2>1. CASE v = min
    BY <1>1, <1>2, <1>3, <1>7, <2>1
  <2>2. CASE v # min
    <3>1. PICK w : w = v - 1
      OBVIOUS
    <3>2. w \in Scan /\ w < v /\ UpTo(v) = UpTo(w) + data[v]
      BY <1>2, <1>7, <2>2, <3>1
    <3>3. ~(UpTo(w) >= r) /\ UpTo(w) \in Nat /\ UpTo(v) \in Nat /\ data[v] \in Nat
      BY <1>1, <1>2, <1>7, <1>8, <3>2
    <3> QED BY <1>3, <1>7, <3>2, <3>3
  <2> QED BY <2>1, <2>2
<1> DEFINE d == [u \in Buckets |-> IF u <= v THEN data[u] ELSE 0]
<1>10. Total(d) = UpTo(v)
  <2>1. d \in [Buckets -> Nat]
    BY <1>1
  <2>2. min .. v \in SUBSET Buckets
    BY <1>1, <1>7
  <2>3. \A u \in Buckets \ (min .. v) : d[u] = 0
    <3> SUFFICES ASSUME NEW u \in Buckets, u \notin min .. v, u <= v PROVE data[u] = 0
      OBVIOUS
    <3>1. u \notin Scan
      BY <1>1, <1>7
    <3> QED BY <1>1, <3>1
  <2>4. Restrict(d, min .. v) = Restrict(data, min .. v)
    <3>1. \A u \in min .. v : u \in Buckets /\ u <= v
      BY <1>1, <1>7, <2>2
    <3> QED BY <3>1 DEF Restrict
  <2> HIDE DEF d
  <2>5. Total(Restrict(d, min .. v)) = Total(d)
    <3>1. PICK A : A = min .. v
      OBVIOUS
    <3>2. /\ IsFiniteSet(Buckets) /\ d \in [Buckets -> Nat] /\ A \in SUBSET Buckets
          /\ \A u \in Buckets \ A : d[u] = 0
      BY <2>1, <2>2, <2>3, <3>1, BucketsFinite
    <3>3. Total(Restrict(d, A)) = Total(d)
      BY ONLY <3>2, TotalOfRest
    <3> QED BY <3>1, <3>3
  <2> QED BY <2>4, <2>5 DEF UpTo
<1>11. 100 * UpTo(v) >= p * count
  <2>1. PICK x \in Nat : x = UpTo(v)
    BY <1>2, <1>7
  <2>2. 100 * x >= 100 * r
    BY <1>7, <2>1
  <2>3. PICK y \in Nat : y = p * count
    BY <1>1
  <2> QED BY <1>3, <2>1, <2>2, <2>3
<1> QED BY <1>6, <1>9, <1>10, <1>11

(* How many used values are below a value: a numbering of the used values. *)
LEMMA BeforeNumbers ==
    ASSUME NEW U \in SUBSET Nat, IsFiniteSet(U),
           NEW f \in [U -> Nat], \A v \in U : f[v] = Cardinality({u \in U : u < v})
    PROVE  LET N == Cardinality(U) IN
           /\ N \in Nat
           /\ \A v \in U : f[v] \in 0 .. N - 1
           /\ \A v, w \in U : v < w => f[v] < f[w]
           /\ \A k \in 0 .. N - 1 : \E v \in U : f[v] = k
<1> DEFINE Low(v) == {u \in U : u < v}
<1>1. PICK N \in Nat : N = Cardinality(U)
  BY FS_CardinalityType
<1>2. ASSUME NEW v \in U
      PROVE  f[v] \in 0 .. N - 1
  <2>1. Low(v) \in SUBSET (U \ {v})
    BY <1>2
  <2>2. IsFiniteSet(U \ {v}) /\ Cardinality(U \ {v}) = N - 1
    BY <1>1, FS_RemoveElement
  <2>3. Cardinality(Low(v)) <= N - 1
    <3> HIDE DEF Low
    <3> QED BY <2>1, <2>2, FS_Subset
  <2> QED BY <1>1, <2>3
<1>3. ASSUME NEW v \in U, NEW w \in U, v < w
      PROVE  f[v] < f[w]
  <2>1. v \in Nat /\ w \in Nat /\ f[v] \in Nat /\ f[w] \in Nat
    OBVIOUS
  <2>2. Low(v) \in SUBSET U /\ Low(w) \in SUBSET U
    OBVIOUS
  <2>3. v \notin Low(v) /\ v \in Low(w)
    BY <1>3, <2>1
  <2>4. \A u \in Low(v) : u \in Low(w)
    BY <1>3, <2>1
  <2> HIDE DEF Low
  <2>5. IsFiniteSet(Low(v)) /\ IsFiniteSet(Low(w))
    BY <2>2, FS_Subset
  <2>6. Cardinality(Low(v) \cup {v}) = Cardinality(Low(v)) + 1
    BY <2>3, <2>5, FS_AddElement
  <2>7. Low(v) \cup {v} \in SUBSET Low(w)
    BY <2>3, <2>4
  <2>8. Cardinality(Low(v) \cup {v}) <= Cardinality(Low(w))
    BY <2>5, <2>7, FS_Subset
  <2>9. f[v] = Cardinality(Low(v)) /\ f[w] = Cardinality(Low(w))
    BY DEF Low
  <2> QED BY <2>1, <2>6, <2>8, <2>9
<1>4. \A k \in 0 .. N - 1 : \E v \in U : f[v] = k
  <2> DEFINE T == 0 .. N - 1
  <2>1. f \in [U -> T]
    BY <1>2
  <2>2. \A v, w \in U : f[v] = f[w] => v = w
    <3> SUFFICES ASSUME NEW v \in U, NEW w \in U, f[v] = f[w], v # w PROVE FALSE
      OBVIOUS
    <3>1. v \in Nat /\ w \in Nat /\ f[v] \in Nat /\ f[w] \in Nat
      OBVIOUS
    <3>2. v < w \/ w < v
      BY <3>1
    <3> QED BY <1>3, <3>1, <3>2
  <2>3. f \in Injection(U, T)
    BY <2>1, <2>2 DEF Injection, IsInjective
  <2>4. 0 \in Int /\ N - 1 \in Int
    BY <1>1
  <2>5. IsFiniteSet(T) /\ Cardinality(T) = N
    <3>1. Cardinality(0 .. N - 1) = IF 0 > N - 1 THEN 0 ELSE (N - 1) - 0 + 1
      BY <2>4, FS_Interval
    <3> QED BY <1>1, <2>4, <3>1, FS_Interval
  <2> HIDE DEF T
  <2>6. f \in Surjection(U, T)
    BY <1>1, <2>3, <2>5, FS_Injection
  <2>7. \A k \in T : \E v \in U : f[v] = k
    BY <2>6 DEF Surjection
  <2> QED BY <2>7 DEF T
<1> QED BY <1>1, <1>2, <1>3, <1>4

(* Each index below popcount is that of one used value.                    *)
LEMMA ValuesRight == ReaderHyp => ValuesEnumerate
<1> SUFFICES ASSUME ReaderHyp PROVE ValuesEnumerate
  OBVIOUS
<1> DEFINE U == {v \in Scan : data[v] > 0}
           f == [v \in U |-> Before(v)]
           N == Cardinality(U)
<1>1. Scan \subseteq Buckets /\ IsFiniteSet(Scan) /\ \A v \in Buckets : v \in Nat
  BY ReaderFacts, StatsAssumption DEF Buckets
<1>2. U \in SUBSET Nat /\ IsFiniteSet(U)
  <2>1. U \in SUBSET Scan
    OBVIOUS
  <2>2. IsFiniteSet(U)
    <3> HIDE DEF U
    <3> QED BY <1>1, <2>1, FS_Subset
  <2> QED BY <1>1, <2>1, <2>2
<1>3. Used(data) = U
  BY <1>1 DEF ReaderHyp, Used
<1>4. stats_popcount = N
  BY DEF stats_popcount
<1>5. \A v : {u \in Scan : u < v /\ data[u] > 0} = {u \in U : u < v}
  OBVIOUS
<1>6. ASSUME NEW v
      PROVE  Before(v) = Cardinality({u \in U : u < v}) /\ Before(v) \in Nat
  <2>1. {u \in U : u < v} \in SUBSET U
    OBVIOUS
  <2>2. IsFiniteSet({u \in U : u < v})
    <3> HIDE DEF U
    <3> QED BY <1>2, <2>1, FS_Subset
  <2> HIDE DEF U
  <2>3. Cardinality({u \in U : u < v}) \in Nat
    BY <2>2, FS_CardinalityType
  <2> QED BY <1>5, <2>3 DEF Before
<1>7. f \in [U -> Nat] /\ \A v \in U : f[v] = Cardinality({u \in U : u < v})
  <2> HIDE DEF U
  <2> QED BY <1>6
<1>8. /\ N \in Nat
      /\ \A v \in U : f[v] \in 0 .. N - 1
      /\ \A v, w \in U : v < w => f[v] < f[w]
      /\ \A k \in 0 .. N - 1 : \E v \in U : f[v] = k
  <2> HIDE DEF U, f
  <2> QED BY <1>2, <1>7, BeforeNumbers
<1>9. ASSUME NEW k \in 0 .. N - 1, NEW v \in U, f[v] = k
      PROVE  stats_value_at(k)[1] = v
  <2> DEFINE hits == {w \in Scan : data[w] > 0 /\ Before(w) = k}
  <2>1. v \in hits
    BY <1>9
  <2>2. \A w \in hits : w = v
    <3> SUFFICES ASSUME NEW w \in hits, w # v PROVE FALSE
      OBVIOUS
    <3>1. w \in U /\ f[w] = f[v] /\ f[v] \in Nat
      BY <1>7, <1>9
    <3>2. w \in Nat /\ v \in Nat
      BY <1>2, <3>1
    <3>3. w < v \/ v < w
      BY <3>2
    <3> HIDE DEF U, f, hits
    <3> QED BY <1>8, <3>1, <3>3
  <2>3. hits \in SUBSET Nat /\ hits # {}
    BY <1>2, <2>1, <2>2
  <2>4. Min(hits) = v
    <3> HIDE DEF hits
    <3> QED BY <2>2, <2>3, LeastOfSet
  <2>5. stats_value_at(k) = <<Min(hits), data[Min(hits)]>>
    BY <2>1 DEF stats_value_at
  <2> HIDE DEF hits
  <2> QED BY <2>4, <2>5
<1> DEFINE valueAt(k) == stats_value_at(k)[1]
<1>10. \A k \in 0 .. N - 1 : valueAt(k) \in U /\ f[valueAt(k)] = k
  <2> HIDE DEF U, f, N
  <2> QED BY <1>8, <1>9
<1>11. {valueAt(k) : k \in 0 .. N - 1} = U
  <2>1. \A v \in U : f[v] \in 0 .. N - 1 /\ valueAt(f[v]) = v
    <3> HIDE DEF U, f, N
    <3> QED BY <1>8, <1>9
  <2> HIDE DEF U, f, N, valueAt
  <2> QED BY <1>10, <2>1
<1>12. \A j, k \in 0 .. N - 1 : j < k => valueAt(j) < valueAt(k)
  <2> SUFFICES ASSUME NEW j \in 0 .. N - 1, NEW k \in 0 .. N - 1, j < k
               PROVE  valueAt(j) < valueAt(k)
    OBVIOUS
  <2> HIDE DEF U, f, N, valueAt
  <2>1. PICK x, y \in Nat : /\ x = valueAt(j) /\ x \in U /\ f[x] = j
                            /\ y = valueAt(k) /\ y \in U /\ f[y] = k
    BY <1>2, <1>10
  <2>2. y < x => k < j
    BY <1>8, <2>1
  <2>3. x # y /\ ~(y < x)
    BY <1>8, <2>1, <2>2
  <2> QED BY <2>1, <2>3
<1> QED BY <1>3, <1>4, <1>11, <1>12 DEF ValuesEnumerate

(* Between two factors.                                                    *)
LEMMA ProductGrows ==
    ASSUME NEW l \in Nat, NEW h \in Nat, NEW v \in Nat, l <= v, v <= h, NEW x \in Nat
    PROVE  l * x <= x * v /\ x * v <= h * x /\ x * v \in Nat
OBVIOUS

(* A bucket between the bounds keeps the mean between them.                *)
LEMMA FrameGrows ==
    ASSUME NEW l \in Nat, NEW h \in Nat, NEW c \in Nat, NEW s \in Nat, NEW x \in Nat, NEW y \in Nat,
           l * c <= s, s <= h * c, l * x <= y, y <= h * x
    PROVE  l * (c + x) <= s + y /\ s + y <= h * (c + x)
<1>1. l * (c + x) = l * c + l * x /\ h * (c + x) = h * c + h * x
  OBVIOUS
<1>2. PICK a, b, d, e \in Nat : a = l * c /\ b = l * x /\ d = h * c /\ e = h * x
  OBVIOUS
<1> QED BY <1>1, <1>2

(* The sum of the values and their number grow together, bucket by bucket. *)
LEMMA MeanRight == ReaderHyp => MeanFramed
<1> SUFFICES ASSUME ReaderHyp PROVE MeanFramed
  OBVIOUS
<1>1. /\ min \in Nat /\ max \in Nat /\ min <= max /\ Scan = min .. max
      /\ IsFiniteSet(Scan) /\ UpTo(max) = count
      /\ \A v \in Scan : data[v] \in Nat
  BY ReaderFacts
<1>2. /\ UpTo(min) = data[min]
      /\ \A v \in Scan :
            /\ UpTo(v) \in Nat
            /\ v # min => v - 1 \in Scan /\ UpTo(v) = UpTo(v - 1) + data[v]
  BY UpToSteps
<1> DEFINE q == [v \in Scan |-> data[v] * v]
           Q(w) == Total(Restrict(q, min .. w))
           Good(w) == min * UpTo(w) <= Q(w) /\ Q(w) <= max * UpTo(w)
           Bad == {w \in Scan : ~Good(w)}
<1>3. \A v \in Scan : v \in Nat /\ min <= v /\ v <= max /\ data[v] * v \in Nat
  BY <1>1, ProductGrows
<1>4. q \in [Scan -> Nat] /\ (\A v \in Scan : q[v] = data[v] * v) /\ min .. max \subseteq Scan
  BY <1>1, <1>3
<1>5. \A v \in Scan : min * data[v] <= q[v] /\ q[v] <= max * data[v]
  BY <1>1, <1>3, <1>4, ProductGrows
<1>6. BucketByBucket(q, min, max)
  <2> HIDE DEF q
  <2> QED BY <1>1, <1>4, RangeTotal
<1> HIDE DEF q
<1>7. /\ Q(min) = q[min]
      /\ \A w \in Scan : Q(w) \in Nat /\ (w # min => w - 1 \in Scan /\ Q(w) = Q(w - 1) + q[w])
  BY <1>1, <1>6 DEF BucketByBucket
<1>8. min \in Scan /\ max \in Scan
  BY <1>1
<1> HIDE DEF Q
<1>9. Good(min)
  BY <1>2, <1>5, <1>7, <1>8
<1>10. ASSUME NEW w \in Scan, w # min, Good(w - 1)
       PROVE  Good(w)
  <2>1. w - 1 \in Scan
    BY <1>7, <1>10
  <2>2. PICK c, s, x, y \in Nat : c = UpTo(w - 1) /\ s = Q(w - 1) /\ x = data[w] /\ y = q[w]
    BY <1>1, <1>2, <1>4, <1>7, <2>1
  <2>3. min * c <= s /\ s <= max * c /\ min * x <= y /\ y <= max * x
    BY <1>5, <1>10, <2>2
  <2>4. min * (c + x) <= s + y /\ s + y <= max * (c + x)
    BY <1>1, <2>3, FrameGrows
  <2>5. UpTo(w) = c + x /\ Q(w) = s + y
    BY <1>2, <1>7, <1>10, <2>2
  <2> QED BY <2>4, <2>5
<1> HIDE DEF Good
<1>11. Bad = {}
  <2> SUFFICES ASSUME Bad # {} PROVE FALSE
    OBVIOUS
  <2> DEFINE b == Min(Bad)
  <2>1. Bad \in SUBSET Nat
    BY <1>3
  <2>2. b \in Bad /\ \A w \in Bad : b <= w
    <3> HIDE DEF Bad
    <3> QED BY <2>1, LeastOfSet
  <2> HIDE DEF b
  <2>3. b \in Scan /\ ~Good(b) /\ b \in Nat
    BY <2>1, <2>2
  <2>4. b # min
    BY <1>9, <2>3
  <2>5. b - 1 \in Scan /\ ~(b <= b - 1)
    BY <1>7, <2>3, <2>4
  <2>6. Good(b - 1)
    BY <2>2, <2>5
  <2> QED BY <1>10, <2>3, <2>4, <2>6
<1>12. Good(max)
  BY <1>8, <1>11
<1>13. Q(max) = MeanSum
  <2>1. Restrict(q, min .. max) = q
    BY <1>1, <1>4 DEF Restrict
  <2> QED BY <2>1 DEF Q, q, MeanSum
<1> QED BY <1>1, <1>12, <1>13 DEF Good, MeanFramed

(* The readers of the report and of the script's done() see every sample   *)
(* (stats.c:45-110), for every histogram whose samples lie between its     *)
(* bounds: a percentile is a value that was seen, with that share of the   *)
(* samples at or below it; the single values enumerate the used buckets    *)
(* in order; and the mean lies between the bounds.                         *)
THEOREM ReadersCorrect == MainSpec => []ReadersSeeSamples
<1>1. MainInv /\ SumInv => ReadersSeeSamples
  <2> SUFFICES ASSUME MainInv, SumInv, at = "report", count > 0, Used(data) \subseteq Scan
               PROVE  PercentileIsSample /\ ValuesEnumerate /\ MeanFramed
    BY DEF ReadersSeeSamples
  <2>1. count = Total(data)
    BY CountIsTotal DEF Joined
  <2>2. ReaderHyp
    BY <2>1 DEF ReaderHyp, MainInv, FrameInv, SumInv, Sampled
  <2> QED BY <2>2, PercentilesRight, ValuesRight, MeanRight
<1> QED BY <1>1, SumInvariant, PTL

---------------------------------------------------------------------------
(* What holds at a and, from each number below b, at the next one, holds   *)
(* up to b.                                                                *)
LEMMA Upwards ==
    ASSUME NEW a \in Nat, NEW b \in Nat, NEW S,
           a \in S, \A k \in a .. b - 1 : k \in S => k + 1 \in S
    PROVE  a .. b \subseteq S
<1> SUFFICES ASSUME (a .. b) \ S # {} PROVE FALSE
  OBVIOUS
<1>1. (a .. b) \ S \in SUBSET Nat
  OBVIOUS
<1>2. PICK k \in (a .. b) \ S : \A j \in (a .. b) \ S : k <= j
  BY <1>1, LeastOfSet
<1>3. k - 1 \in a .. b - 1 /\ (k - 1) + 1 = k
  BY <1>2
<1>4. k - 1 \in S
  BY <1>2, <1>3
<1> QED BY <1>2, <1>3, <1>4

(* The loop has found something after each symbol.                         *)
LEMMA UrlScanStep ==
    ASSUME NEW url, Len(url) \in Nat
    PROVE  /\ UrlScan(url)[0] = UrlStart
           /\ \A k \in 1 .. Len(url) :
                UrlScan(url)[k] = UrlStep(UrlScan(url)[k - 1], url[k], k)
<1> DEFINE Loop(f, st) == f = [k \in 0 .. st |->
                            IF k = 0 THEN UrlStart ELSE UrlStep(f[k - 1], url[k], k)]
           S == {st \in Nat : \E f : Loop(f, st)}
           N == Len(url)
<1>1. 0 \in S
  <2> DEFINE f == [k \in 0 .. 0 |-> UrlStart]
  <2>1. Loop(f, 0)
    OBVIOUS
  <2> QED BY <2>1
<1>2. ASSUME NEW st \in Nat, st \in S PROVE st + 1 \in S
  <2>1. PICK f : Loop(f, st)
    BY <1>2
  <2> DEFINE g == [k \in 0 .. st + 1 |->
                     IF k \in 0 .. st THEN f[k] ELSE UrlStep(f[st], url[k], k)]
  <2>2. \A k \in 0 .. st : g[k] = f[k]
    OBVIOUS
  <2>3. \A k \in 0 .. st + 1 :
           g[k] = IF k = 0 THEN UrlStart ELSE UrlStep(g[k - 1], url[k], k)
    <3> SUFFICES ASSUME NEW k \in 0 .. st + 1
                 PROVE  g[k] = IF k = 0 THEN UrlStart ELSE UrlStep(g[k - 1], url[k], k)
      OBVIOUS
    <3>1. CASE k = st + 1
      <4>1. ~(k \in 0 .. st) /\ k # 0 /\ k - 1 = st /\ g[st] = f[st]
        BY <3>1, <2>2
      <4> QED BY <4>1
    <3>2. CASE k \in 1 .. st
      <4>1. k - 1 \in 0 .. st /\ k \in 0 .. st /\ k # 0
        BY <3>2
      <4>2. g[k] = f[k] /\ g[k - 1] = f[k - 1]
        BY <4>1, <2>2
      <4>3. f[k] = UrlStep(f[k - 1], url[k], k)
        BY <2>1, <4>1, Zenon
      <4> QED BY <4>1, <4>2, <4>3
    <3>3. CASE k = 0
      BY <3>3, <2>1, <2>2
    <3> QED BY <3>1, <3>2, <3>3
  <2>4. Loop(g, st + 1)
    <3> HIDE DEF g
    <3>1. g = [k \in 0 .. st + 1 |-> g[k]]
      BY DEF g
    <3> QED BY <3>1, <2>3
  <2>5. \E h : Loop(h, st + 1)
    BY <2>4
  <2> HIDE DEF Loop
  <2> QED BY <2>5
<1>3. N \in S
  <2> HIDE DEF S
  <2>1. 0 .. N \subseteq S
    BY <1>1, <1>2, Upwards
  <2> QED BY <2>1
<1>4. PICK f : Loop(f, N)
  BY <1>3
<1>5. Loop(UrlScan(url), N)
  <2>1. UrlScan(url) = CHOOSE f2 : Loop(f2, N)
    BY DEF UrlScan
  <2> HIDE DEF Loop
  <2> QED BY <2>1, <1>4
<1> DEFINE after == UrlScan(url)
<1>6. after = [k \in 0 .. N |-> IF k = 0 THEN UrlStart ELSE UrlStep(after[k - 1], url[k], k)]
  BY <1>5
<1> HIDE DEF after
<1>7. after[0] = UrlStart /\ \A k \in 1 .. N : after[k] = UrlStep(after[k - 1], url[k], k)
  <2>1. 0 \in 0 .. N /\ \A k \in 1 .. N : k \in 0 .. N /\ k # 0
    OBVIOUS
  <2> QED BY <1>6, <2>1, Zenon
<1> QED BY <1>7 DEF after

FieldData == [off : Nat, len : Nat]

(* The field that begins at o, once the symbols up to b are read.          *)
Span(o, b) == IF b < o THEN NoField ELSE [off |-> o, len |-> b - o + 1]

LEMMA SpanGrows ==
    ASSUME NEW o \in Nat \ {0}, NEW b \in Nat, o <= b + 1
    PROVE  /\ Extend(Span(o, b), b + 1) = Span(o, b + 1)
           /\ Span(o, b) \in FieldData
           /\ Span(o, b).len = b + 1 - o
<1>1. CASE o = b + 1
  BY <1>1 DEF Extend, Span, NoField, FieldData
<1>2. CASE o <= b
  BY <1>2 DEF Extend, Span, NoField, FieldData
<1> QED BY <1>1, <1>2

(* One symbol of the loop: the state, and each field.                      *)
Moved(u, c, k, w) ==
    /\ w.state = parse_url_char(u.state, c)
    /\ w.found_at <=> u.found_at \/ w.state = "s_req_server_with_at"
    /\ \A f \in Fields : w.data[f] =
          IF f = FieldOf(w.state) THEN Extend(u.data[f], k) ELSE u.data[f]

LEMMA UrlStepMoves ==
    ASSUME NEW u, u.data \in [Fields -> FieldData], NEW c, NEW k \in Nat
    PROVE  /\ Moved(u, c, k, UrlStep(u, c, k))
           /\ UrlStep(u, c, k).data \in [Fields -> FieldData]
<1> DEFINE s == parse_url_char(u.state, c)
           f == FieldOf(s)
           D == IF f = "none" THEN u.data ELSE [u.data EXCEPT ![f] = Extend(@, k)]
           b == u.found_at \/ s = "s_req_server_with_at"
<1>1. UrlStep(u, c, k) = [state |-> s, found_at |-> b, data |-> D]
  BY DEF UrlStep
<1>2. f = "none" \/ f \in Fields
  BY DEF FieldOf, Fields
<1>3. "none" \notin Fields
  BY DEF Fields
<1>4. \A g \in Fields : Extend(u.data[g], k) \in FieldData
  BY DEF FieldData, Extend
<1>5. D \in [Fields -> FieldData]
  BY <1>2, <1>4
<1>6. \A g \in Fields : D[g] = IF g = f THEN Extend(u.data[g], k) ELSE u.data[g]
  BY <1>2, <1>3
<1> HIDE DEF D, b, f, s
<1>7. UrlStep(u, c, k).state = s /\ UrlStep(u, c, k).data = D
  BY <1>1
<1>8. UrlStep(u, c, k).found_at = b
  BY <1>1
<1>9. UrlStep(u, c, k).found_at <=> u.found_at \/ s = "s_req_server_with_at"
  BY <1>8, Zenon DEF b
<1> QED BY <1>5, <1>6, <1>7, <1>9 DEF Moved, s, f

(* What the first pass knows behind each symbol.                           *)
LEMMA UrlScanMoves ==
    ASSUME NEW url, Len(url) \in Nat
    PROVE  /\ UrlScan(url)[0] = UrlStart
           /\ \A k \in 0 .. Len(url) : UrlScan(url)[k].data \in [Fields -> FieldData]
           /\ \A k \in 1 .. Len(url) : Moved(UrlScan(url)[k - 1], url[k], k, UrlScan(url)[k])
<1> DEFINE after == UrlScan(url)
           S == {k \in Nat : k \in 0 .. Len(url) => after[k].data \in [Fields -> FieldData]}
<1>1. /\ after[0] = UrlStart
      /\ \A k \in 1 .. Len(url) : after[k] = UrlStep(after[k - 1], url[k], k)
  BY UrlScanStep
<1> HIDE DEF after
<1>2. 0 \in S
  BY <1>1 DEF UrlStart, NoField, FieldData
<1>3. ASSUME NEW k \in 0 .. Len(url) - 1, k \in S PROVE k + 1 \in S
  <2>1. k + 1 \in 1 .. Len(url) /\ k + 1 \in Nat /\ (k + 1) - 1 = k /\ k \in 0 .. Len(url)
    OBVIOUS
  <2>2. after[k].data \in [Fields -> FieldData]
    BY <1>3, <2>1
  <2>3. after[k + 1] = UrlStep(after[k], url[k + 1], k + 1)
    BY <1>1, <2>1
  <2> QED BY <2>1, <2>2, <2>3, UrlStepMoves
<1>4. 0 .. Len(url) \subseteq S
  <2> HIDE DEF S
  <2> QED BY <1>2, <1>3, Upwards
<1>5. \A k \in 0 .. Len(url) : after[k].data \in [Fields -> FieldData]
  BY <1>4
<1>6. ASSUME NEW k \in 1 .. Len(url) PROVE Moved(after[k - 1], url[k], k, after[k])
  <2>1. k - 1 \in 0 .. Len(url) /\ k \in Nat
    OBVIOUS
  <2> QED BY <1>1, <1>5, <2>1, UrlStepMoves
<1> QED BY <1>1, <1>5, <1>6 DEF after

(* s is written in url behind place st.                                    *)
At(url, st, s) ==
    /\ st \in Nat /\ s \in Seq(Chars) /\ st + Len(s) <= Len(url)
    /\ \A j \in 1 .. Len(s) : url[st + j] = s[j]

LEMMA AtAppend ==
    ASSUME NEW s \in Seq(Chars), NEW t \in Seq(Chars)
    PROVE  /\ s \o t \in Seq(Chars) /\ Len(s \o t) = Len(s) + Len(t)
           /\ At(s \o t, Len(s), t)
           /\ \A st, x : At(s, st, x) => At(s \o t, st, x)
<1>1. s \o t \in Seq(Chars) /\ Len(s \o t) = Len(s) + Len(t)
  OBVIOUS
<1>2. At(s \o t, Len(s), t)
  BY <1>1 DEF At
<1>3. ASSUME NEW st, NEW x, At(s, st, x) PROVE At(s \o t, st, x)
  <2>1. \A j \in 1 .. Len(x) : st + j \in 1 .. Len(s) /\ (s \o t)[st + j] = s[st + j]
    BY <1>3 DEF At
  <2> QED BY <1>1, <1>3, <2>1 DEF At
<1> QED BY <1>1, <1>2, <1>3

LEMMA AtJoin ==
    ASSUME NEW url, NEW st, NEW s, NEW t, At(url, st, s), At(url, st + Len(s), t)
    PROVE  At(url, st, s \o t)
<1>1. /\ st \in Nat /\ s \in Seq(Chars) /\ t \in Seq(Chars)
      /\ Len(s) \in Nat /\ Len(t) \in Nat /\ st + Len(s) + Len(t) <= Len(url)
  BY DEF At
<1>2. s \o t \in Seq(Chars) /\ Len(s \o t) = Len(s) + Len(t)
  BY <1>1
<1>3. ASSUME NEW j \in 1 .. Len(s) + Len(t) PROVE url[st + j] = (s \o t)[j]
  <2>1. CASE j <= Len(s)
    <3>1. (s \o t)[j] = s[j] /\ j \in 1 .. Len(s)
      BY <1>1, <2>1
    <3> QED BY <3>1 DEF At
  <2>2. CASE j > Len(s)
    <3>1. (s \o t)[j] = t[j - Len(s)] /\ j - Len(s) \in 1 .. Len(t)
      BY <1>1, <2>2
    <3>2. (st + Len(s)) + (j - Len(s)) = st + j
      BY <1>1
    <3>3. \A x \in 1 .. Len(t) : url[(st + Len(s)) + x] = t[x]
      BY DEF At
    <3> QED BY <3>1, <3>2, <3>3
  <2> QED BY <1>1, <2>1, <2>2
<1>4. st + Len(s \o t) <= Len(url)
  BY <1>1, <1>2
<1> QED BY <1>1, <1>2, <1>3, <1>4 DEF At

LEMMA AtSubSeq ==
    ASSUME NEW url \in Seq(Chars), NEW st, NEW s, At(url, st, s)
    PROVE  SubSeq(url, st + 1, st + Len(s)) = s
<1> DEFINE t == SubSeq(url, st + 1, st + Len(s))
<1>1. /\ st \in Nat /\ Len(s) \in Nat /\ st + Len(s) <= Len(url) /\ Len(url) \in Nat
      /\ s \in Seq(Chars)
  BY DEF At
<1>2. t \in Seq(Chars) /\ Len(t) = Len(s)
  BY <1>1
<1>3. \A j \in 1 .. Len(s) : t[j] = url[st + j]
  BY <1>1
<1>4. \A j \in 1 .. Len(s) : t[j] = s[j]
  BY <1>3 DEF At
<1> HIDE DEF t
<1>5. t = s
  BY <1>1, <1>2, <1>4, SeqEqual
<1> QED BY <1>5 DEF t

(* The places of the parts in what Render writes.                          *)
SchemaEnd(d)   == Len(d.schema)
ServerBegin(d) == SchemaEnd(d) + 3
UserEnd(d)     == ServerBegin(d) + Len(d.userinfo)
Bracket(d)     == IF d.literal THEN 1 ELSE 0
HostBegin(d)   == UserEnd(d) + Bracket(d)
HostEnd(d)     == HostBegin(d) + Len(d.host)
PortBegin(d)   == HostEnd(d) + Bracket(d)
ServerEnd(d)   == PortBegin(d) + (IF d.port = <<>> THEN 0 ELSE 2)
PathEnd(d)     == ServerEnd(d) + Len(d.path)
QueryEnd(d)    == PathEnd(d) + Len(d.query)

Laid(d, url) ==
    /\ url \in Seq(Chars) /\ Len(url) = QueryEnd(d) + Len(d.fragment)
    /\ At(url, 0, d.schema) /\ At(url, SchemaEnd(d), <<":", "/", "/">>)
    /\ At(url, ServerBegin(d), d.userinfo)
    /\ d.literal => url[HostBegin(d)] = "[" /\ url[PortBegin(d)] = "]"
    /\ At(url, HostBegin(d), d.host)
    /\ d.port # <<>> => url[PortBegin(d) + 1] = ":" /\ url[ServerEnd(d)] = d.port[1]
    /\ At(url, ServerEnd(d), d.path) /\ At(url, PathEnd(d), d.query)
    /\ At(url, QueryEnd(d), d.fragment)

LEMMA RenderLays ==
    ASSUME NEW d, WellFormed(d)
    PROVE  Laid(d, Render(d))
<1> DEFINE h == IF d.literal THEN <<"[">> \o d.host \o <<"]">> ELSE d.host
           p == IF d.port = <<>> THEN <<>> ELSE <<":">> \o d.port
           s1 == d.schema \o <<":", "/", "/">>
           s2 == s1 \o d.userinfo
           s3 == s2 \o h
           s4 == s3 \o p
           s5 == s4 \o d.path
           s6 == s5 \o d.query
           s7 == s6 \o d.fragment
<1>0. Letters \subseteq Chars /\ Numbers \subseteq Chars /\ {":", "/", "[", "]"} \subseteq Chars
  BY DEF Chars, Delimiters, AlphaNum
<1>1. /\ d.schema \in Seq(Chars) /\ d.userinfo \in Seq(Chars) /\ d.host \in Seq(Chars)
      /\ d.path \in Seq(Chars) /\ d.query \in Seq(Chars) /\ d.fragment \in Seq(Chars)
      /\ <<":", "/", "/">> \in Seq(Chars) /\ d.literal \in BOOLEAN
  <2>1. d.schema \in Seq(Chars)
    BY <1>0 DEF WellFormed
  <2>2. <<d.userinfo, d.path, d.query, d.fragment>> \in Seq(Seq(Chars))
    BY DEF WellFormed
  <2>3. /\ d.userinfo \in Seq(Chars) /\ d.path \in Seq(Chars)
        /\ d.query \in Seq(Chars) /\ d.fragment \in Seq(Chars)
    BY <2>2
  <2> QED BY <2>1, <2>3, <1>0 DEF WellFormed
<1>b. /\ Bracket(d) \in Nat
      /\ d.literal => Bracket(d) = 1
      /\ ~d.literal => Bracket(d) = 0
  BY DEF Bracket
<1>2. /\ h \in Seq(Chars)
      /\ Len(h) = Len(d.host) + Bracket(d) + Bracket(d)
      /\ At(h, Bracket(d), d.host)
      /\ d.literal => h[1] = "[" /\ h[Len(d.host) + 2] = "]"
  <2>1. CASE d.literal
    <3>1. <<"[">> \in Seq(Chars) /\ <<"]">> \in Seq(Chars)
      BY <1>0
    <3> DEFINE open  == <<"[">>
               close == <<"]">>
               t == open \o d.host
    <3>2. open \in Seq(Chars) /\ Len(open) = 1 /\ At(open, 0, open) /\ open[1] = "["
      BY <3>1 DEF At
    <3>3. close \in Seq(Chars) /\ Len(close) = 1 /\ close[1] = "]"
      BY <3>1
    <3>4. h = t \o close
      BY <2>1
    <3> HIDE DEF open, close, h
    <3>5. /\ t \in Seq(Chars) /\ Len(t) = 1 + Len(d.host)
          /\ At(t, 1, d.host) /\ At(t, 0, open)
      BY <3>2, <1>1, AtAppend
    <3> HIDE DEF t
    <3>6. /\ h \in Seq(Chars) /\ Len(h) = Len(t) + 1
          /\ At(h, 1, d.host) /\ At(h, 0, open) /\ At(h, Len(t), close)
      BY <3>3, <3>4, <3>5, AtAppend
    <3>7. 1 \in 1 .. Len(open) /\ 1 \in 1 .. Len(close) /\ 0 + 1 = 1
      BY <3>2, <3>3
    <3>8. h[0 + 1] = open[1] /\ h[Len(t) + 1] = close[1]
      BY <3>6, <3>7 DEF At
    <3>9. Len(d.host) \in Nat
      BY <1>1
    <3>10. Len(t) + 1 = Len(d.host) + 2
      BY <3>5, <3>9
    <3>11. h[1] = "[" /\ h[Len(d.host) + 2] = "]"
      BY <3>2, <3>3, <3>7, <3>8, <3>10
    <3> QED BY <1>b, <2>1, <3>5, <3>6, <3>9, <3>10, <3>11
  <2>2. CASE ~d.literal
    <3>1. h = d.host /\ Len(d.host) \in Nat
      BY <2>2, <1>1
    <3>2. At(d.host, 0, d.host)
      BY <1>1 DEF At
    <3> HIDE DEF h
    <3> QED BY <3>1, <3>2, <1>1, <2>2, <1>b
  <2> QED BY <2>1, <2>2
<1>3. /\ p \in Seq(Chars)
      /\ Len(p) = (IF d.port = <<>> THEN 0 ELSE 2)
      /\ d.port # <<>> => p[1] = ":" /\ p[2] = d.port[1]
  <2>1. CASE d.port = <<>>
    BY <2>1
  <2>2. ASSUME NEW st \in Numbers, d.port = <<st>> PROVE <1>3
    <3>1. d.port \in Seq(Chars) /\ Len(d.port) = 1 /\ d.port # <<>> /\ <<":">> \in Seq(Chars)
      BY <2>2, <1>0
    <3> QED BY <2>2, <3>1
  <2> QED BY <2>1, <2>2 DEF WellFormed
<1> HIDE DEF h, p
<1>4. /\ s1 \in Seq(Chars) /\ Len(s1) = ServerBegin(d)
      /\ At(s1, 0, d.schema) /\ At(s1, SchemaEnd(d), <<":", "/", "/">>)
  <2>1. At(d.schema, 0, d.schema)
    BY <1>1 DEF At
  <2> QED BY <2>1, <1>1, AtAppend DEF ServerBegin, SchemaEnd
<1> HIDE DEF s1
<1>5. /\ s2 \in Seq(Chars) /\ Len(s2) = UserEnd(d)
      /\ At(s2, 0, d.schema) /\ At(s2, SchemaEnd(d), <<":", "/", "/">>)
      /\ At(s2, ServerBegin(d), d.userinfo)
  BY <1>4, <1>1, AtAppend DEF UserEnd
<1> HIDE DEF s2
<1>6. /\ s3 \in Seq(Chars) /\ Len(s3) = PortBegin(d)
      /\ At(s3, 0, d.schema) /\ At(s3, SchemaEnd(d), <<":", "/", "/">>)
      /\ At(s3, ServerBegin(d), d.userinfo) /\ At(s3, UserEnd(d), h)
  <2>1. Len(s2) + Len(h) = PortBegin(d)
    <3>1. Len(d.host) \in Nat /\ Len(s2) \in Nat
      BY <1>1, <1>5
    <3> QED BY <1>2, <1>5, <1>b, <3>1 DEF PortBegin, HostEnd, HostBegin
  <2> QED BY <2>1, <1>5, <1>2, AtAppend
<1> HIDE DEF s3
<1>7. /\ s4 \in Seq(Chars) /\ Len(s4) = ServerEnd(d)
      /\ At(s4, 0, d.schema) /\ At(s4, SchemaEnd(d), <<":", "/", "/">>)
      /\ At(s4, ServerBegin(d), d.userinfo) /\ At(s4, UserEnd(d), h)
      /\ At(s4, PortBegin(d), p)
  BY <1>6, <1>3, AtAppend DEF ServerEnd
<1> HIDE DEF s4
<1>8. /\ s5 \in Seq(Chars) /\ Len(s5) = PathEnd(d)
      /\ At(s5, 0, d.schema) /\ At(s5, SchemaEnd(d), <<":", "/", "/">>)
      /\ At(s5, ServerBegin(d), d.userinfo) /\ At(s5, UserEnd(d), h)
      /\ At(s5, PortBegin(d), p) /\ At(s5, ServerEnd(d), d.path)
  BY <1>7, <1>1, AtAppend DEF PathEnd
<1> HIDE DEF s5
<1>9. /\ s6 \in Seq(Chars) /\ Len(s6) = QueryEnd(d)
      /\ At(s6, 0, d.schema) /\ At(s6, SchemaEnd(d), <<":", "/", "/">>)
      /\ At(s6, ServerBegin(d), d.userinfo) /\ At(s6, UserEnd(d), h)
      /\ At(s6, PortBegin(d), p) /\ At(s6, ServerEnd(d), d.path) /\ At(s6, PathEnd(d), d.query)
  BY <1>8, <1>1, AtAppend DEF QueryEnd
<1> HIDE DEF s6
<1>10. /\ s7 \in Seq(Chars) /\ Len(s7) = QueryEnd(d) + Len(d.fragment)
       /\ At(s7, 0, d.schema) /\ At(s7, SchemaEnd(d), <<":", "/", "/">>)
       /\ At(s7, ServerBegin(d), d.userinfo) /\ At(s7, UserEnd(d), h)
       /\ At(s7, PortBegin(d), p) /\ At(s7, ServerEnd(d), d.path) /\ At(s7, PathEnd(d), d.query)
       /\ At(s7, QueryEnd(d), d.fragment)
  BY <1>9, <1>1, AtAppend
<1>11. s7 = Render(d)
  BY DEF Render, s6, s5, s4, s3, s2, s1, h, p
<1> HIDE DEF s7
<1>12. /\ At(s7, HostBegin(d), d.host)
       /\ d.literal => s7[HostBegin(d)] = "[" /\ s7[PortBegin(d)] = "]"
  <2>0. UserEnd(d) \in Nat /\ Len(d.host) \in Nat /\ Len(s7) \in Nat /\ Len(h) \in Nat
    <3>1. At(s7, UserEnd(d), h)
      BY <1>10
    <3>2. UserEnd(d) \in Nat
      BY <3>1 DEF At
    <3> QED BY <3>2, <1>1, <1>2, <1>10
  <2>1. /\ HostBegin(d) = UserEnd(d) + Bracket(d)
        /\ PortBegin(d) = UserEnd(d) + Len(d.host) + Bracket(d) + Bracket(d)
    BY <2>0, <1>b DEF HostBegin, PortBegin, HostEnd
  <2>2. UserEnd(d) + Len(h) <= Len(s7) /\ \A j \in 1 .. Len(h) : s7[UserEnd(d) + j] = h[j]
    BY <1>10 DEF At
  <2>3. \A j \in 1 .. Len(d.host) : h[Bracket(d) + j] = d.host[j]
    BY <1>2 DEF At
  <2>4. ASSUME NEW j \in 1 .. Len(d.host) PROVE s7[HostBegin(d) + j] = d.host[j]
    <3>1. Bracket(d) + j \in 1 .. Len(h)
      BY <2>0, <1>2, <1>b
    <3>2. HostBegin(d) + j = UserEnd(d) + (Bracket(d) + j)
      BY <2>0, <2>1, <1>b
    <3> QED BY <2>2, <2>3, <3>1, <3>2
  <2>5. HostBegin(d) \in Nat /\ HostBegin(d) + Len(d.host) <= Len(s7)
    BY <2>0, <2>1, <2>2, <1>2, <1>b
  <2>6. d.literal => s7[HostBegin(d)] = "[" /\ s7[PortBegin(d)] = "]"
    <3> HAVE d.literal
    <3>0. Bracket(d) = 1 /\ Len(h) = Len(d.host) + 2
      BY <1>2, <1>b
    <3>1. /\ 1 \in 1 .. Len(h) /\ Len(d.host) + 2 \in 1 .. Len(h)
          /\ HostBegin(d) = UserEnd(d) + 1 /\ PortBegin(d) = UserEnd(d) + (Len(d.host) + 2)
      BY <2>0, <2>1, <3>0
    <3> QED BY <2>2, <3>1, <1>2
  <2>7. At(s7, HostBegin(d), d.host)
    BY <2>4, <2>5, <1>1 DEF At
  <2> QED BY <2>6, <2>7, Zenon
<1>13. d.port # <<>> => s7[PortBegin(d) + 1] = ":" /\ s7[ServerEnd(d)] = d.port[1]
  <2> HAVE d.port # <<>>
  <2>1. At(s7, PortBegin(d), p)
    BY <1>10
  <2>2. PortBegin(d) \in Nat /\ \A j \in 1 .. Len(p) : s7[PortBegin(d) + j] = p[j]
    BY <2>1 DEF At
  <2>3. 1 \in 1 .. Len(p) /\ 2 \in 1 .. Len(p) /\ ServerEnd(d) = PortBegin(d) + 2
    BY <1>3 DEF ServerEnd
  <2> QED BY <2>2, <2>3, <1>3
<1>14. Laid(d, s7)
  BY <1>10, <1>12, <1>13 DEF Laid
<1> QED BY <1>11, <1>14

(* A part with a delimiter of its own before or behind it.                 *)
LEMMA AtHead ==
    ASSUME NEW url, NEW st, NEW s, NEW C, At(url, st, s), s # <<>>, Tail(s) \in Seq(C)
    PROVE  /\ url[st + 1] = Head(s)
           /\ \A k \in st + 2 .. st + Len(s) : url[k] \in C
<1>1. st \in Nat /\ Len(s) \in Nat /\ Len(s) >= 1 /\ s \in Seq(Chars)
  BY DEF At
<1>2. \A j \in 1 .. Len(s) : url[st + j] = s[j]
  BY DEF At
<1>3. Head(s) = s[1] /\ 1 \in 1 .. Len(s)
  BY <1>1
<1>4. ASSUME NEW k \in st + 2 .. st + Len(s) PROVE url[k] \in C
  <2>1. k - st - 1 \in 1 .. Len(s) - 1 /\ k - st \in 1 .. Len(s) /\ st + (k - st) = k
    BY <1>1
  <2>2. Len(Tail(s)) = Len(s) - 1 /\ Tail(s)[k - st - 1] = s[k - st]
    BY <2>1, <1>1
  <2> QED BY <1>2, <2>1, <2>2
<1> QED BY <1>2, <1>3, <1>4

LEMMA AtLast ==
    ASSUME NEW url, NEW st, NEW s, NEW C, At(url, st, s), s # <<>>, Front(s) \in Seq(C)
    PROVE  /\ url[st + Len(s)] = Last(s)
           /\ \A k \in st + 1 .. st + Len(s) - 1 : url[k] \in C
<1>1. st \in Nat /\ Len(s) \in Nat /\ Len(s) >= 1 /\ s \in Seq(Chars)
  BY DEF At
<1>2. \A j \in 1 .. Len(s) : url[st + j] = s[j]
  BY DEF At
<1>3. Last(s) = s[Len(s)] /\ Len(s) \in 1 .. Len(s)
  BY <1>1 DEF Last
<1>4. ASSUME NEW k \in st + 1 .. st + Len(s) - 1 PROVE url[k] \in C
  <2>1. k - st \in 1 .. Len(s) - 1 /\ k - st \in 1 .. Len(s) /\ st + (k - st) = k
    BY <1>1
  <2>2. Len(Front(s)) = Len(s) - 1 /\ Front(s)[k - st] = s[k - st]
    BY <2>1, <1>1 DEF Front
  <2> QED BY <1>2, <2>1, <2>2
<1> QED BY <1>2, <1>3, <1>4

LEMMA AtAll ==
    ASSUME NEW url, NEW st, NEW s, NEW C, At(url, st, s), s \in Seq(C)
    PROVE  \A k \in st + 1 .. st + Len(s) : url[k] \in C
<1>1. st \in Nat /\ Len(s) \in Nat
  BY DEF At
<1> TAKE k \in st + 1 .. st + Len(s)
<1>2. k - st \in 1 .. Len(s) /\ st + (k - st) = k
  BY <1>1
<1>3. url[k] = s[k - st]
  BY <1>2 DEF At
<1> QED BY <1>2, <1>3

(* The places follow each other.                                           *)
LEMMA PlacesTyped ==
    ASSUME NEW d, WellFormed(d)
    PROVE  /\ SchemaEnd(d) \in Nat \ {0} /\ ServerBegin(d) = SchemaEnd(d) + 3
           /\ UserEnd(d) \in Nat /\ UserEnd(d) >= ServerBegin(d)
           /\ d.userinfo # <<>> <=> UserEnd(d) > ServerBegin(d)
           /\ Bracket(d) \in {0, 1} /\ (Bracket(d) = 1 <=> d.literal)
           /\ HostBegin(d) = UserEnd(d) + Bracket(d) /\ HostBegin(d) \in Nat
           /\ Len(d.host) \in Nat \ {0} /\ HostEnd(d) = HostBegin(d) + Len(d.host)
           /\ HostEnd(d) \in Nat /\ PortBegin(d) = HostEnd(d) + Bracket(d)
           /\ PortBegin(d) \in Nat /\ ServerEnd(d) \in Nat
           /\ d.port = <<>> => ServerEnd(d) = PortBegin(d)
           /\ d.port # <<>> => ServerEnd(d) = PortBegin(d) + 2
           /\ PathEnd(d) = ServerEnd(d) + Len(d.path) /\ PathEnd(d) \in Nat
           /\ Len(d.path) \in Nat /\ (d.path # <<>> <=> Len(d.path) > 0)
           /\ QueryEnd(d) = PathEnd(d) + Len(d.query) /\ QueryEnd(d) \in Nat
           /\ Len(d.query) \in Nat /\ (d.query # <<>> <=> Len(d.query) > 0)
           /\ Len(d.fragment) \in Nat /\ (d.fragment # <<>> <=> Len(d.fragment) > 0)
<1>1. d.schema \in Seq(Letters) /\ d.schema # <<>> /\ d.host \in Seq(Chars) /\ d.host # <<>>
  BY DEF WellFormed
<1>2. /\ d.userinfo \in Seq(Chars) /\ d.path \in Seq(Chars)
      /\ d.query \in Seq(Chars) /\ d.fragment \in Seq(Chars)
  <2>1. <<d.userinfo, d.path, d.query, d.fragment>> \in Seq(Seq(Chars))
    BY DEF WellFormed
  <2> QED BY <2>1
<1>3. SchemaEnd(d) \in Nat \ {0} /\ ServerBegin(d) = SchemaEnd(d) + 3
  BY <1>1 DEF SchemaEnd, ServerBegin
<1>4. /\ UserEnd(d) \in Nat /\ UserEnd(d) >= ServerBegin(d)
      /\ d.userinfo # <<>> <=> UserEnd(d) > ServerBegin(d)
  BY <1>2, <1>3 DEF UserEnd
<1>5. Bracket(d) \in {0, 1} /\ (Bracket(d) = 1 <=> d.literal)
  BY DEF Bracket
<1>6. /\ HostBegin(d) = UserEnd(d) + Bracket(d) /\ HostBegin(d) \in Nat
      /\ Len(d.host) \in Nat \ {0} /\ HostEnd(d) = HostBegin(d) + Len(d.host)
      /\ HostEnd(d) \in Nat /\ PortBegin(d) = HostEnd(d) + Bracket(d) /\ PortBegin(d) \in Nat
  BY <1>1, <1>4, <1>5 DEF HostBegin, HostEnd, PortBegin
<1>7. /\ ServerEnd(d) \in Nat
      /\ d.port = <<>> => ServerEnd(d) = PortBegin(d)
      /\ d.port # <<>> => ServerEnd(d) = PortBegin(d) + 2
  BY <1>6 DEF ServerEnd
<1>8. /\ PathEnd(d) = ServerEnd(d) + Len(d.path) /\ PathEnd(d) \in Nat
      /\ Len(d.path) \in Nat /\ (d.path # <<>> <=> Len(d.path) > 0)
  BY <1>2, <1>7 DEF PathEnd
<1>9. /\ QueryEnd(d) = PathEnd(d) + Len(d.query) /\ QueryEnd(d) \in Nat
      /\ Len(d.query) \in Nat /\ (d.query # <<>> <=> Len(d.query) > 0)
      /\ Len(d.fragment) \in Nat /\ (d.fragment # <<>> <=> Len(d.fragment) > 0)
  BY <1>2, <1>8 DEF QueryEnd
<1> QED BY <1>1, <1>3, <1>4, <1>5, <1>6, <1>7, <1>8, <1>9, Zenon

LEMMA PlaceOrder ==
    ASSUME NEW d, WellFormed(d)
    PROVE  /\ SchemaEnd(d) \in Nat \ {0} /\ ServerBegin(d) = SchemaEnd(d) + 3
           /\ UserEnd(d) \in Nat /\ UserEnd(d) >= ServerBegin(d)
           /\ HostBegin(d) \in Nat /\ HostBegin(d) >= UserEnd(d)
           /\ HostEnd(d) \in Nat /\ HostEnd(d) > HostBegin(d)
           /\ PortBegin(d) \in Nat /\ PortBegin(d) >= HostEnd(d)
           /\ ServerEnd(d) \in Nat /\ ServerEnd(d) >= PortBegin(d) /\ ServerEnd(d) > UserEnd(d)
           /\ PathEnd(d) \in Nat /\ PathEnd(d) >= ServerEnd(d)
           /\ QueryEnd(d) \in Nat /\ QueryEnd(d) >= PathEnd(d)
<1>1. /\ SchemaEnd(d) \in Nat \ {0} /\ ServerBegin(d) = SchemaEnd(d) + 3
      /\ UserEnd(d) \in Nat /\ UserEnd(d) >= ServerBegin(d)
  BY PlacesTyped
<1>2. /\ HostBegin(d) = UserEnd(d) + Bracket(d) /\ Bracket(d) \in {0, 1}
      /\ HostEnd(d) = HostBegin(d) + Len(d.host) /\ Len(d.host) \in Nat \ {0}
      /\ PortBegin(d) = HostEnd(d) + Bracket(d)
  BY PlacesTyped
<1>3. ServerEnd(d) = PortBegin(d) + 0 \/ ServerEnd(d) = PortBegin(d) + 2
  BY DEF ServerEnd
<1>4. /\ PathEnd(d) = ServerEnd(d) + Len(d.path) /\ Len(d.path) \in Nat
      /\ QueryEnd(d) = PathEnd(d) + Len(d.query) /\ Len(d.query) \in Nat
  BY PlacesTyped
<1>5. /\ HostBegin(d) \in Nat /\ HostBegin(d) >= UserEnd(d)
      /\ HostEnd(d) \in Nat /\ HostEnd(d) > HostBegin(d)
      /\ PortBegin(d) \in Nat /\ PortBegin(d) >= HostEnd(d)
  BY <1>1, <1>2
<1>6. ServerEnd(d) \in Nat /\ ServerEnd(d) >= PortBegin(d) /\ ServerEnd(d) > UserEnd(d)
  <2>1. PortBegin(d) > UserEnd(d)
    BY <1>1, <1>5
  <2> QED BY <1>1, <1>3, <1>5, <2>1
<1>7. PathEnd(d) \in Nat /\ PathEnd(d) >= ServerEnd(d)
  BY <1>4, <1>6
<1>8. QueryEnd(d) \in Nat /\ QueryEnd(d) >= PathEnd(d)
  BY <1>4, <1>7
<1> QED BY <1>1, <1>5, <1>6, <1>7, <1>8

(* The symbols behind each place.                                          *)
LiteralUpTo(d, url, mid) ==
    /\ mid \in HostBegin(d) + 1 .. HostEnd(d)
    /\ \A k \in HostBegin(d) + 1 .. mid : url[k] \in IsHex \cup {":", "."}
    /\ mid < HostEnd(d) => /\ url[mid + 1] = "%" /\ mid + 1 < HostEnd(d)
                           /\ \A k \in mid + 2 .. HostEnd(d) : url[k] \in IsZoneChar

Symbols(d, url) ==
    /\ \A k \in 1 .. SchemaEnd(d) : url[k] \in Letters
    /\ url[SchemaEnd(d) + 1] = ":" /\ url[SchemaEnd(d) + 2] = "/" /\ url[SchemaEnd(d) + 3] = "/"
    /\ \A k \in ServerBegin(d) + 1 .. UserEnd(d) - 1 : url[k] \in IsUserinfo
    /\ UserEnd(d) > ServerBegin(d) => url[UserEnd(d)] = "@"
    /\ Bracket(d) = 1 => /\ url[HostBegin(d)] = "[" /\ url[PortBegin(d)] = "]"
                         /\ \E mid : LiteralUpTo(d, url, mid)
    /\ Bracket(d) = 0 => \A k \in HostBegin(d) + 1 .. HostEnd(d) : url[k] \in IsHostChar
    /\ ServerEnd(d) > PortBegin(d) => /\ url[PortBegin(d) + 1] = ":"
                                      /\ url[ServerEnd(d)] \in Numbers
                                      /\ PortOf[url[ServerEnd(d)]] <= 65535
    /\ PathEnd(d) > ServerEnd(d) => url[ServerEnd(d) + 1] = "/"
    /\ \A k \in ServerEnd(d) + 2 .. PathEnd(d) : url[k] \in UrlChars
    /\ QueryEnd(d) > PathEnd(d) => url[PathEnd(d) + 1] = "?"
    /\ \A k \in PathEnd(d) + 2 .. QueryEnd(d) : url[k] \in UrlChars \cup {"?"}
    /\ Len(url) > QueryEnd(d) => url[QueryEnd(d) + 1] = "#" /\ QueryEnd(d) > ServerEnd(d)
    /\ \A k \in QueryEnd(d) + 2 .. Len(url) : url[k] \in UrlChars \cup {"?", "#"}

LEMMA LaidSymbols ==
    ASSUME NEW d, WellFormed(d), NEW url, Laid(d, url)
    PROVE  Symbols(d, url)
<1>1. /\ \A k \in 1 .. SchemaEnd(d) : url[k] \in Letters
      /\ url[SchemaEnd(d) + 1] = ":" /\ url[SchemaEnd(d) + 2] = "/" /\ url[SchemaEnd(d) + 3] = "/"
  <2>1. At(url, 0, d.schema) /\ d.schema \in Seq(Letters)
    BY DEF Laid, WellFormed
  <2>2. \A k \in 0 + 1 .. 0 + Len(d.schema) : url[k] \in Letters
    BY <2>1, AtAll
  <2>3. At(url, SchemaEnd(d), <<":", "/", "/">>)
    BY DEF Laid
  <2>4. url[SchemaEnd(d) + 1] = ":" /\ url[SchemaEnd(d) + 2] = "/" /\ url[SchemaEnd(d) + 3] = "/"
    BY <2>3 DEF At
  <2>5. SchemaEnd(d) = Len(d.schema) /\ 0 + Len(d.schema) = Len(d.schema) /\ 0 + 1 = 1
    BY <2>1 DEF SchemaEnd
  <2> QED BY <2>2, <2>4, <2>5
<1>2. /\ \A k \in ServerBegin(d) + 1 .. UserEnd(d) - 1 : url[k] \in IsUserinfo
      /\ UserEnd(d) > ServerBegin(d) => url[UserEnd(d)] = "@"
  <2>1. CASE d.userinfo = <<>>
    BY <2>1, PlacesTyped
  <2>2. CASE d.userinfo # <<>>
    <3>1. At(url, ServerBegin(d), d.userinfo)
      BY DEF Laid
    <3>2. Last(d.userinfo) = "@" /\ Front(d.userinfo) \in Seq(IsUserinfo)
      BY <2>2 DEF WellFormed
    <3>3. /\ url[ServerBegin(d) + Len(d.userinfo)] = Last(d.userinfo)
          /\ \A k \in ServerBegin(d) + 1 .. ServerBegin(d) + Len(d.userinfo) - 1 :
                url[k] \in IsUserinfo
      BY <3>1, <3>2, <2>2, AtLast
    <3>4. UserEnd(d) = ServerBegin(d) + Len(d.userinfo)
      BY DEF UserEnd
    <3>5. UserEnd(d) - 1 = ServerBegin(d) + Len(d.userinfo) - 1
      <4>1. ServerBegin(d) \in Nat /\ Len(d.userinfo) \in Nat
        BY <3>1, PlacesTyped DEF At
      <4> QED BY <3>4, <4>1
    <3> QED BY <3>2, <3>3, <3>4, <3>5
  <2> QED BY <2>1, <2>2
<1>3. Bracket(d) = 1 => /\ url[HostBegin(d)] = "[" /\ url[PortBegin(d)] = "]"
                       /\ \E mid : LiteralUpTo(d, url, mid)
  <2> HAVE Bracket(d) = 1
  <2>1. d.literal
    BY PlacesTyped
  <2>2. url[HostBegin(d)] = "[" /\ url[PortBegin(d)] = "]"
    BY <2>1 DEF Laid
  <2>3. IsLiteral(d.host)
    BY <2>1 DEF WellFormed
  <2>4. PICK j \in 1 .. Len(d.host) :
           /\ \A x \in 1 .. j : d.host[x] \in IsHex \cup {":", "."}
           /\ j < Len(d.host) => /\ d.host[j + 1] = "%" /\ j + 1 < Len(d.host)
                                 /\ \A x \in j + 2 .. Len(d.host) : d.host[x] \in IsZoneChar
    BY <2>3 DEF IsLiteral
  <2>5. At(url, HostBegin(d), d.host)
    BY DEF Laid
  <2>6. \A x \in 1 .. Len(d.host) : url[HostBegin(d) + x] = d.host[x]
    BY <2>5 DEF At
  <2>7. /\ HostBegin(d) \in Nat /\ Len(d.host) \in Nat
        /\ HostEnd(d) = HostBegin(d) + Len(d.host)
    BY PlacesTyped
  <2> DEFINE mid == HostBegin(d) + j
  <2>8. ASSUME NEW k \in HostBegin(d) + 1 .. HostEnd(d)
        PROVE  /\ k - HostBegin(d) \in 1 .. Len(d.host)
               /\ url[k] = d.host[k - HostBegin(d)]
    <3>1. k - HostBegin(d) \in 1 .. Len(d.host) /\ HostBegin(d) + (k - HostBegin(d)) = k
      BY <2>7
    <3> QED BY <3>1, <2>6
  <2>9. \A k \in HostBegin(d) + 1 .. mid : url[k] \in IsHex \cup {":", "."}
    <3> TAKE k \in HostBegin(d) + 1 .. mid
    <3>1. k \in HostBegin(d) + 1 .. HostEnd(d) /\ k - HostBegin(d) \in 1 .. j
      BY <2>7
    <3> QED BY <3>1, <2>4, <2>8
  <2>10. mid < HostEnd(d) => /\ url[mid + 1] = "%" /\ mid + 1 < HostEnd(d)
                          /\ \A k \in mid + 2 .. HostEnd(d) : url[k] \in IsZoneChar
    <3> HAVE mid < HostEnd(d)
    <3>1. j < Len(d.host)
      BY <2>7
    <3>2. mid + 1 = HostBegin(d) + (j + 1) /\ mid + 1 < HostEnd(d) /\ j + 1 \in 1 .. Len(d.host)
      BY <2>4, <2>7, <3>1
    <3>3. url[mid + 1] = "%"
      BY <2>4, <2>6, <3>1, <3>2
    <3>4. ASSUME NEW k \in mid + 2 .. HostEnd(d) PROVE url[k] \in IsZoneChar
      <4>1. k \in HostBegin(d) + 1 .. HostEnd(d) /\ k - HostBegin(d) \in j + 2 .. Len(d.host)
        BY <2>7
      <4> QED BY <4>1, <2>4, <2>8, <3>1
    <3> QED BY <3>2, <3>3, <3>4
  <2>11. mid \in HostBegin(d) + 1 .. HostEnd(d)
    BY <2>7
  <2> HIDE DEF mid
  <2>12. LiteralUpTo(d, url, mid)
    BY <2>9, <2>10, <2>11 DEF LiteralUpTo
  <2> QED BY <2>2, <2>12
<1>4. Bracket(d) = 0 => \A k \in HostBegin(d) + 1 .. HostEnd(d) : url[k] \in IsHostChar
  <2> HAVE Bracket(d) = 0
  <2>1. ~d.literal
    BY PlacesTyped
  <2>2. d.host \in Seq(IsHostChar)
    BY <2>1 DEF WellFormed
  <2>3. At(url, HostBegin(d), d.host)
    BY DEF Laid
  <2> QED BY <2>2, <2>3, AtAll DEF HostEnd
<1>5. ServerEnd(d) > PortBegin(d) => /\ url[PortBegin(d) + 1] = ":"
                                    /\ url[ServerEnd(d)] \in Numbers
                                    /\ PortOf[url[ServerEnd(d)]] <= 65535
  <2> HAVE ServerEnd(d) > PortBegin(d)
  <2>1. d.port # <<>>
    BY PlacesTyped
  <2>2. PICK st \in Numbers : d.port = <<st>> /\ PortOf[st] <= 65535
    BY <2>1 DEF WellFormed
  <2>3. url[PortBegin(d) + 1] = ":" /\ url[ServerEnd(d)] = d.port[1]
    BY <2>1 DEF Laid
  <2> QED BY <2>2, <2>3
<1>6. /\ PathEnd(d) > ServerEnd(d) => url[ServerEnd(d) + 1] = "/"
      /\ \A k \in ServerEnd(d) + 2 .. PathEnd(d) : url[k] \in UrlChars
  <2>1. CASE d.path = <<>>
    BY <2>1, PlacesTyped
  <2>2. CASE d.path # <<>>
    <3>1. At(url, ServerEnd(d), d.path)
      BY DEF Laid
    <3>2. Head(d.path) = "/" /\ Tail(d.path) \in Seq(UrlChars)
      BY <2>2 DEF WellFormed
    <3> QED BY <3>1, <3>2, <2>2, AtHead DEF PathEnd
  <2> QED BY <2>1, <2>2
<1>7. /\ QueryEnd(d) > PathEnd(d) => url[PathEnd(d) + 1] = "?"
      /\ \A k \in PathEnd(d) + 2 .. QueryEnd(d) : url[k] \in UrlChars \cup {"?"}
  <2>1. CASE d.query = <<>>
    BY <2>1, PlacesTyped
  <2>2. CASE d.query # <<>>
    <3>1. At(url, PathEnd(d), d.query)
      BY DEF Laid
    <3>2. Head(d.query) = "?" /\ Tail(d.query) \in Seq(UrlChars \cup {"?"})
      BY <2>2 DEF WellFormed
    <3> QED BY <3>1, <3>2, <2>2, AtHead DEF QueryEnd
  <2> QED BY <2>1, <2>2
<1>8. /\ Len(url) > QueryEnd(d) => url[QueryEnd(d) + 1] = "#" /\ QueryEnd(d) > ServerEnd(d)
      /\ \A k \in QueryEnd(d) + 2 .. Len(url) : url[k] \in UrlChars \cup {"?", "#"}
  <2>1. Len(url) = QueryEnd(d) + Len(d.fragment)
    BY DEF Laid
  <2>2. CASE d.fragment = <<>>
    BY <2>1, <2>2, PlacesTyped
  <2>3. CASE d.fragment # <<>>
    <3>1. At(url, QueryEnd(d), d.fragment)
      BY DEF Laid
    <3>2. /\ Head(d.fragment) = "#" /\ Tail(d.fragment) \in Seq(UrlChars \cup {"?", "#"})
          /\ d.path # <<>> \/ d.query # <<>>
      BY <2>3 DEF WellFormed
    <3>3. QueryEnd(d) > ServerEnd(d)
      BY <3>2, PlacesTyped
    <3> QED BY <3>1, <3>2, <3>3, <2>1, <2>3, AtHead
  <2> QED BY <2>2, <2>3
<1> QED BY <1>1, <1>2, <1>3, <1>4, <1>5, <1>6, <1>7, <1>8 DEF Symbols

---------------------------------------------------------------------------
(* The first pass over a well-formed URL.                                  *)

LEMMA SymbolSets ==
    /\ Letters \cap Delimiters = {} /\ Numbers \cap Delimiters = {}
    /\ IsHex \subseteq AlphaNum /\ AlphaNum \cap Delimiters = {}
    /\ Letters \subseteq IsUserinfo /\ IsHostChar \subseteq IsUserinfo
    /\ IsUserinfo \cap {"/", "@", "[", "]", "?", "#", " "} = {}
    /\ IsHostChar \cap {":", "/", "@", "[", "]", "?", "#", "%", " "} = {}
    /\ IsZoneChar \cap {":", "/", "@", "[", "]", "?", "#", " "} = {}
    /\ IsHex \cup {":", "."} \subseteq IsUserinfo /\ IsZoneChar \subseteq IsUserinfo
    /\ Numbers \subseteq IsUserinfo
    /\ UrlChars \cap {"#", "?", " "} = {}
BY UrlAssumption DEF AlphaNum, Delimiters, IsHex, IsUserinfo, IsHostChar, IsZoneChar, UrlChars

LEMMA SchemaMoves ==
    ASSUME NEW s, NEW c
    PROVE  /\ s \in {"s_req_spaces_before_url", "s_req_schema"} /\ c \in Letters
                => parse_url_char(s, c) = "s_req_schema"
           /\ s = "s_req_schema" /\ c = ":" => parse_url_char(s, c) = "s_req_schema_slash"
           /\ s = "s_req_schema_slash" /\ c = "/"
                => parse_url_char(s, c) = "s_req_schema_slash_slash"
           /\ s = "s_req_schema_slash_slash" /\ c = "/"
                => parse_url_char(s, c) = "s_req_server_start"
<1>1. c \in Letters => c \notin {" ", ":", "/", "*"}
  BY SymbolSets DEF Delimiters
<1> QED BY <1>1 DEF parse_url_char, InServer, InQuery, InFragment

LEMMA ServerMoves ==
    ASSUME NEW s \in InServer, NEW c
    PROVE  /\ c \in IsUserinfo \cup {"[", "]"} => parse_url_char(s, c) = "s_req_server"
           /\ c = "@" /\ s # "s_req_server_with_at"
                => parse_url_char(s, c) = "s_req_server_with_at"
           /\ c = "/" => parse_url_char(s, c) = "s_req_path"
           /\ c = "?" => parse_url_char(s, c) = "s_req_query_string_start"
<1>1. c \in IsUserinfo \cup {"[", "]"} => c \notin {" ", "/", "?", "@"}
  BY SymbolSets
<1>2. c # " " /\ ~(s = "s_req_server_with_at" /\ c = "@") => parse_url_char(s, c) = AfterServer(c)
  BY DEF parse_url_char, InServer, InQuery, InFragment
<1>3. /\ c \in IsUserinfo \cup {"[", "]"} => AfterServer(c) = "s_req_server"
      /\ c = "@" => AfterServer(c) = "s_req_server_with_at"
      /\ c = "/" => AfterServer(c) = "s_req_path"
      /\ c = "?" => AfterServer(c) = "s_req_query_string_start"
  BY <1>1, SymbolSets DEF AfterServer
<1> QED BY <1>1, <1>2, <1>3

LEMMA TailMoves ==
    ASSUME NEW s, NEW c
    PROVE  /\ s = "s_req_path" =>
                 /\ c \in UrlChars => parse_url_char(s, c) = "s_req_path"
                 /\ c = "?" => parse_url_char(s, c) = "s_req_query_string_start"
                 /\ c = "#" => parse_url_char(s, c) = "s_req_fragment_start"
           /\ s \in InQuery =>
                 /\ c \in UrlChars \cup {"?"} => parse_url_char(s, c) = "s_req_query_string"
                 /\ c = "#" => parse_url_char(s, c) = "s_req_fragment_start"
           /\ s \in InFragment /\ c \in UrlChars \cup {"?", "#"}
                => parse_url_char(s, c) \in InFragment
<1>1. c \in UrlChars => c \notin {"#", "?", " "}
  BY SymbolSets
<1>2. s = "s_req_path" /\ c # " " => parse_url_char(s, c) = AfterPath(c)
  BY DEF parse_url_char, InServer, InQuery, InFragment
<1>3. s \in InQuery /\ c # " " => parse_url_char(s, c) = AfterQuery(c)
  BY DEF parse_url_char, InServer, InQuery, InFragment
<1>4. s \in InFragment /\ c # " " => parse_url_char(s, c) = AfterFragment(s, c)
  BY DEF parse_url_char, InServer, InQuery, InFragment
<1>5. s = "s_req_path" =>
         /\ c \in UrlChars => AfterPath(c) = "s_req_path"
         /\ c = "?" => AfterPath(c) = "s_req_query_string_start"
         /\ c = "#" => AfterPath(c) = "s_req_fragment_start"
  BY <1>1 DEF AfterPath
<1>6. /\ c \in UrlChars \cup {"?"} => AfterQuery(c) = "s_req_query_string"
      /\ c = "#" => AfterQuery(c) = "s_req_fragment_start"
  BY <1>1 DEF AfterQuery
<1>7. s \in InFragment => AfterFragment(s, c) \in InFragment
  BY DEF AfterFragment, InFragment
<1> QED BY <1>1, <1>2, <1>3, <1>4, <1>5, <1>6, <1>7

(* The state behind each symbol.                                           *)
Staged(d, url, k, s) ==
    /\ k = 0 => s = "s_req_spaces_before_url"
    /\ k \in 1 .. SchemaEnd(d) => s = "s_req_schema"
    /\ k = SchemaEnd(d) + 1 => s = "s_req_schema_slash"
    /\ k = SchemaEnd(d) + 2 => s = "s_req_schema_slash_slash"
    /\ k = ServerBegin(d) => s = "s_req_server_start"
    /\ k \in ServerBegin(d) + 1 .. ServerEnd(d) =>
          s = IF k = UserEnd(d) THEN "s_req_server_with_at" ELSE "s_req_server"
    /\ k \in ServerEnd(d) + 1 .. PathEnd(d) => s = "s_req_path"
    /\ k \in PathEnd(d) + 1 .. QueryEnd(d) => s \in InQuery
    /\ k \in QueryEnd(d) + 1 .. Len(url) => s \in InFragment

(* What a symbol of the server part may be.                                *)
LEMMA ServerSymbols ==
    ASSUME NEW d, WellFormed(d), NEW url, Symbols(d, url),
           NEW k \in ServerBegin(d) + 1 .. ServerEnd(d)
    PROVE  /\ k = UserEnd(d) => url[k] = "@"
           /\ k # UserEnd(d) => url[k] \in IsUserinfo \cup {"[", "]"}
<1>1. CASE k \in ServerBegin(d) + 1 .. UserEnd(d) - 1
  <2>1. k # UserEnd(d)
    BY <1>1, PlacesTyped
  <2>2. url[k] \in IsUserinfo
    BY <1>1 DEF Symbols
  <2> QED BY <2>1, <2>2
<1>2. CASE k = UserEnd(d)
  <2>1. UserEnd(d) > ServerBegin(d)
    BY <1>2, PlacesTyped
  <2> QED BY <1>2, <2>1 DEF Symbols
<1>3. CASE k \in UserEnd(d) + 1 .. PortBegin(d) /\ Bracket(d) = 0
  <2>1. k \in HostBegin(d) + 1 .. HostEnd(d) /\ k # UserEnd(d)
    BY <1>3, PlacesTyped
  <2>2. url[k] \in IsHostChar
    BY <1>3, <2>1 DEF Symbols
  <2> QED BY <2>1, <2>2, SymbolSets
<1>4. CASE k \in UserEnd(d) + 1 .. PortBegin(d) /\ Bracket(d) = 1
  <2>1. k = HostBegin(d) \/ k = PortBegin(d) \/ k \in HostBegin(d) + 1 .. HostEnd(d)
    BY <1>4, PlacesTyped
  <2>2. k # UserEnd(d)
    BY <1>4, PlacesTyped
  <2>3. PICK mid : LiteralUpTo(d, url, mid)
    BY <1>4 DEF Symbols
  <2>4. ASSUME k \in HostBegin(d) + 1 .. HostEnd(d) PROVE url[k] \in IsUserinfo
    <3>1. mid \in Nat /\ HostBegin(d) \in Nat /\ HostEnd(d) \in Nat
      BY <2>3, PlacesTyped DEF LiteralUpTo
    <3>2. CASE k <= mid
      <4>1. k \in HostBegin(d) + 1 .. mid
        BY <2>4, <3>1, <3>2
      <4>2. url[k] \in IsHex \cup {":", "."}
        BY <2>3, <4>1 DEF LiteralUpTo
      <4> QED BY <4>2, SymbolSets
    <3>3. CASE k = mid + 1
      <4>1. mid < HostEnd(d)
        BY <2>4, <3>1, <3>3
      <4>2. url[k] = "%"
        BY <2>3, <3>3, <4>1 DEF LiteralUpTo
      <4> QED BY <4>2 DEF IsUserinfo
    <3>4. CASE k >= mid + 2
      <4>1. mid < HostEnd(d) /\ k \in mid + 2 .. HostEnd(d)
        BY <2>4, <3>1, <3>4
      <4> QED BY <2>3, <4>1, SymbolSets DEF LiteralUpTo
    <3> QED BY <2>4, <3>1, <3>2, <3>3, <3>4
  <2>5. url[HostBegin(d)] = "[" /\ url[PortBegin(d)] = "]"
    BY <1>4 DEF Symbols
  <2> QED BY <2>1, <2>2, <2>4, <2>5
<1>5. CASE k \in PortBegin(d) + 1 .. ServerEnd(d)
  <2>0. /\ PortBegin(d) \in Nat
        /\ ServerEnd(d) = PortBegin(d) \/ ServerEnd(d) = PortBegin(d) + 2
    BY PlacesTyped
  <2>1. ServerEnd(d) = PortBegin(d) + 2 /\ (k = PortBegin(d) + 1 \/ k = ServerEnd(d))
    BY <1>5, <2>0
  <2>2. ServerEnd(d) > PortBegin(d) /\ k # UserEnd(d)
    BY <1>5, <2>1, PlaceOrder
  <2>3. url[PortBegin(d) + 1] = ":" /\ url[ServerEnd(d)] \in Numbers
    BY <2>2 DEF Symbols
  <2>4. ":" \in IsUserinfo
    BY DEF IsUserinfo
  <2> QED BY <2>1, <2>2, <2>3, <2>4, SymbolSets
<1>6. \/ k \in ServerBegin(d) + 1 .. UserEnd(d) - 1 \/ k = UserEnd(d)
      \/ k \in UserEnd(d) + 1 .. PortBegin(d) \/ k \in PortBegin(d) + 1 .. ServerEnd(d)
  BY PlacesTyped
<1>7. Bracket(d) = 0 \/ Bracket(d) = 1
  BY PlacesTyped
<1> QED BY <1>1, <1>2, <1>3, <1>4, <1>5, <1>6, <1>7

LEMMA StageMoves ==
    ASSUME NEW d, WellFormed(d), NEW url \in Seq(Chars), Symbols(d, url),
           Len(url) >= QueryEnd(d),
           NEW k \in 0 .. Len(url) - 1, NEW s, Staged(d, url, k, s)
    PROVE  Staged(d, url, k + 1, parse_url_char(s, url[k + 1]))
<1> DEFINE c == url[k + 1]
           w == parse_url_char(s, c)
<1>0. /\ SchemaEnd(d) \in Nat \ {0} /\ ServerBegin(d) = SchemaEnd(d) + 3
      /\ UserEnd(d) \in Nat /\ UserEnd(d) >= ServerBegin(d)
      /\ ServerEnd(d) \in Nat /\ ServerEnd(d) > UserEnd(d)
      /\ PathEnd(d) \in Nat /\ PathEnd(d) >= ServerEnd(d)
      /\ QueryEnd(d) \in Nat /\ QueryEnd(d) >= PathEnd(d)
      /\ Len(url) \in Nat
  BY PlaceOrder
<1>1. CASE k + 1 \in 1 .. SchemaEnd(d)
  <2>1. k = 0 \/ k \in 1 .. SchemaEnd(d)
    BY <1>0, <1>1
  <2>2. s \in {"s_req_spaces_before_url", "s_req_schema"} /\ c \in Letters
    BY <1>1, <2>1 DEF Staged, Symbols
  <2>3. w = "s_req_schema"
    BY <2>2, SchemaMoves
  <2> QED BY <1>0, <1>1, <2>3 DEF Staged
<1>2. CASE k = SchemaEnd(d)
  <2>1. s = "s_req_schema" /\ c = ":"
    BY <1>0, <1>2 DEF Staged, Symbols
  <2>2. w = "s_req_schema_slash"
    BY <2>1, SchemaMoves
  <2> QED BY <1>0, <1>2, <2>2 DEF Staged
<1>3. CASE k = SchemaEnd(d) + 1
  <2>1. s = "s_req_schema_slash" /\ c = "/"
    <3>1. k + 1 = SchemaEnd(d) + 2
      BY <1>0, <1>3
    <3> QED BY <1>3, <3>1 DEF Staged, Symbols
  <2>2. w = "s_req_schema_slash_slash"
    BY <2>1, SchemaMoves
  <2> QED BY <1>0, <1>3, <2>2 DEF Staged
<1>4. CASE k = SchemaEnd(d) + 2
  <2>1. s = "s_req_schema_slash_slash" /\ c = "/"
    <3>1. k + 1 = SchemaEnd(d) + 3
      BY <1>0, <1>4
    <3> QED BY <1>4, <3>1 DEF Staged, Symbols
  <2>2. w = "s_req_server_start"
    BY <2>1, SchemaMoves
  <2> QED BY <1>0, <1>4, <2>2 DEF Staged
<1>5. CASE k + 1 \in ServerBegin(d) + 1 .. ServerEnd(d)
  <2>1. k = ServerBegin(d) \/ k \in ServerBegin(d) + 1 .. ServerEnd(d)
    BY <1>0, <1>5
  <2>2. s \in InServer /\ (s = "s_req_server_with_at" => k = UserEnd(d))
    BY <2>1 DEF Staged, InServer
  <2>3. /\ k + 1 = UserEnd(d) => c = "@"
        /\ k + 1 # UserEnd(d) => c \in IsUserinfo \cup {"[", "]"}
    BY <1>5, ServerSymbols
  <2>4. w = IF k + 1 = UserEnd(d) THEN "s_req_server_with_at" ELSE "s_req_server"
    <3>1. k = UserEnd(d) => k + 1 # UserEnd(d)
      BY <1>0
    <3> QED BY <2>2, <2>3, <3>1, ServerMoves
  <2> QED BY <1>0, <1>5, <2>4 DEF Staged
<1>6. CASE k + 1 \in ServerEnd(d) + 1 .. PathEnd(d)
  <2>1. w = "s_req_path"
    <3>1. k = ServerEnd(d) => w = "s_req_path"
      <4> HAVE k = ServerEnd(d)
      <4>1. s \in InServer
        BY <1>0 DEF Staged, InServer
      <4>2. c = "/"
        BY <1>0, <1>6 DEF Symbols
      <4> QED BY <4>1, <4>2, ServerMoves
    <3>2. k # ServerEnd(d) => w = "s_req_path"
      <4> HAVE k # ServerEnd(d)
      <4>1. k \in ServerEnd(d) + 1 .. PathEnd(d) /\ k + 1 \in ServerEnd(d) + 2 .. PathEnd(d)
        BY <1>0, <1>6
      <4>2. s = "s_req_path" /\ c \in UrlChars
        BY <4>1 DEF Staged, Symbols
      <4> QED BY <4>2, TailMoves
    <3> QED BY <3>1, <3>2
  <2> QED BY <1>0, <1>6, <2>1 DEF Staged
<1>7. CASE k + 1 \in PathEnd(d) + 1 .. QueryEnd(d)
  <2>1. w \in InQuery
    <3>1. k = PathEnd(d) => w \in InQuery
      <4> HAVE k = PathEnd(d)
      <4>1. s \in InServer \/ s = "s_req_path"
        BY <1>0 DEF Staged, InServer
      <4>2. c = "?"
        BY <1>0, <1>7 DEF Symbols
      <4> QED BY <4>1, <4>2, ServerMoves, TailMoves DEF InQuery
    <3>2. k # PathEnd(d) => w \in InQuery
      <4> HAVE k # PathEnd(d)
      <4>1. k \in PathEnd(d) + 1 .. QueryEnd(d) /\ k + 1 \in PathEnd(d) + 2 .. QueryEnd(d)
        BY <1>0, <1>7
      <4>2. s \in InQuery /\ c \in UrlChars \cup {"?"}
        BY <4>1 DEF Staged, Symbols
      <4> QED BY <4>2, TailMoves DEF InQuery
    <3> QED BY <3>1, <3>2
  <2> QED BY <1>0, <1>7, <2>1 DEF Staged
<1>8. CASE k + 1 \in QueryEnd(d) + 1 .. Len(url)
  <2>1. w \in InFragment
    <3>1. k = QueryEnd(d) => w \in InFragment
      <4> HAVE k = QueryEnd(d)
      <4>2. c = "#" /\ QueryEnd(d) > ServerEnd(d)
        BY <1>0, <1>8 DEF Symbols
      <4>1. s \in InQuery \/ s = "s_req_path"
        BY <1>0, <4>2 DEF Staged
      <4> QED BY <4>1, <4>2, TailMoves DEF InFragment
    <3>2. k # QueryEnd(d) => w \in InFragment
      <4> HAVE k # QueryEnd(d)
      <4>1. k \in QueryEnd(d) + 1 .. Len(url) /\ k + 1 \in QueryEnd(d) + 2 .. Len(url)
        BY <1>0, <1>8
      <4>2. s \in InFragment /\ c \in UrlChars \cup {"?", "#"}
        BY <4>1 DEF Staged, Symbols
      <4> QED BY <4>2, TailMoves
    <3> QED BY <3>1, <3>2
  <2> QED BY <1>0, <1>8, <2>1 DEF Staged
<1>9. \/ k + 1 \in 1 .. SchemaEnd(d) \/ k = SchemaEnd(d) \/ k = SchemaEnd(d) + 1
      \/ k = SchemaEnd(d) + 2 \/ k + 1 \in ServerBegin(d) + 1 .. ServerEnd(d)
      \/ k + 1 \in ServerEnd(d) + 1 .. PathEnd(d) \/ k + 1 \in PathEnd(d) + 1 .. QueryEnd(d)
      \/ k + 1 \in QueryEnd(d) + 1 .. Len(url)
  BY <1>0
<1> QED BY <1>1, <1>2, <1>3, <1>4, <1>5, <1>6, <1>7, <1>8, <1>9

LEMMA StageField ==
    ASSUME NEW d, WellFormed(d), NEW url \in Seq(Chars), Len(url) >= QueryEnd(d),
           NEW k \in 1 .. Len(url), NEW s, Staged(d, url, k, s)
    PROVE  /\ FieldOf(s) = "SCHEMA" <=> k \in 1 .. SchemaEnd(d)
           /\ FieldOf(s) = "HOST" <=> k \in ServerBegin(d) + 1 .. ServerEnd(d)
           /\ FieldOf(s) = "PATH" <=> k \in ServerEnd(d) + 1 .. PathEnd(d)
           /\ FieldOf(s) \notin {"PORT", "USERINFO"}
           /\ s = "s_req_server_with_at" <=> k = UserEnd(d) /\ UserEnd(d) > ServerBegin(d)
<1>0. /\ SchemaEnd(d) \in Nat \ {0} /\ ServerBegin(d) = SchemaEnd(d) + 3
      /\ UserEnd(d) \in Nat /\ UserEnd(d) >= ServerBegin(d)
      /\ ServerEnd(d) \in Nat /\ ServerEnd(d) > UserEnd(d)
      /\ PathEnd(d) \in Nat /\ PathEnd(d) >= ServerEnd(d)
      /\ QueryEnd(d) \in Nat /\ QueryEnd(d) >= PathEnd(d)
      /\ Len(url) \in Nat
  BY PlaceOrder
<1>1. CASE k \in 1 .. SchemaEnd(d)
  <2>1. s = "s_req_schema"
    BY <1>1 DEF Staged
  <2> QED BY <1>0, <1>1, <2>1 DEF FieldOf
<1>2. CASE k \in SchemaEnd(d) + 1 .. ServerBegin(d)
  <2>1. s \in {"s_req_schema_slash", "s_req_schema_slash_slash", "s_req_server_start"}
    BY <1>0, <1>2 DEF Staged
  <2> QED BY <1>0, <1>2, <2>1 DEF FieldOf
<1>3. CASE k \in ServerBegin(d) + 1 .. ServerEnd(d)
  <2>1. s = IF k = UserEnd(d) THEN "s_req_server_with_at" ELSE "s_req_server"
    BY <1>3 DEF Staged
  <2> QED BY <1>0, <1>3, <2>1 DEF FieldOf
<1>4. CASE k \in ServerEnd(d) + 1 .. PathEnd(d)
  <2>1. s = "s_req_path"
    BY <1>4 DEF Staged
  <2> QED BY <1>0, <1>4, <2>1 DEF FieldOf
<1>5. CASE k \in PathEnd(d) + 1 .. Len(url)
  <2>1. s \in InQuery \cup InFragment
    <3>1. k \in PathEnd(d) + 1 .. QueryEnd(d) \/ k \in QueryEnd(d) + 1 .. Len(url)
      BY <1>0, <1>5
    <3> QED BY <3>1 DEF Staged
  <2> QED BY <1>0, <1>5, <2>1 DEF FieldOf, InQuery, InFragment
<1>6. \/ k \in 1 .. SchemaEnd(d) \/ k \in SchemaEnd(d) + 1 .. ServerBegin(d)
      \/ k \in ServerBegin(d) + 1 .. ServerEnd(d) \/ k \in ServerEnd(d) + 1 .. PathEnd(d)
      \/ k \in PathEnd(d) + 1 .. Len(url)
  BY <1>0
<1> QED BY <1>1, <1>2, <1>3, <1>4, <1>5, <1>6

(* A field that covers a region, as far as it is read.                     *)
Cap(k, b) == IF k <= b THEN k ELSE b

LEMMA SpanMoves ==
    ASSUME NEW o \in Nat \ {0}, NEW b \in Nat, NEW k \in Nat, o <= b + 1
    PROVE  Span(o, Cap(k + 1, b)) = IF k + 1 \in o .. b THEN Extend(Span(o, Cap(k, b)), k + 1)
                                    ELSE Span(o, Cap(k, b))
<1>1. CASE k + 1 \in o .. b
  <2>1. Cap(k + 1, b) = k + 1 /\ Cap(k, b) = k /\ o <= k + 1
    BY <1>1 DEF Cap
  <2> QED BY <1>1, <2>1, SpanGrows
<1>2. CASE k + 1 < o
  <2>1. Cap(k + 1, b) = k + 1 /\ Cap(k, b) = k
    BY <1>2 DEF Cap
  <2> QED BY <1>2, <2>1 DEF Span
<1>3. CASE k + 1 > b
  <2>1. Cap(k + 1, b) = b /\ Cap(k, b) = b
    BY <1>3 DEF Cap
  <2> QED BY <1>3, <2>1
<1> QED BY <1>1, <1>2, <1>3

(* What the first pass has found behind each symbol.                       *)
Found(d, url, k, u) ==
    /\ Staged(d, url, k, u.state)
    /\ u.found_at <=> UserEnd(d) > ServerBegin(d) /\ k >= UserEnd(d)
    /\ u.data["SCHEMA"] = Span(1, Cap(k, SchemaEnd(d)))
    /\ u.data["HOST"] = Span(ServerBegin(d) + 1, Cap(k, ServerEnd(d)))
    /\ u.data["PATH"] = Span(ServerEnd(d) + 1, Cap(k, PathEnd(d)))
    /\ u.data["PORT"] = NoField /\ u.data["USERINFO"] = NoField

LEMMA FirstPassMoves ==
    ASSUME NEW d, WellFormed(d), NEW url \in Seq(Chars), Symbols(d, url),
           Len(url) >= QueryEnd(d), NEW k \in 0 .. Len(url) - 1, NEW u, NEW w,
           Found(d, url, k, u), Moved(u, url[k + 1], k + 1, w)
    PROVE  Found(d, url, k + 1, w)
<1>0. /\ SchemaEnd(d) \in Nat \ {0} /\ ServerBegin(d) \in Nat
      /\ UserEnd(d) \in Nat /\ UserEnd(d) >= ServerBegin(d)
      /\ ServerEnd(d) \in Nat /\ ServerBegin(d) <= ServerEnd(d)
      /\ PathEnd(d) \in Nat /\ ServerEnd(d) <= PathEnd(d)
      /\ k \in Nat /\ k + 1 \in 1 .. Len(url)
  BY PlaceOrder
<1>1. Staged(d, url, k + 1, w.state)
  BY StageMoves DEF Found, Moved
<1>2. /\ FieldOf(w.state) = "SCHEMA" <=> k + 1 \in 1 .. SchemaEnd(d)
      /\ FieldOf(w.state) = "HOST" <=> k + 1 \in ServerBegin(d) + 1 .. ServerEnd(d)
      /\ FieldOf(w.state) = "PATH" <=> k + 1 \in ServerEnd(d) + 1 .. PathEnd(d)
      /\ FieldOf(w.state) \notin {"PORT", "USERINFO"}
      /\ w.state = "s_req_server_with_at"
            <=> k + 1 = UserEnd(d) /\ UserEnd(d) > ServerBegin(d)
  BY <1>0, <1>1, StageField
<1>3. \A f \in Fields : w.data[f] =
          IF f = FieldOf(w.state) THEN Extend(u.data[f], k + 1) ELSE u.data[f]
  BY DEF Moved
<1>4. w.data["SCHEMA"] = Span(1, Cap(k + 1, SchemaEnd(d)))
  <2>1. u.data["SCHEMA"] = Span(1, Cap(k, SchemaEnd(d)))
    BY DEF Found
  <2>0. 1 \in Nat \ {0} /\ 1 <= SchemaEnd(d) + 1
    BY <1>0
  <2>2. Span(1, Cap(k + 1, SchemaEnd(d))) = IF k + 1 \in 1 .. SchemaEnd(d)
                                            THEN Extend(u.data["SCHEMA"], k + 1)
                                            ELSE u.data["SCHEMA"]
    BY <1>0, <2>0, <2>1, SpanMoves
  <2> QED BY <1>2, <1>3, <2>2 DEF Fields
<1>5. w.data["HOST"] = Span(ServerBegin(d) + 1, Cap(k + 1, ServerEnd(d)))
  <2>1. u.data["HOST"] = Span(ServerBegin(d) + 1, Cap(k, ServerEnd(d)))
    BY DEF Found
  <2>0. ServerBegin(d) + 1 \in Nat \ {0} /\ ServerBegin(d) + 1 <= ServerEnd(d) + 1
    BY <1>0
  <2>2. Span(ServerBegin(d) + 1, Cap(k + 1, ServerEnd(d)))
          = IF k + 1 \in ServerBegin(d) + 1 .. ServerEnd(d)
            THEN Extend(u.data["HOST"], k + 1) ELSE u.data["HOST"]
    BY <1>0, <2>0, <2>1, SpanMoves
  <2> QED BY <1>2, <1>3, <2>2 DEF Fields
<1>6. w.data["PATH"] = Span(ServerEnd(d) + 1, Cap(k + 1, PathEnd(d)))
  <2>1. u.data["PATH"] = Span(ServerEnd(d) + 1, Cap(k, PathEnd(d)))
    BY DEF Found
  <2>0. ServerEnd(d) + 1 \in Nat \ {0} /\ ServerEnd(d) + 1 <= PathEnd(d) + 1
    BY <1>0
  <2>2. Span(ServerEnd(d) + 1, Cap(k + 1, PathEnd(d)))
          = IF k + 1 \in ServerEnd(d) + 1 .. PathEnd(d)
            THEN Extend(u.data["PATH"], k + 1) ELSE u.data["PATH"]
    BY <1>0, <2>0, <2>1, SpanMoves
  <2> QED BY <1>2, <1>3, <2>2 DEF Fields
<1>7. w.data["PORT"] = NoField /\ w.data["USERINFO"] = NoField
  BY <1>2, <1>3 DEF Fields, Found
<1>8. w.found_at <=> UserEnd(d) > ServerBegin(d) /\ k + 1 >= UserEnd(d)
  <2>1. w.found_at <=> u.found_at \/ w.state = "s_req_server_with_at"
    BY DEF Moved
  <2>2. u.found_at <=> UserEnd(d) > ServerBegin(d) /\ k >= UserEnd(d)
    BY DEF Found
  <2>3. k + 1 >= UserEnd(d) <=> k >= UserEnd(d) \/ k + 1 = UserEnd(d)
    BY <1>0
  <2> QED BY <1>2, <2>1, <2>2, <2>3, Zenon
<1> QED BY <1>1, <1>4, <1>5, <1>6, <1>7, <1>8 DEF Found

LEMMA FirstPass ==
    ASSUME NEW d, WellFormed(d), NEW url, Laid(d, url)
    PROVE  Found(d, url, Len(url), ScanUrl(url))
<1> DEFINE S == {k \in Nat : k <= Len(url) => Found(d, url, k, UrlScan(url)[k])}
<1>0. /\ url \in Seq(Chars) /\ Len(url) \in Nat /\ Len(url) >= QueryEnd(d)
      /\ Symbols(d, url)
  <2>1. url \in Seq(Chars) /\ Len(url) = QueryEnd(d) + Len(d.fragment)
    BY DEF Laid
  <2>2. QueryEnd(d) \in Nat /\ Len(d.fragment) \in Nat
    BY PlacesTyped
  <2> QED BY <2>1, <2>2, LaidSymbols
<1>1. 0 \in S
  <2>1. UrlScan(url)[0] = UrlStart
    BY <1>0, UrlScanMoves
  <2>2. /\ SchemaEnd(d) \in Nat \ {0} /\ ServerBegin(d) = SchemaEnd(d) + 3
        /\ UserEnd(d) \in Nat /\ UserEnd(d) >= ServerBegin(d)
        /\ ServerEnd(d) \in Nat /\ ServerEnd(d) > UserEnd(d)
        /\ PathEnd(d) \in Nat /\ PathEnd(d) >= ServerEnd(d)
        /\ QueryEnd(d) \in Nat /\ QueryEnd(d) >= PathEnd(d)
    BY PlaceOrder
  <2>3. UrlStart.state = "s_req_spaces_before_url" /\ ~UrlStart.found_at
    BY DEF UrlStart
  <2>4. \A f \in Fields : UrlStart.data[f] = NoField
    BY DEF UrlStart
  <2>5. \A b \in Nat : Cap(0, b) = 0
    BY DEF Cap
  <2>6. \A a \in Nat : Span(a + 1, 0) = NoField
    BY DEF Span
  <2>7. Staged(d, url, 0, UrlStart.state)
    BY <2>2, <2>3, <1>0 DEF Staged
  <2>8. Found(d, url, 0, UrlStart)
    <3>1. Span(1, 0) = NoField
      BY DEF Span
    <3>2. Span(ServerBegin(d) + 1, 0) = NoField /\ Span(ServerEnd(d) + 1, 0) = NoField
      BY <2>2, <2>6
    <3>3. ~(0 >= UserEnd(d))
      BY <2>2
    <3>4. /\ Cap(0, SchemaEnd(d)) = 0 /\ Cap(0, ServerEnd(d)) = 0 /\ Cap(0, PathEnd(d)) = 0
      BY <2>2, <2>5
    <3>5. {"SCHEMA", "HOST", "PATH", "PORT", "USERINFO"} \subseteq Fields
      BY DEF Fields
    <3> QED BY <2>3, <2>4, <2>7, <3>1, <3>2, <3>3, <3>4, <3>5 DEF Found
  <2> QED BY <2>1, <2>8
<1>2. ASSUME NEW k \in 0 .. Len(url) - 1, k \in S PROVE k + 1 \in S
  <2>1. k + 1 \in 1 .. Len(url) /\ k + 1 \in Nat /\ (k + 1) - 1 = k /\ k <= Len(url)
    BY <1>0
  <2>2. Moved(UrlScan(url)[k], url[k + 1], k + 1, UrlScan(url)[k + 1])
    BY <1>0, <2>1, UrlScanMoves
  <2>3. Found(d, url, k, UrlScan(url)[k])
    BY <1>2, <2>1
  <2>4. Found(d, url, k + 1, UrlScan(url)[k + 1])
    BY <1>0, <2>2, <2>3, FirstPassMoves
  <2> QED BY <2>1, <2>4
<1>3. Len(url) \in S
  <2> HIDE DEF S
  <2>1. 0 .. Len(url) \subseteq S
    BY <1>0, <1>1, <1>2, Upwards
  <2> QED BY <1>0, <2>1
<1>4. Found(d, url, Len(url), UrlScan(url)[Len(url)])
  BY <1>0, <1>3
<1> QED BY <1>4 DEF ScanUrl

---------------------------------------------------------------------------
(* The second pass over the host of a well-formed URL.                     *)

(* The second pass has found something after each symbol of the host.      *)
LEMMA HostScanStep ==
    ASSUME NEW url, NEW u, u.data["HOST"].len \in Nat
    PROVE  /\ HostScan(url, u)[0] = HostStart(u)
           /\ \A k \in 1 .. u.data["HOST"].len :
                HostScan(url, u)[k] = HostStep(HostScan(url, u)[k - 1],
                         url[u.data["HOST"].off + k - 1], u.data["HOST"].off + k - 1)
<1> DEFINE Do(h, k) == HostStep(h, url[u.data["HOST"].off + k - 1], u.data["HOST"].off + k - 1)
           Loop(f, st) == f = [k \in 0 .. st |->
                            IF k = 0 THEN HostStart(u) ELSE Do(f[k - 1], k)]
           S == {st \in Nat : \E f : Loop(f, st)}
           N == u.data["HOST"].len
<1>1. 0 \in S
  <2> DEFINE f == [k \in 0 .. 0 |-> HostStart(u)]
  <2>1. Loop(f, 0)
    OBVIOUS
  <2> QED BY <2>1
<1>2. ASSUME NEW st \in Nat, st \in S PROVE st + 1 \in S
  <2>1. PICK f : Loop(f, st)
    BY <1>2
  <2> DEFINE g == [k \in 0 .. st + 1 |->
                     IF k \in 0 .. st THEN f[k] ELSE Do(f[st], k)]
  <2>2. \A k \in 0 .. st : g[k] = f[k]
    OBVIOUS
  <2>3. \A k \in 0 .. st + 1 :
           g[k] = IF k = 0 THEN HostStart(u) ELSE Do(g[k - 1], k)
    <3> SUFFICES ASSUME NEW k \in 0 .. st + 1
                 PROVE  g[k] = IF k = 0 THEN HostStart(u) ELSE Do(g[k - 1], k)
      OBVIOUS
    <3>1. CASE k = st + 1
      <4>1. ~(k \in 0 .. st) /\ k # 0 /\ k - 1 = st /\ g[st] = f[st]
        BY <3>1, <2>2
      <4> QED BY <4>1
    <3>2. CASE k \in 1 .. st
      <4>1. k - 1 \in 0 .. st /\ k \in 0 .. st /\ k # 0
        BY <3>2
      <4>2. g[k] = f[k] /\ g[k - 1] = f[k - 1]
        BY <4>1, <2>2
      <4>3. f[k] = Do(f[k - 1], k)
        BY <2>1, <4>1, Zenon
      <4> QED BY <4>1, <4>2, <4>3
    <3>3. CASE k = 0
      BY <3>3, <2>1, <2>2
    <3> QED BY <3>1, <3>2, <3>3
  <2>4. Loop(g, st + 1)
    <3> HIDE DEF g
    <3>1. g = [k \in 0 .. st + 1 |-> g[k]]
      BY DEF g
    <3> QED BY <3>1, <2>3
  <2>5. \E h : Loop(h, st + 1)
    BY <2>4
  <2> HIDE DEF Loop
  <2> QED BY <2>5
<1>3. N \in S
  <2> HIDE DEF S
  <2>1. 0 .. N \subseteq S
    BY <1>1, <1>2, Upwards
  <2> QED BY <2>1
<1>4. PICK f : Loop(f, N)
  BY <1>3
<1>5. Loop(HostScan(url, u), N)
  <2>1. HostScan(url, u) = CHOOSE f2 : Loop(f2, N)
    BY DEF HostScan
  <2> HIDE DEF Loop
  <2> QED BY <2>1, <1>4
<1> DEFINE after == HostScan(url, u)
<1>6. after = [k \in 0 .. N |-> IF k = 0 THEN HostStart(u) ELSE Do(after[k - 1], k)]
  BY <1>5
<1> HIDE DEF after
<1>7. after[0] = HostStart(u) /\ \A k \in 1 .. N : after[k] = Do(after[k - 1], k)
  <2>1. 0 \in 0 .. N /\ \A k \in 1 .. N : k \in 0 .. N /\ k # 0
    OBVIOUS
  <2> QED BY <1>6, <2>1, Zenon
<1> QED BY <1>7 DEF after


HostMoved(h, c, k, w) ==
    /\ w.state = http_parse_host_char(h.state, c)
    /\ \A f \in Fields : w.data[f] =
          IF f = HostFieldOf(w.state) THEN Extend(h.data[f], k) ELSE h.data[f]

LEMMA HostStepMoves ==
    ASSUME NEW h, h.data \in [Fields -> FieldData], NEW c, NEW k \in Nat
    PROVE  /\ HostMoved(h, c, k, HostStep(h, c, k))
           /\ HostStep(h, c, k).data \in [Fields -> FieldData]
<1> DEFINE s == http_parse_host_char(h.state, c)
           f == HostFieldOf(s)
           D == IF f = "none" THEN h.data ELSE [h.data EXCEPT ![f] = Extend(@, k)]
<1>1. HostStep(h, c, k) = [state |-> s, data |-> D]
  BY DEF HostStep
<1>2. f = "none" \/ f \in Fields
  BY DEF HostFieldOf, Fields
<1>3. "none" \notin Fields
  BY DEF Fields
<1>4. \A g \in Fields : Extend(h.data[g], k) \in FieldData
  BY DEF FieldData, Extend
<1>5. D \in [Fields -> FieldData]
  BY <1>2, <1>4
<1>6. \A g \in Fields : D[g] = IF g = f THEN Extend(h.data[g], k) ELSE h.data[g]
  BY <1>2, <1>3
<1> HIDE DEF D, f, s
<1>7. HostStep(h, c, k).state = s /\ HostStep(h, c, k).data = D
  BY <1>1
<1> QED BY <1>5, <1>6, <1>7 DEF HostMoved, s, f

LEMMA HostScanMoves ==
    ASSUME NEW url, NEW u, u.data \in [Fields -> FieldData],
           NEW b \in Nat, NEW e \in Nat, b < e, u.data["HOST"] = Span(b + 1, e)
    PROVE  /\ HostScan(url, u)[0] = HostStart(u)
           /\ \A j \in 0 .. e - b - 1 : HostMoved(HostScan(url, u)[j], url[b + j + 1], b + j + 1,
                                                 HostScan(url, u)[j + 1])
           /\ ParseHost(url, u) = HostScan(url, u)[e - b]
<1> DEFINE after == HostScan(url, u)
           st == e - b
           S == {j \in Nat : j <= st => after[j].data \in [Fields -> FieldData]}
<1>0. u.data["HOST"].off = b + 1 /\ u.data["HOST"].len = st /\ st \in Nat
  BY DEF Span
<1>1. /\ after[0] = HostStart(u)
      /\ \A j \in 0 .. st - 1 : after[j + 1] = HostStep(after[j], url[b + j + 1], b + j + 1)
  <2> HIDE DEF after, st
  <2>1. /\ after[0] = HostStart(u)
        /\ \A k \in 1 .. st :
              after[k] = HostStep(after[k - 1], url[(b + 1) + k - 1], (b + 1) + k - 1)
    BY <1>0, HostScanStep DEF after
  <2>2. ASSUME NEW j \in 0 .. st - 1
        PROVE  after[j + 1] = HostStep(after[j], url[b + j + 1], b + j + 1)
    <3>1. j + 1 \in 1 .. st /\ (j + 1) - 1 = j /\ (b + 1) + (j + 1) - 1 = b + j + 1
      BY <1>0
    <3> QED BY <2>1, <3>1
  <2> QED BY <2>1, <2>2
<1> HIDE DEF after, st
<1>2. 0 \in S
  <2>1. HostStart(u).data \in [Fields -> FieldData]
    BY DEF HostStart, NoField, FieldData
  <2> QED BY <1>1, <2>1
<1>3. ASSUME NEW j \in 0 .. st - 1, j \in S PROVE j + 1 \in S
  <2>1. j + 1 \in Nat /\ j <= st /\ b + j + 1 \in Nat
    BY <1>0
  <2>2. after[j].data \in [Fields -> FieldData]
    BY <1>3, <2>1
  <2>3. after[j + 1] = HostStep(after[j], url[b + j + 1], b + j + 1)
    BY <1>1
  <2> QED BY <2>1, <2>2, <2>3, HostStepMoves
<1>4. 0 .. st \subseteq S
  <2> HIDE DEF S
  <2> QED BY <1>0, <1>2, <1>3, Upwards
<1>5. ASSUME NEW j \in 0 .. st - 1
      PROVE  HostMoved(after[j], url[b + j + 1], b + j + 1, after[j + 1])
  <2>1. j \in 0 .. st /\ j <= st /\ b + j + 1 \in Nat
    BY <1>0
  <2>2. after[j].data \in [Fields -> FieldData]
    BY <1>4, <2>1
  <2> QED BY <1>1, <2>1, <2>2, HostStepMoves
<1>6. ParseHost(url, u) = after[st]
  BY <1>0 DEF ParseHost, after
<1> QED BY <1>1, <1>5, <1>6 DEF after, st

LEMMA HostCharMoves ==
    ASSUME NEW s, NEW c
    PROVE  /\ s \in {"userinfo_start", "userinfo"} =>
                 /\ c \in IsUserinfo => http_parse_host_char(s, c) = "userinfo"
                 /\ c = "@" => http_parse_host_char(s, c) = "host_start"
           /\ s = "host_start" /\ c = "[" => http_parse_host_char(s, c) = "v6_start"
           /\ s \in {"host_start", "host"} /\ c \in IsHostChar
                => http_parse_host_char(s, c) = "host"
           /\ s \in {"host", "v6_end"} /\ c = ":" => http_parse_host_char(s, c) = "port_start"
           /\ s = "port_start" /\ c \in Numbers => http_parse_host_char(s, c) = "port"
<1>1. /\ c \in IsUserinfo => c # "@"
      /\ c \in IsHostChar => c \notin {":", "[", "@"}
      /\ c \in Numbers => c # "@" /\ c # ":"
  BY SymbolSets DEF Delimiters
<1>2. s \in {"userinfo_start", "userinfo"} =>
          /\ c \in IsUserinfo => http_parse_host_char(s, c) = "userinfo"
          /\ c = "@" => http_parse_host_char(s, c) = "host_start"
  BY <1>1 DEF http_parse_host_char
<1>3. /\ s = "host_start" /\ c = "[" => http_parse_host_char(s, c) = "v6_start"
      /\ s \in {"host_start", "host"} /\ c \in IsHostChar => http_parse_host_char(s, c) = "host"
  BY <1>1, SymbolSets DEF http_parse_host_char
<1>4. /\ s \in {"host", "v6_end"} /\ c = ":" => http_parse_host_char(s, c) = "port_start"
      /\ s = "port_start" /\ c \in Numbers => http_parse_host_char(s, c) = "port"
  BY <1>1, SymbolSets DEF http_parse_host_char
<1> QED BY <1>2, <1>3, <1>4

LEMMA LiteralMoves ==
    ASSUME NEW s, NEW c
    PROVE  /\ s \in {"v6_start", "v6"} /\ c \in IsHex \cup {":", "."}
                => http_parse_host_char(s, c) = "v6"
           /\ s = "v6" /\ c = "%" => http_parse_host_char(s, c) = "zone_start"
           /\ s \in {"zone_start", "zone"} /\ c \in IsZoneChar
                => http_parse_host_char(s, c) = "zone"
           /\ s \in {"v6", "zone"} /\ c = "]" => http_parse_host_char(s, c) = "v6_end"
<1>1. /\ c \in IsHex \cup {":", "."} => c \notin {"]", "%"}
      /\ c \in IsZoneChar => c # "]"
  BY SymbolSets DEF Delimiters
<1>2. "]" \notin IsHex \cup {":", "."} /\ "%" \notin IsHex \cup {":", "."}
  BY SymbolSets DEF Delimiters
<1>3. /\ s \in {"v6_start", "v6"} /\ c \in IsHex \cup {":", "."}
           => http_parse_host_char(s, c) = "v6"
      /\ s = "v6" /\ c = "%" => http_parse_host_char(s, c) = "zone_start"
  BY <1>1, <1>2 DEF http_parse_host_char
<1>4. /\ s \in {"zone_start", "zone"} /\ c \in IsZoneChar => http_parse_host_char(s, c) = "zone"
      /\ s \in {"v6", "zone"} /\ c = "]" => http_parse_host_char(s, c) = "v6_end"
  BY <1>1, <1>2 DEF http_parse_host_char
<1> QED BY <1>3, <1>4

(* The state behind place p; the address of a literal ends at mid.         *)
HostStaged(d, mid, p, s) ==
    /\ p = UserEnd(d) => s = "host_start"
    /\ p \in ServerBegin(d) .. UserEnd(d) - 1 =>
          s = IF p = ServerBegin(d) THEN "userinfo_start" ELSE "userinfo"
    /\ Bracket(d) = 1 =>
          /\ p = HostBegin(d) => s = "v6_start"
          /\ p \in HostBegin(d) + 1 .. HostEnd(d) =>
                s = IF p <= mid THEN "v6" ELSE IF p = mid + 1 THEN "zone_start" ELSE "zone"
          /\ p = PortBegin(d) => s = "v6_end"
    /\ Bracket(d) = 0 /\ p \in HostBegin(d) + 1 .. HostEnd(d) => s = "host"
    /\ p \in PortBegin(d) + 1 .. ServerEnd(d) =>
          s = IF p = ServerEnd(d) THEN "port" ELSE "port_start"

LEMMA HostStageMoves ==
    ASSUME NEW d, WellFormed(d), NEW url \in Seq(Chars), Symbols(d, url),
           NEW mid, Bracket(d) = 1 => LiteralUpTo(d, url, mid),
           NEW p \in ServerBegin(d) .. ServerEnd(d) - 1, NEW s, HostStaged(d, mid, p, s)
    PROVE  HostStaged(d, mid, p + 1, http_parse_host_char(s, url[p + 1]))
<1> DEFINE c == url[p + 1]
           w == http_parse_host_char(s, c)
<1>0. /\ ServerBegin(d) \in Nat
      /\ UserEnd(d) \in Nat /\ UserEnd(d) >= ServerBegin(d)
      /\ HostBegin(d) \in Nat /\ HostBegin(d) = UserEnd(d) + Bracket(d)
      /\ HostEnd(d) \in Nat /\ HostEnd(d) > HostBegin(d)
      /\ PortBegin(d) \in Nat /\ PortBegin(d) = HostEnd(d) + Bracket(d)
      /\ ServerEnd(d) \in Nat /\ ServerEnd(d) >= PortBegin(d)
      /\ p \in Nat /\ Bracket(d) \in {0, 1}
  BY PlacesTyped, PlaceOrder
<1>1. CASE p + 1 \in ServerBegin(d) + 1 .. UserEnd(d)
  <2>1. p \in ServerBegin(d) .. UserEnd(d) - 1 /\ UserEnd(d) > ServerBegin(d)
    BY <1>0, <1>1
  <2>2. s \in {"userinfo_start", "userinfo"}
    BY <2>1 DEF HostStaged
  <2>3. IF p + 1 = UserEnd(d) THEN c = "@" ELSE c \in IsUserinfo
    <3>1. p + 1 # UserEnd(d) => p + 1 \in ServerBegin(d) + 1 .. UserEnd(d) - 1
      BY <1>0, <1>1
    <3> QED BY <2>1, <3>1 DEF Symbols
  <2>4. w = IF p + 1 = UserEnd(d) THEN "host_start" ELSE "userinfo"
    BY <2>2, <2>3, HostCharMoves
  <2>5. p + 1 # ServerBegin(d) /\ p + 1 <= UserEnd(d)
    BY <1>0, <1>1
  <2>6. /\ Bracket(d) = 1 => p + 1 # HostBegin(d)
        /\ p + 1 \notin HostBegin(d) + 1 .. HostEnd(d)
        /\ Bracket(d) = 1 => p + 1 # PortBegin(d)
        /\ p + 1 \notin PortBegin(d) + 1 .. ServerEnd(d)
    BY <1>0, <2>5
  <2> QED BY <2>4, <2>5, <2>6 DEF HostStaged
<1>2. CASE Bracket(d) = 1 /\ p + 1 \in UserEnd(d) + 1 .. PortBegin(d)
  <2>1. LiteralUpTo(d, url, mid)
    BY <1>2
  <2>2. mid \in HostBegin(d) + 1 .. HostEnd(d) /\ mid \in Nat
    BY <2>1, <1>0 DEF LiteralUpTo
  <2>3. /\ p + 1 # UserEnd(d) /\ p + 1 \notin ServerBegin(d) .. UserEnd(d) - 1
        /\ p + 1 \notin PortBegin(d) + 1 .. ServerEnd(d)
    BY <1>0, <1>2
  <2>4. CASE p + 1 = HostBegin(d)
    <3>1. p = UserEnd(d)
      BY <1>0, <1>2, <2>4
    <3>2. s = "host_start" /\ c = "["
      BY <1>2, <2>4, <3>1 DEF HostStaged, Symbols
    <3>3. w = "v6_start"
      BY <3>2, HostCharMoves
    <3>4. p + 1 \notin HostBegin(d) + 1 .. HostEnd(d) /\ p + 1 # PortBegin(d)
      BY <1>0, <2>4
    <3> QED BY <1>2, <2>3, <2>4, <3>3, <3>4 DEF HostStaged
  <2>5. CASE p + 1 \in HostBegin(d) + 1 .. HostEnd(d)
    <3>1. p + 1 # HostBegin(d) /\ p + 1 # PortBegin(d)
      BY <1>0, <1>2, <2>5
    <3>2. w = IF p + 1 <= mid THEN "v6" ELSE IF p + 1 = mid + 1 THEN "zone_start" ELSE "zone"
      <4>1. CASE p + 1 <= mid
        <5>1. c \in IsHex \cup {":", "."}
          <6>1. p + 1 \in HostBegin(d) + 1 .. mid
            BY <1>0, <2>2, <2>5, <4>1
          <6> QED BY <2>1, <6>1 DEF LiteralUpTo
        <5>2. s \in {"v6_start", "v6"}
          <6>1. p = HostBegin(d) \/ (p \in HostBegin(d) + 1 .. HostEnd(d) /\ p <= mid)
            BY <1>0, <2>2, <2>5, <4>1
          <6> QED BY <1>2, <6>1 DEF HostStaged
        <5> QED BY <4>1, <5>1, <5>2, LiteralMoves
      <4>2. CASE p + 1 = mid + 1
        <5>1. /\ p = mid /\ p \in HostBegin(d) + 1 .. HostEnd(d) /\ mid < HostEnd(d)
              /\ p <= mid /\ ~(p + 1 <= mid)
          BY <1>0, <2>2, <2>5, <4>2
        <5>2. s = "v6" /\ c = "%"
          BY <1>2, <2>1, <5>1 DEF HostStaged, LiteralUpTo
        <5> QED BY <4>2, <5>1, <5>2, LiteralMoves
      <4>3. CASE p + 1 > mid + 1
        <5>1. /\ p \in HostBegin(d) + 1 .. HostEnd(d) /\ mid < HostEnd(d)
              /\ ~(p <= mid) /\ ~(p + 1 <= mid) /\ p + 1 # mid + 1
              /\ p + 1 \in mid + 2 .. HostEnd(d)
          BY <1>0, <2>2, <2>5, <4>3
        <5>2. s \in {"zone_start", "zone"} /\ c \in IsZoneChar
          BY <1>2, <2>1, <5>1 DEF HostStaged, LiteralUpTo
        <5> QED BY <5>1, <5>2, LiteralMoves
      <4> QED BY <1>0, <2>2, <4>1, <4>2, <4>3
    <3> QED BY <1>2, <2>3, <3>1, <3>2 DEF HostStaged
  <2>6. CASE p + 1 = PortBegin(d)
    <3>1. p = HostEnd(d) /\ p \in HostBegin(d) + 1 .. HostEnd(d) /\ p + 1 # HostBegin(d)
          /\ p + 1 \notin HostBegin(d) + 1 .. HostEnd(d)
      BY <1>0, <1>2, <2>6
    <3>2. p # mid + 1 \/ p <= mid
      BY <2>1, <2>2, <3>1, <1>0 DEF LiteralUpTo
    <3>3. s \in {"v6", "zone"} /\ c = "]"
      BY <1>2, <2>2, <2>6, <3>1, <3>2 DEF HostStaged, Symbols
    <3>4. w = "v6_end"
      BY <3>3, LiteralMoves
    <3> QED BY <1>2, <2>3, <2>6, <3>1, <3>4 DEF HostStaged
  <2>7. p + 1 = HostBegin(d) \/ p + 1 \in HostBegin(d) + 1 .. HostEnd(d) \/ p + 1 = PortBegin(d)
    BY <1>0, <1>2
  <2> QED BY <2>4, <2>5, <2>6, <2>7
<1>3. CASE Bracket(d) = 0 /\ p + 1 \in UserEnd(d) + 1 .. PortBegin(d)
  <2>1. /\ p + 1 # UserEnd(d) /\ p + 1 \notin ServerBegin(d) .. UserEnd(d) - 1
        /\ p + 1 \notin PortBegin(d) + 1 .. ServerEnd(d)
        /\ p + 1 \in HostBegin(d) + 1 .. HostEnd(d)
        /\ p = UserEnd(d) \/ p \in HostBegin(d) + 1 .. HostEnd(d)
    BY <1>0, <1>3
  <2>2. s \in {"host_start", "host"} /\ c \in IsHostChar
    BY <1>3, <2>1 DEF HostStaged, Symbols
  <2>3. w = "host"
    BY <2>2, HostCharMoves
  <2> QED BY <1>3, <2>1, <2>3 DEF HostStaged
<1>4. CASE p + 1 \in PortBegin(d) + 1 .. ServerEnd(d)
  <2>1. /\ ServerEnd(d) > PortBegin(d) /\ ServerEnd(d) = PortBegin(d) + 2
        /\ p = PortBegin(d) \/ p = PortBegin(d) + 1
    <3>1. ServerEnd(d) > PortBegin(d)
      BY <1>0, <1>4
    <3>2. ServerEnd(d) # PortBegin(d)
      BY <1>0, <3>1
    <3>3. ServerEnd(d) = PortBegin(d) + 2
      BY <3>2, PlacesTyped
    <3> QED BY <1>0, <1>4, <3>1, <3>3
  <2>2. url[PortBegin(d) + 1] = ":" /\ url[ServerEnd(d)] \in Numbers
    BY <2>1 DEF Symbols
  <2>3. w = IF p + 1 = ServerEnd(d) THEN "port" ELSE "port_start"
    <3>1. CASE p = PortBegin(d)
      <4>1. s \in {"host", "v6_end"}
        <5>1. Bracket(d) = 0 => p \in HostBegin(d) + 1 .. HostEnd(d)
          BY <1>0, <3>1
        <5> QED BY <1>0, <3>1, <5>1 DEF HostStaged
      <4>2. p + 1 # ServerEnd(d) /\ c = ":"
        BY <1>0, <2>1, <2>2, <3>1
      <4> QED BY <4>1, <4>2, HostCharMoves
    <3>2. CASE p = PortBegin(d) + 1
      <4>1. p \in PortBegin(d) + 1 .. ServerEnd(d) /\ p # ServerEnd(d) /\ p + 1 = ServerEnd(d)
        BY <1>0, <2>1, <3>2
      <4>2. s = "port_start" /\ c \in Numbers
        BY <2>2, <4>1 DEF HostStaged
      <4> QED BY <4>1, <4>2, HostCharMoves
    <3> QED BY <2>1, <3>1, <3>2
  <2>4. /\ p + 1 # UserEnd(d) /\ p + 1 \notin ServerBegin(d) .. UserEnd(d) - 1
        /\ p + 1 # HostBegin(d) /\ p + 1 \notin HostBegin(d) + 1 .. HostEnd(d)
        /\ p + 1 # PortBegin(d)
    BY <1>0, <1>4
  <2> QED BY <1>4, <2>3, <2>4 DEF HostStaged
<1>5. \/ p + 1 \in ServerBegin(d) + 1 .. UserEnd(d) \/ p + 1 \in UserEnd(d) + 1 .. PortBegin(d)
      \/ p + 1 \in PortBegin(d) + 1 .. ServerEnd(d)
  BY <1>0
<1> QED BY <1>0, <1>1, <1>2, <1>3, <1>4, <1>5

LEMMA HostStageField ==
    ASSUME NEW d, WellFormed(d), NEW mid,
           NEW p \in ServerBegin(d) + 1 .. ServerEnd(d), NEW s, HostStaged(d, mid, p, s)
    PROVE  /\ HostFieldOf(s) = "HOST" <=> p \in HostBegin(d) + 1 .. HostEnd(d)
           /\ HostFieldOf(s) = "PORT" <=> p \in ServerEnd(d) .. ServerEnd(d)
                                          /\ ServerEnd(d) > PortBegin(d)
           /\ HostFieldOf(s) \notin {"SCHEMA", "PATH"}
           /\ p = ServerEnd(d) => s \in HostEnds
<1>0. /\ ServerBegin(d) \in Nat
      /\ UserEnd(d) \in Nat /\ UserEnd(d) >= ServerBegin(d)
      /\ HostBegin(d) \in Nat /\ HostBegin(d) = UserEnd(d) + Bracket(d)
      /\ HostEnd(d) \in Nat /\ HostEnd(d) > HostBegin(d)
      /\ PortBegin(d) \in Nat /\ PortBegin(d) = HostEnd(d) + Bracket(d)
      /\ ServerEnd(d) \in Nat /\ ServerEnd(d) >= PortBegin(d)
      /\ p \in Nat /\ Bracket(d) \in {0, 1}
  BY PlacesTyped, PlaceOrder
<1>1. CASE p \in ServerBegin(d) + 1 .. UserEnd(d)
  <2>1. p = UserEnd(d) \/ p \in ServerBegin(d) .. UserEnd(d) - 1
    BY <1>0, <1>1
  <2>2. s \in {"host_start", "userinfo_start", "userinfo"}
    BY <2>1 DEF HostStaged
  <2>3. /\ p \notin HostBegin(d) + 1 .. HostEnd(d) /\ p \notin ServerEnd(d) .. ServerEnd(d)
        /\ p # ServerEnd(d)
    BY <1>0, <1>1
  <2> QED BY <2>2, <2>3 DEF HostFieldOf
<1>2. CASE p \in HostBegin(d) + 1 .. HostEnd(d)
  <2>1. s \in {"v6", "zone_start", "zone"} \/ (s = "host" /\ Bracket(d) = 0)
    <3>1. Bracket(d) = 0 => s = "host"
      BY <1>2 DEF HostStaged
    <3>2. Bracket(d) = 1 => s \in {"v6", "zone_start", "zone"}
      BY <1>2 DEF HostStaged
    <3>3. Bracket(d) = 0 \/ Bracket(d) = 1
      BY <1>0
    <3> QED BY <3>1, <3>2, <3>3, Zenon
  <2>2. p = ServerEnd(d) => PortBegin(d) = p /\ Bracket(d) = 0 /\ ~(ServerEnd(d) > PortBegin(d))
    BY <1>0, <1>2
  <2>3. p \in ServerEnd(d) .. ServerEnd(d) => p = ServerEnd(d)
    BY <1>0
  <2>4. Bracket(d) = 0 => s = "host"
    BY <1>0, <1>2 DEF HostStaged
  <2> QED BY <1>2, <2>1, <2>2, <2>3, <2>4 DEF HostFieldOf, HostEnds
<1>3. CASE Bracket(d) = 1 /\ (p = HostBegin(d) \/ p = PortBegin(d))
  <2>1. IF p = PortBegin(d) THEN s = "v6_end" ELSE s = "v6_start"
    BY <1>3 DEF HostStaged
  <2>2. p \notin HostBegin(d) + 1 .. HostEnd(d)
    BY <1>0, <1>3
  <2>3. p = ServerEnd(d) => p = PortBegin(d) /\ ~(ServerEnd(d) > PortBegin(d))
    BY <1>0, <1>3
  <2>4. p \in ServerEnd(d) .. ServerEnd(d) => p = ServerEnd(d)
    BY <1>0
  <2> QED BY <2>1, <2>2, <2>3, <2>4 DEF HostFieldOf, HostEnds
<1>4. CASE p \in PortBegin(d) + 1 .. ServerEnd(d)
  <2>1. s = IF p = ServerEnd(d) THEN "port" ELSE "port_start"
    BY <1>4 DEF HostStaged
  <2>2. p \notin HostBegin(d) + 1 .. HostEnd(d) /\ ServerEnd(d) > PortBegin(d)
    BY <1>0, <1>4
  <2>3. p \in ServerEnd(d) .. ServerEnd(d) <=> p = ServerEnd(d)
    BY <1>0
  <2> QED BY <2>1, <2>2, <2>3 DEF HostFieldOf, HostEnds
<1>5. \/ p \in ServerBegin(d) + 1 .. UserEnd(d) \/ p \in HostBegin(d) + 1 .. HostEnd(d)
      \/ Bracket(d) = 1 /\ (p = HostBegin(d) \/ p = PortBegin(d))
      \/ p \in PortBegin(d) + 1 .. ServerEnd(d)
  BY <1>0
<1> QED BY <1>1, <1>2, <1>3, <1>4, <1>5

(* What the second pass has found behind place p.                          *)
HostFound(d, mid, u, p, h) ==
    /\ HostStaged(d, mid, p, h.state)
    /\ h.data["HOST"] = Span(HostBegin(d) + 1, Cap(p, HostEnd(d)))
    /\ h.data["PORT"] = IF ServerEnd(d) > PortBegin(d)
                        THEN Span(ServerEnd(d), Cap(p, ServerEnd(d))) ELSE NoField
    /\ h.data["SCHEMA"] = u.data["SCHEMA"] /\ h.data["PATH"] = u.data["PATH"]

LEMMA SecondPassMoves ==
    ASSUME NEW d, WellFormed(d), NEW url \in Seq(Chars), Symbols(d, url),
           NEW mid, Bracket(d) = 1 => LiteralUpTo(d, url, mid), NEW u,
           NEW p \in ServerBegin(d) .. ServerEnd(d) - 1, NEW h, NEW w,
           HostFound(d, mid, u, p, h), HostMoved(h, url[p + 1], p + 1, w)
    PROVE  HostFound(d, mid, u, p + 1, w)
<1>0. /\ ServerBegin(d) \in Nat /\ ServerEnd(d) \in Nat \ {0}
      /\ HostBegin(d) \in Nat /\ HostEnd(d) \in Nat /\ HostEnd(d) > HostBegin(d)
      /\ p \in Nat /\ p + 1 \in ServerBegin(d) + 1 .. ServerEnd(d)
  BY PlaceOrder
<1>1. HostStaged(d, mid, p + 1, w.state)
  BY HostStageMoves DEF HostFound, HostMoved
<1>2. /\ HostFieldOf(w.state) = "HOST" <=> p + 1 \in HostBegin(d) + 1 .. HostEnd(d)
      /\ HostFieldOf(w.state) = "PORT" <=> p + 1 \in ServerEnd(d) .. ServerEnd(d)
                                           /\ ServerEnd(d) > PortBegin(d)
      /\ HostFieldOf(w.state) \notin {"SCHEMA", "PATH"}
  BY <1>0, <1>1, HostStageField
<1>3. \A f \in Fields : w.data[f] =
          IF f = HostFieldOf(w.state) THEN Extend(h.data[f], p + 1) ELSE h.data[f]
  BY DEF HostMoved
<1>4. w.data["HOST"] = Span(HostBegin(d) + 1, Cap(p + 1, HostEnd(d)))
  <2>0. HostBegin(d) + 1 \in Nat \ {0} /\ HostBegin(d) + 1 <= HostEnd(d) + 1
    BY <1>0
  <2>1. h.data["HOST"] = Span(HostBegin(d) + 1, Cap(p, HostEnd(d)))
    BY DEF HostFound
  <2>2. Span(HostBegin(d) + 1, Cap(p + 1, HostEnd(d)))
          = IF p + 1 \in HostBegin(d) + 1 .. HostEnd(d)
            THEN Extend(h.data["HOST"], p + 1) ELSE h.data["HOST"]
    BY <1>0, <2>0, <2>1, SpanMoves
  <2> QED BY <1>2, <1>3, <2>2 DEF Fields
<1>5. w.data["PORT"] = IF ServerEnd(d) > PortBegin(d)
                       THEN Span(ServerEnd(d), Cap(p + 1, ServerEnd(d))) ELSE NoField
  <2>1. CASE ServerEnd(d) > PortBegin(d)
    <3>0. ServerEnd(d) <= ServerEnd(d) + 1
      BY <1>0
    <3>1. h.data["PORT"] = Span(ServerEnd(d), Cap(p, ServerEnd(d)))
      BY <2>1 DEF HostFound
    <3>2. Span(ServerEnd(d), Cap(p + 1, ServerEnd(d)))
            = IF p + 1 \in ServerEnd(d) .. ServerEnd(d)
              THEN Extend(h.data["PORT"], p + 1) ELSE h.data["PORT"]
      BY <1>0, <3>0, <3>1, SpanMoves
    <3> QED BY <1>2, <1>3, <2>1, <3>2 DEF Fields
  <2>2. CASE ~(ServerEnd(d) > PortBegin(d))
    BY <1>2, <1>3, <2>2 DEF Fields, HostFound
  <2> QED BY <2>1, <2>2
<1>6. w.data["SCHEMA"] = u.data["SCHEMA"] /\ w.data["PATH"] = u.data["PATH"]
  BY <1>2, <1>3 DEF Fields, HostFound
<1> QED BY <1>1, <1>4, <1>5, <1>6 DEF HostFound

LEMMA SecondPass ==
    ASSUME NEW d, WellFormed(d), NEW url, Laid(d, url)
    PROVE  LET h == ParseHost(url, ScanUrl(url)) IN
           /\ h.state \in HostEnds
           /\ h.data["HOST"] = Span(HostBegin(d) + 1, HostEnd(d))
           /\ h.data["PORT"] = IF ServerEnd(d) > PortBegin(d)
                               THEN Span(ServerEnd(d), ServerEnd(d)) ELSE NoField
           /\ h.data["SCHEMA"] = Span(1, SchemaEnd(d))
           /\ h.data["PATH"] = Span(ServerEnd(d) + 1, PathEnd(d))
<1> DEFINE u == ScanUrl(url)
           b == ServerBegin(d)
           e == ServerEnd(d)
<1>1. /\ url \in Seq(Chars) /\ Len(url) \in Nat /\ Len(url) >= QueryEnd(d)
      /\ Symbols(d, url)
  <2>1. url \in Seq(Chars) /\ Len(url) = QueryEnd(d) + Len(d.fragment)
    BY DEF Laid
  <2>2. QueryEnd(d) \in Nat /\ Len(d.fragment) \in Nat
    BY PlacesTyped
  <2> QED BY <2>1, <2>2, LaidSymbols
<1>2. /\ b \in Nat /\ SchemaEnd(d) \in Nat /\ SchemaEnd(d) <= Len(url)
      /\ UserEnd(d) \in Nat /\ UserEnd(d) >= b /\ UserEnd(d) <= Len(url)
      /\ HostBegin(d) \in Nat /\ HostBegin(d) >= UserEnd(d)
      /\ HostEnd(d) \in Nat /\ HostEnd(d) > HostBegin(d)
      /\ PortBegin(d) \in Nat /\ PortBegin(d) >= HostEnd(d)
      /\ e \in Nat /\ e >= PortBegin(d) /\ b < e /\ e <= Len(url)
      /\ PathEnd(d) \in Nat /\ PathEnd(d) <= Len(url)
  BY <1>1, PlaceOrder
<1>3. Found(d, url, Len(url), u)
  BY FirstPass
<1>4. u.data \in [Fields -> FieldData]
  BY <1>1, UrlScanMoves DEF ScanUrl
<1> HIDE DEF u
<1>5. \A x \in Nat : x <= Len(url) => Cap(Len(url), x) = x
  BY <1>1 DEF Cap
<1>6. /\ u.data["HOST"] = Span(b + 1, e)
      /\ u.data["SCHEMA"] = Span(1, SchemaEnd(d))
      /\ u.data["PATH"] = Span(e + 1, PathEnd(d))
      /\ u.data["PORT"] = NoField
  BY <1>2, <1>3, <1>5 DEF Found
<1>7. u.found_at <=> UserEnd(d) > b
  <2>1. u.found_at <=> UserEnd(d) > ServerBegin(d) /\ Len(url) >= UserEnd(d)
    BY <1>3 DEF Found
  <2>2. Len(url) >= UserEnd(d)
    BY <1>1, <1>2
  <2> QED BY <2>1, <2>2
<1> DEFINE after == HostScan(url, u)
<1>8. /\ after[0] = HostStart(u)
      /\ \A j \in 0 .. e - b - 1 : HostMoved(after[j], url[b + j + 1], b + j + 1, after[j + 1])
      /\ ParseHost(url, u) = after[e - b]
  BY <1>2, <1>4, <1>6, HostScanMoves
<1> HIDE DEF after
<1>9. PICK mid : Bracket(d) = 1 => LiteralUpTo(d, url, mid)
  BY <1>1 DEF Symbols
<1> DEFINE S == {j \in Nat : j <= e - b => HostFound(d, mid, u, b + j, after[j])}
<1>10. 0 \in S
  <2>1. HostStart(u).state = IF u.found_at THEN "userinfo_start" ELSE "host_start"
    BY DEF HostStart
  <2>2. HostStart(u).data = [u.data EXCEPT !["HOST"] = NoField]
    BY DEF HostStart
  <2>3. \A f \in Fields : HostStart(u).data[f] = IF f = "HOST" THEN NoField ELSE u.data[f]
    BY <1>4, <2>2
  <2>4. HostStaged(d, mid, b, HostStart(u).state)
    <3>1. /\ Bracket(d) = 1 => HostBegin(d) > b
          /\ b \notin HostBegin(d) + 1 .. HostEnd(d) /\ b # PortBegin(d)
          /\ b \notin PortBegin(d) + 1 .. ServerEnd(d)
      BY <1>2, PlacesTyped
    <3>2. CASE UserEnd(d) > b
      <4>1. HostStart(u).state = "userinfo_start"
        BY <1>7, <2>1, <3>2
      <4>2. b # UserEnd(d) /\ b \in b .. UserEnd(d) - 1 /\ b # HostBegin(d)
        BY <1>2, <3>2
      <4> QED BY <3>1, <4>1, <4>2 DEF HostStaged
    <3>3. CASE ~(UserEnd(d) > b)
      <4>1. HostStart(u).state = "host_start"
        BY <1>7, <2>1, <3>3
      <4>2. b = UserEnd(d) /\ b \notin b .. UserEnd(d) - 1 /\ (Bracket(d) = 1 => b # HostBegin(d))
        BY <1>2, <3>1, <3>3
      <4> QED BY <3>1, <4>1, <4>2 DEF HostStaged
    <3> QED BY <3>2, <3>3
  <2>5. Span(HostBegin(d) + 1, Cap(b, HostEnd(d))) = NoField
    BY <1>2 DEF Cap, Span
  <2>6. Span(e, Cap(b, e)) = NoField
    BY <1>2 DEF Cap, Span
  <2>7. {"SCHEMA", "HOST", "PATH", "PORT"} \subseteq Fields
    BY DEF Fields
  <2>8. HostFound(d, mid, u, b, HostStart(u))
    BY <1>6, <2>3, <2>4, <2>5, <2>6, <2>7 DEF HostFound
  <2>9. b + 0 = b
    BY <1>2
  <2> QED BY <1>8, <2>8, <2>9
<1>11. ASSUME NEW j \in 0 .. e - b - 1, j \in S PROVE j + 1 \in S
  <2>1. /\ j + 1 \in Nat /\ j <= e - b /\ b + j \in b .. e - 1
        /\ b + j + 1 = (b + j) + 1 /\ b + (j + 1) = (b + j) + 1
    BY <1>2
  <2>2. HostFound(d, mid, u, b + j, after[j])
    BY <1>11, <2>1
  <2>3. HostMoved(after[j], url[(b + j) + 1], (b + j) + 1, after[j + 1])
    BY <1>8, <2>1
  <2>4. HostFound(d, mid, u, (b + j) + 1, after[j + 1])
    BY <1>1, <1>9, <2>1, <2>2, <2>3, SecondPassMoves
  <2> QED BY <2>1, <2>4
<1>12. e - b \in S
  <2>1. e - b \in Nat
    BY <1>2
  <2> HIDE DEF S
  <2>2. 0 .. e - b \subseteq S
    BY <1>10, <1>11, <2>1, Upwards
  <2> QED BY <2>1, <2>2
<1>13. HostFound(d, mid, u, e, ParseHost(url, u))
  <2>1. b + (e - b) = e /\ e - b \in Nat /\ e - b <= e - b
    BY <1>2
  <2> QED BY <1>8, <1>12, <2>1
<1>14. Cap(e, HostEnd(d)) = HostEnd(d) /\ Cap(e, e) = e
  BY <1>2 DEF Cap
<1>15. ParseHost(url, u).state \in HostEnds
  <2>1. e \in b + 1 .. e
    BY <1>2
  <2> QED BY <1>13, <2>1, HostStageField DEF HostFound
<1> QED BY <1>6, <1>13, <1>14, <1>15 DEF HostFound, u

(* A well-formed URL is accepted, and taken for what it was written from.  *)
LEMMA WellFormedAccepted ==
    ASSUME NEW d, WellFormed(d), NEW url, Render(d) = url
    PROVE  /\ script_parse_url(url).ok
           /\ Target(url, script_parse_url(url).data) = Meant(d)
<1> DEFINE u == ScanUrl(url)
           h == ParseHost(url, u)
<1>1. Laid(d, url)
  BY RenderLays
<1>2. /\ url \in Seq(Chars) /\ Len(url) \in Nat /\ Len(url) = QueryEnd(d) + Len(d.fragment)
      /\ Symbols(d, url)
  <2>1. url \in Seq(Chars) /\ Len(url) = QueryEnd(d) + Len(d.fragment)
    BY <1>1 DEF Laid
  <2> QED BY <1>1, <2>1, LaidSymbols
<1>3. /\ SchemaEnd(d) \in Nat \ {0} /\ ServerBegin(d) = SchemaEnd(d) + 3
      /\ UserEnd(d) \in Nat /\ UserEnd(d) >= ServerBegin(d)
      /\ HostBegin(d) \in Nat /\ HostBegin(d) >= UserEnd(d)
      /\ HostEnd(d) \in Nat /\ HostEnd(d) > HostBegin(d)
      /\ PortBegin(d) \in Nat /\ PortBegin(d) >= HostEnd(d)
      /\ ServerEnd(d) \in Nat /\ ServerEnd(d) >= PortBegin(d) /\ ServerEnd(d) > UserEnd(d)
      /\ PathEnd(d) \in Nat /\ PathEnd(d) >= ServerEnd(d)
      /\ QueryEnd(d) \in Nat /\ QueryEnd(d) >= PathEnd(d)
  BY PlaceOrder
<1>4. QueryEnd(d) <= Len(url) /\ ServerEnd(d) <= Len(url) /\ PathEnd(d) <= Len(url)
  BY <1>2, <1>3, PlacesTyped
<1>5. Found(d, url, Len(url), u)
  BY <1>1, FirstPass
<1>6. /\ h.state \in HostEnds
      /\ h.data["HOST"] = Span(HostBegin(d) + 1, HostEnd(d))
      /\ h.data["PORT"] = IF ServerEnd(d) > PortBegin(d)
                          THEN Span(ServerEnd(d), ServerEnd(d)) ELSE NoField
      /\ h.data["SCHEMA"] = Span(1, SchemaEnd(d))
      /\ h.data["PATH"] = Span(ServerEnd(d) + 1, PathEnd(d))
  BY <1>1, SecondPass
<1> HIDE DEF u
<1> DEFINE ok == /\ u.state # "s_dead"
                 /\ u.data["SCHEMA"].len > 0 /\ u.data["HOST"].len > 0
                 /\ h.state \in HostEnds
                 /\ PortNumber(url, h.data) <= 65535
<1>7. script_parse_url(url) = [ok |-> ok, data |-> h.data]
  BY DEF script_parse_url, u
<1> HIDE DEF h, ok
<1>8. script_parse_url(url).data = h.data
  BY <1>7
<1>9. script_parse_url(url).ok = ok
  BY <1>7
<1>10. u.state # "s_dead"
  <2>1. Staged(d, url, Len(url), u.state)
    BY <1>5 DEF Found
  <2>2. \/ Len(url) \in ServerBegin(d) + 1 .. ServerEnd(d)
        \/ Len(url) \in ServerEnd(d) + 1 .. PathEnd(d)
        \/ Len(url) \in PathEnd(d) + 1 .. QueryEnd(d)
        \/ Len(url) \in QueryEnd(d) + 1 .. Len(url)
    BY <1>2, <1>3, <1>4
  <2> QED BY <2>1, <2>2 DEF Staged, InQuery, InFragment
<1>11. u.data["SCHEMA"].len > 0 /\ u.data["HOST"].len > 0
  <2>1. /\ u.data["SCHEMA"] = Span(1, Cap(Len(url), SchemaEnd(d)))
        /\ u.data["HOST"] = Span(ServerBegin(d) + 1, Cap(Len(url), ServerEnd(d)))
    BY <1>5 DEF Found
  <2>2. Cap(Len(url), SchemaEnd(d)) = SchemaEnd(d) /\ Cap(Len(url), ServerEnd(d)) = ServerEnd(d)
    BY <1>2, <1>3, <1>4 DEF Cap
  <2> QED BY <2>1, <2>2, <1>3 DEF Span
<1>12. PortNumber(url, h.data) <= 65535
  <2>1. CASE ServerEnd(d) > PortBegin(d)
    <3>1. h.data["PORT"] = [off |-> ServerEnd(d), len |-> 1]
      BY <1>3, <1>6, <2>1 DEF Span
    <3>2. PortNumber(url, h.data) = PortOf[url[ServerEnd(d)]]
      BY <3>1 DEF PortNumber
    <3> QED BY <1>2, <2>1, <3>2 DEF Symbols
  <2>2. CASE ~(ServerEnd(d) > PortBegin(d))
    BY <1>6, <2>2 DEF PortNumber, NoField
  <2> QED BY <2>1, <2>2
<1>13. script_parse_url(url).ok
  <2>1. ok
    BY <1>6, <1>10, <1>11, <1>12 DEF ok
  <2> QED BY <1>9, <2>1, Zenon
<1>14. Part(url, h.data, "SCHEMA") = d.schema
  <2>1. h.data["SCHEMA"].off = 1 /\ h.data["SCHEMA"].len = SchemaEnd(d)
    BY <1>3, <1>6 DEF Span
  <2>2. Part(url, h.data, "SCHEMA") = SubSeq(url, 0 + 1, 0 + Len(d.schema))
    <3>1. SchemaEnd(d) = Len(d.schema) /\ 1 + SchemaEnd(d) - 1 = 0 + Len(d.schema) /\ 0 + 1 = 1
      BY <1>3 DEF SchemaEnd
    <3> QED BY <2>1, <3>1 DEF Part
  <2> QED BY <1>1, <1>2, <2>2, AtSubSeq DEF Laid
<1>15. Part(url, h.data, "HOST") = d.host
  <2>1. h.data["HOST"].off = HostBegin(d) + 1 /\ h.data["HOST"].len = HostEnd(d) - HostBegin(d)
    BY <1>3, <1>6 DEF Span
  <2>2. Part(url, h.data, "HOST") = SubSeq(url, HostBegin(d) + 1, HostBegin(d) + Len(d.host))
    <3>1. (HostBegin(d) + 1) + (HostEnd(d) - HostBegin(d)) - 1 = HostBegin(d) + Len(d.host)
      BY <1>3 DEF HostEnd
    <3> QED BY <2>1, <3>1 DEF Part
  <2> QED BY <1>1, <1>2, <2>2, AtSubSeq DEF Laid
<1>16. Part(url, h.data, "PORT") = d.port
  <2>1. CASE d.port = <<>>
    <3>1. h.data["PORT"].off = 0 /\ h.data["PORT"].len = 0
      <4>1. ServerEnd(d) = PortBegin(d)
        BY <2>1, PlacesTyped
      <4> QED BY <1>3, <1>6, <4>1 DEF NoField
    <3>2. Part(url, h.data, "PORT") = SubSeq(url, 0, 0 + 0 - 1)
      BY <3>1 DEF Part
    <3> QED BY <1>2, <2>1, <3>2
  <2>2. CASE d.port # <<>>
    <3>1. h.data["PORT"].off = ServerEnd(d) /\ h.data["PORT"].len = 1
      <4>1. ServerEnd(d) = PortBegin(d) + 2
        BY <2>2, PlacesTyped
      <4> QED BY <1>3, <1>6, <4>1 DEF Span
    <3>2. Part(url, h.data, "PORT") = SubSeq(url, ServerEnd(d), ServerEnd(d))
      <4>1. ServerEnd(d) + 1 - 1 = ServerEnd(d)
        BY <1>3
      <4> QED BY <3>1, <4>1 DEF Part
    <3>3. PICK st \in Numbers : d.port = <<st>>
      BY <2>2 DEF WellFormed
    <3>4. url[ServerEnd(d)] = st
      BY <1>1, <2>2, <3>3 DEF Laid
    <3>5. /\ ServerEnd(d) - 1 \in Nat /\ (ServerEnd(d) - 1) + 1 = ServerEnd(d)
          /\ ServerEnd(d) <= Len(url)
      BY <1>2, <1>3, <1>4
    <3>6. d.port \in Seq(Chars) /\ Len(d.port) = 1 /\ d.port[1] = st
      BY <3>3 DEF Chars, AlphaNum
    <3>7. At(url, ServerEnd(d) - 1, d.port)
      BY <3>4, <3>5, <3>6 DEF At
    <3>8. SubSeq(url, (ServerEnd(d) - 1) + 1, (ServerEnd(d) - 1) + Len(d.port)) = d.port
      BY <1>2, <3>7, AtSubSeq
    <3> QED BY <3>2, <3>5, <3>6, <3>8
  <2> QED BY <2>1, <2>2
<1>17. Path(url, h.data) = Meant(d).path
  <2>1. CASE d.path = <<>>
    <3>1. h.data["PATH"].len = 0
      <4>1. PathEnd(d) = ServerEnd(d)
        BY <2>1, <1>3, PlacesTyped
      <4> QED BY <1>3, <1>6, <4>1 DEF Span, NoField
    <3> QED BY <2>1, <3>1 DEF Path, Meant
  <2>2. CASE d.path # <<>>
    <3>1. PathEnd(d) > ServerEnd(d)
      BY <2>2, <1>3, PlacesTyped
    <3>2. h.data["PATH"].len # 0 /\ h.data["PATH"].off = ServerEnd(d) + 1
      BY <1>3, <1>6, <3>1 DEF Span
    <3>3. Path(url, h.data) = SubSeq(url, ServerEnd(d) + 1, Len(url))
      BY <3>2 DEF Path
    <3>4. d.path \in Seq(Chars) /\ d.query \in Seq(Chars) /\ d.fragment \in Seq(Chars)
      BY <1>1 DEF Laid, At
    <3>5. PICK pq : pq = d.path \o d.query
      OBVIOUS
    <3>6. PICK t : t = pq \o d.fragment
      OBVIOUS
    <3>7. pq \in Seq(Chars) /\ t \in Seq(Chars)
      BY <3>4, <3>5, <3>6, AtAppend
    <3>8. /\ Len(d.path) \in Nat /\ Len(d.query) \in Nat /\ Len(d.fragment) \in Nat
          /\ ServerEnd(d) \in Nat
      BY <1>3, <3>4
    <3>9. \A a, b, c \in Nat : (a + b) + c = a + (b + c)
      OBVIOUS
    <3>10. /\ PathEnd(d) = ServerEnd(d) + Len(d.path)
           /\ QueryEnd(d) = ServerEnd(d) + Len(pq) /\ Len(url) = ServerEnd(d) + Len(t)
      <4>1. Len(pq) = Len(d.path) + Len(d.query) /\ Len(t) = Len(pq) + Len(d.fragment)
        BY <3>4, <3>5, <3>6, <3>7, AtAppend
      <4>2. PathEnd(d) = ServerEnd(d) + Len(d.path) /\ QueryEnd(d) = PathEnd(d) + Len(d.query)
        BY DEF PathEnd, QueryEnd
      <4>3. Len(pq) \in Nat
        BY <3>7
      <4>4. QueryEnd(d) = ServerEnd(d) + Len(pq)
        <5>1. (ServerEnd(d) + Len(d.path)) + Len(d.query)
                 = ServerEnd(d) + (Len(d.path) + Len(d.query))
          BY <3>8, <3>9, Zenon
        <5> QED BY <4>1, <4>2, <5>1, Zenon
      <4>5. Len(url) = ServerEnd(d) + Len(t)
        <5>1. (ServerEnd(d) + Len(pq)) + Len(d.fragment)
                 = ServerEnd(d) + (Len(pq) + Len(d.fragment))
          BY <3>8, <4>3
        <5> QED BY <1>2, <4>1, <4>4, <5>1, Zenon
      <4> QED BY <4>2, <4>4, <4>5
    <3>11. At(url, ServerEnd(d), pq)
      BY <1>1, <3>5, <3>10, AtJoin DEF Laid
    <3>12. At(url, ServerEnd(d), t)
      BY <1>1, <3>6, <3>10, <3>11, AtJoin DEF Laid
    <3>13. SubSeq(url, ServerEnd(d) + 1, Len(url)) = t
      BY <1>2, <3>10, <3>12, AtSubSeq
    <3> QED BY <2>2, <3>3, <3>5, <3>6, <3>13 DEF Meant
  <2> QED BY <2>1, <2>2
<1>18. Target(url, h.data) = Meant(d)
  BY <1>14, <1>15, <1>16, <1>17 DEF Target, Meant
<1> QED BY <1>8, <1>13, <1>18

---------------------------------------------------------------------------
(* The other way round: the first pass over a URL that is accepted.        *)

BeforeServer == {"s_req_schema", "s_req_schema_slash", "s_req_schema_slash_slash"}

(* The symbol a state has been reached with.                               *)
LEMMA UrlCharCame ==
    ASSUME NEW s, NEW c \in Chars, NEW z, z = parse_url_char(s, c)
    PROVE  /\ z = "s_req_schema" =>
                 s \in {"s_req_spaces_before_url", "s_req_schema"} /\ c \in Letters
           /\ z = "s_req_schema_slash" => s = "s_req_schema" /\ c = ":"
           /\ z = "s_req_schema_slash_slash" => s = "s_req_schema_slash" /\ c = "/"
           /\ z = "s_req_server_start" => s = "s_req_schema_slash_slash" /\ c = "/"
           /\ z \in InServer /\ z # "s_req_server_start" => s \in InServer
           /\ z = "s_req_path" =>
                 \/ s = "s_req_spaces_before_url"
                 \/ s \in InServer /\ c = "/"
                 \/ s = "s_req_path" /\ c \in UrlChars
           /\ z \in InQuery =>
                 \/ (s \in InServer \/ s = "s_req_path") /\ c = "?"
                 \/ s \in InQuery /\ c \in UrlChars \cup {"?"}
           /\ z \in InFragment =>
                 \/ (s \in InQuery \/ s = "s_req_path") /\ c = "#"
                 \/ s \in InFragment /\ c \in UrlChars \cup {"?", "#"}
           /\ z \in {"s_req_schema", "s_req_schema_slash", "s_req_schema_slash_slash",
                     "s_req_path", "s_dead"} \cup InServer \cup InQuery \cup InFragment
<1>1. CASE c = " "
  BY <1>1 DEF parse_url_char, InServer, InQuery, InFragment
<1>2. CASE c # " " /\ s \in InServer
  <2>1. z = AfterServer(c) \/ z = "s_dead"
    BY <1>2 DEF parse_url_char, InServer, InQuery, InFragment
  <2>2. \/ AfterServer(c) = "s_req_path" /\ c = "/"
        \/ AfterServer(c) = "s_req_query_string_start" /\ c = "?"
        \/ AfterServer(c) \in {"s_req_server_with_at", "s_req_server", "s_dead"}
    BY DEF AfterServer
  <2> QED BY <1>2, <2>1, <2>2 DEF InServer, InQuery, InFragment
<1>3. CASE c # " " /\ s = "s_req_path"
  <2>1. z = AfterPath(c)
    BY <1>3 DEF parse_url_char, InServer, InQuery, InFragment
  <2> QED BY <1>3, <2>1 DEF AfterPath, InServer, InQuery, InFragment, UrlChars
<1>4. CASE c # " " /\ s \in InQuery
  <2>1. z = AfterQuery(c)
    BY <1>4 DEF parse_url_char, InServer, InQuery, InFragment
  <2> QED BY <1>4, <2>1 DEF AfterQuery, InServer, InQuery, InFragment, UrlChars
<1>5. CASE c # " " /\ s \in InFragment
  <2>1. z = AfterFragment(s, c)
    BY <1>5 DEF parse_url_char, InServer, InQuery, InFragment
  <2> QED BY <1>5, <2>1 DEF AfterFragment, InServer, InQuery, InFragment, UrlChars
<1>6. CASE c # " " /\ s \notin {"s_req_path"} \cup InServer \cup InQuery \cup InFragment
  <2>1. \/ z = "s_req_path" /\ s = "s_req_spaces_before_url"
        \/ /\ z = "s_req_schema" /\ c \in Letters
           /\ s \in {"s_req_spaces_before_url", "s_req_schema"}
        \/ z = "s_req_schema_slash" /\ s = "s_req_schema" /\ c = ":"
        \/ z = "s_req_schema_slash_slash" /\ s = "s_req_schema_slash" /\ c = "/"
        \/ z = "s_req_server_start" /\ s = "s_req_schema_slash_slash" /\ c = "/"
        \/ z = "s_dead"
    <3>0. c \in Letters => c \notin {":", "/", "*"}
      BY SymbolSets DEF Delimiters
    <3>1. CASE s = "s_req_spaces_before_url"
      BY <1>6, <3>0, <3>1 DEF parse_url_char, InServer, InQuery, InFragment
    <3>2. CASE s = "s_req_schema"
      BY <1>6, <3>0, <3>2 DEF parse_url_char, InServer, InQuery, InFragment
    <3>3. CASE s = "s_req_schema_slash"
      BY <1>6, <3>3 DEF parse_url_char, InServer, InQuery, InFragment
    <3>4. CASE s = "s_req_schema_slash_slash"
      BY <1>6, <3>4 DEF parse_url_char, InServer, InQuery, InFragment
    <3>5. CASE s \notin BeforeServer \cup {"s_req_spaces_before_url"}
      BY <1>6, <3>5 DEF parse_url_char, InServer, InQuery, InFragment, BeforeServer
    <3> QED BY <3>1, <3>2, <3>3, <3>4, <3>5 DEF BeforeServer
  <2> QED BY <2>1 DEF InServer, InQuery, InFragment
<1> QED BY <1>1, <1>2, <1>3, <1>4, <1>5, <1>6

(* The scheme and its delimiter, st symbols and three.                     *)
Schemed(url, u, st) ==
    /\ st \in Nat \ {0} /\ \A j \in 1 .. st : url[j] \in Letters
    /\ u.data["SCHEMA"] = Span(1, st)
    /\ u.data["PORT"] = NoField

Slashed(url, st) == url[st + 1] = ":" /\ url[st + 2] = "/" /\ url[st + 3] = "/"

InScheme(url, k, u) == \E st :
    /\ Schemed(url, u, st) /\ u.data["HOST"] = NoField
    /\ u.state \in BeforeServer
    /\ u.state = "s_req_schema" => k = st
    /\ u.state = "s_req_schema_slash" => k = st + 1 /\ url[st + 1] = ":"
    /\ u.state = "s_req_schema_slash_slash" => k = st + 2 /\ url[st + 1] = ":" /\ url[st + 2] = "/"

(* The server ends at e, the path at p, the query at q.                    *)
Divided(url, k, e, p, q) ==
    /\ e \in Nat /\ p \in e .. k /\ q \in p .. k
    /\ p > e => url[e + 1] = "/" /\ \A j \in e + 2 .. p : url[j] \in UrlChars
    /\ q > p => url[p + 1] = "?" /\ \A j \in p + 2 .. q : url[j] \in UrlChars \cup {"?"}
    /\ k > q => /\ q > e /\ url[q + 1] = "#"
                /\ \A j \in q + 2 .. k : url[j] \in UrlChars \cup {"?", "#"}

PastScheme(url, k, u) == \E st, e, p, q :
    /\ Schemed(url, u, st) /\ Slashed(url, st) /\ st + 3 <= e
    /\ Divided(url, k, e, p, q) /\ u.data["HOST"] = Span(st + 3 + 1, e)
    /\ u.state \in InServer \cup {"s_req_path"} \cup InQuery \cup InFragment
    /\ u.state \in InServer => e = k
    /\ u.state = "s_req_path" => p = k /\ p > e
    /\ u.state \in InQuery => q = k /\ q > p
    /\ u.state \in InFragment => k > q

(* What a URL looks like that the first pass has not refused; what has no  *)
(* scheme never gets one.                                                  *)
Understood1(url, k, u) ==
    \/ u.state = "s_dead"
    \/ u.data["SCHEMA"] = NoField /\ u.state \in {"s_req_path"} \cup InQuery \cup InFragment
    \/ /\ k = 0 /\ u.state = "s_req_spaces_before_url"
       /\ \A f \in Fields : u.data[f] = NoField
    \/ InScheme(url, k, u)
    \/ PastScheme(url, k, u)

LEMMA DividedGrows ==
    ASSUME NEW url, NEW k \in Nat, NEW e, NEW p, NEW q, Divided(url, k, e, p, q), NEW c,
           c = url[k + 1]
    PROVE  /\ e = k => Divided(url, k + 1, k + 1, k + 1, k + 1)
           /\ e = k /\ c = "/" => Divided(url, k + 1, k, k + 1, k + 1)
           /\ p = k /\ p > e /\ c \in UrlChars => Divided(url, k + 1, e, k + 1, k + 1)
           /\ p = k /\ c = "?" => Divided(url, k + 1, e, k, k + 1)
           /\ q = k /\ q > p /\ c \in UrlChars \cup {"?"} => Divided(url, k + 1, e, p, k + 1)
           /\ q = k /\ q > e /\ c = "#" => Divided(url, k + 1, e, p, k)
           /\ k > q /\ c \in UrlChars \cup {"?", "#"} => Divided(url, k + 1, e, p, q)
<1>0. e \in Nat /\ p \in e .. k /\ q \in p .. k
  BY DEF Divided
<1>1. e = k => Divided(url, k + 1, k + 1, k + 1, k + 1)
  BY DEF Divided
<1>2. e = k /\ c = "/" => Divided(url, k + 1, k, k + 1, k + 1)
  BY DEF Divided
<1>3. p = k /\ p > e /\ c \in UrlChars => Divided(url, k + 1, e, k + 1, k + 1)
  <2> HAVE p = k /\ p > e /\ c \in UrlChars
  <2>1. url[e + 1] = "/" /\ \A j \in e + 2 .. k : url[j] \in UrlChars
    BY DEF Divided
  <2>2. \A j \in e + 2 .. k + 1 : url[j] \in UrlChars
    BY <2>1, <1>0
  <2> QED BY <1>0, <2>1, <2>2 DEF Divided
<1>4. p = k /\ c = "?" => Divided(url, k + 1, e, k, k + 1)
  <2> HAVE p = k /\ c = "?"
  <2>1. k > e => url[e + 1] = "/" /\ \A j \in e + 2 .. k : url[j] \in UrlChars
    BY DEF Divided
  <2> QED BY <1>0, <2>1 DEF Divided
<1>5. q = k /\ q > p /\ c \in UrlChars \cup {"?"} => Divided(url, k + 1, e, p, k + 1)
  <2> HAVE q = k /\ q > p /\ c \in UrlChars \cup {"?"}
  <2>1. p > e => url[e + 1] = "/" /\ \A j \in e + 2 .. p : url[j] \in UrlChars
    BY DEF Divided
  <2>2. url[p + 1] = "?" /\ \A j \in p + 2 .. k : url[j] \in UrlChars \cup {"?"}
    BY DEF Divided
  <2>3. \A j \in p + 2 .. k + 1 : url[j] \in UrlChars \cup {"?"}
    BY <2>2, <1>0
  <2> QED BY <1>0, <2>1, <2>2, <2>3 DEF Divided
<1>6. q = k /\ q > e /\ c = "#" => Divided(url, k + 1, e, p, k)
  <2> HAVE q = k /\ q > e /\ c = "#"
  <2>1. /\ p > e => url[e + 1] = "/" /\ \A j \in e + 2 .. p : url[j] \in UrlChars
        /\ k > p => url[p + 1] = "?" /\ \A j \in p + 2 .. k : url[j] \in UrlChars \cup {"?"}
    BY DEF Divided
  <2> QED BY <1>0, <2>1 DEF Divided
<1>7. k > q /\ c \in UrlChars \cup {"?", "#"} => Divided(url, k + 1, e, p, q)
  <2> HAVE k > q /\ c \in UrlChars \cup {"?", "#"}
  <2>1. /\ p > e => url[e + 1] = "/" /\ \A j \in e + 2 .. p : url[j] \in UrlChars
        /\ q > p => url[p + 1] = "?" /\ \A j \in p + 2 .. q : url[j] \in UrlChars \cup {"?"}
    BY DEF Divided
  <2>2. /\ q > e /\ url[q + 1] = "#"
        /\ \A j \in q + 2 .. k : url[j] \in UrlChars \cup {"?", "#"}
    BY DEF Divided
  <2>3. \A j \in q + 2 .. k + 1 : url[j] \in UrlChars \cup {"?", "#"}
    BY <2>2, <1>0
  <2> QED BY <1>0, <2>1, <2>2, <2>3 DEF Divided
<1> QED BY <1>1, <1>2, <1>3, <1>4, <1>5, <1>6, <1>7

LEMMA SchemedKept ==
    ASSUME NEW url, NEW c, NEW k \in Nat, NEW u, NEW w, Moved(u, c, k, w),
           NEW st, Schemed(url, u, st), w.state # "s_req_schema"
    PROVE  Schemed(url, w, st)
<1>1. FieldOf(w.state) \notin {"SCHEMA", "PORT"}
  BY DEF FieldOf
<1>2. w.data["SCHEMA"] = u.data["SCHEMA"] /\ w.data["PORT"] = u.data["PORT"]
  BY <1>1 DEF Moved, Fields
<1> QED BY <1>2 DEF Schemed

LEMMA Understanding1 ==
    ASSUME NEW url \in Seq(Chars), NEW k \in 0 .. Len(url) - 1, NEW u, NEW w,
           Understood1(url, k, u), Moved(u, url[k + 1], k + 1, w)
    PROVE  Understood1(url, k + 1, w)
<1> DEFINE c == url[k + 1]
<1>0. c \in Chars /\ k \in Nat /\ k + 1 \in Nat
  BY DEF Moved
<1>1. w.state = parse_url_char(u.state, c)
  BY DEF Moved
<1>2. \A f \in Fields : w.data[f] =
          IF f = FieldOf(w.state) THEN Extend(u.data[f], k + 1) ELSE u.data[f]
  BY DEF Moved
<1> DEFINE s == u.state
           z == w.state
<1>3. /\ z = "s_req_schema" => s \in {"s_req_spaces_before_url", "s_req_schema"} /\ c \in Letters
      /\ z = "s_req_schema_slash" => s = "s_req_schema" /\ c = ":"
      /\ z = "s_req_schema_slash_slash" => s = "s_req_schema_slash" /\ c = "/"
      /\ z = "s_req_server_start" => s = "s_req_schema_slash_slash" /\ c = "/"
      /\ z \in InServer /\ z # "s_req_server_start" => s \in InServer
      /\ z = "s_req_path" =>
            \/ s = "s_req_spaces_before_url"
            \/ s \in InServer /\ c = "/"
            \/ s = "s_req_path" /\ c \in UrlChars
      /\ z \in InQuery =>
            \/ (s \in InServer \/ s = "s_req_path") /\ c = "?"
            \/ s \in InQuery /\ c \in UrlChars \cup {"?"}
      /\ z \in InFragment =>
            \/ (s \in InQuery \/ s = "s_req_path") /\ c = "#"
            \/ s \in InFragment /\ c \in UrlChars \cup {"?", "#"}
      /\ z \in {"s_req_schema", "s_req_schema_slash", "s_req_schema_slash_slash",
                "s_req_path", "s_dead"} \cup InServer \cup InQuery \cup InFragment
  BY <1>0, <1>1, UrlCharCame
<1> HIDE DEF c
<1>4. "SCHEMA" \in Fields /\ "HOST" \in Fields /\ "PORT" \in Fields
  BY DEF Fields
<1>5. CASE u.data["SCHEMA"] = NoField /\ s \in {"s_req_path"} \cup InQuery \cup InFragment
  <2>1. z \in {"s_req_path"} \cup InQuery \cup InFragment \/ z = "s_dead"
    BY <1>3, <1>5 DEF InServer, InQuery, InFragment
  <2>2. FieldOf(z) # "SCHEMA"
    BY <2>1 DEF FieldOf, InQuery, InFragment
  <2>3. w.data["SCHEMA"] = NoField
    BY <1>2, <1>4, <1>5, <2>2
  <2> QED BY <2>1, <2>3 DEF Understood1
<1>6. CASE /\ k = 0 /\ s = "s_req_spaces_before_url"
           /\ \A f \in Fields : u.data[f] = NoField
  <2>1. (z = "s_req_schema" /\ c \in Letters) \/ z = "s_req_path" \/ z = "s_dead"
    BY <1>3, <1>6 DEF InServer, InQuery, InFragment
  <2>2. CASE z = "s_req_schema" /\ c \in Letters
    <3>1. FieldOf(z) = "SCHEMA"
      BY <2>2 DEF FieldOf
    <3>2. w.data["SCHEMA"] = Extend(NoField, k + 1) /\ w.data["HOST"] = NoField
          /\ w.data["PORT"] = NoField
      BY <1>2, <1>4, <1>6, <3>1
    <3>3. w.data["SCHEMA"] = Span(1, 1)
      BY <1>6, <3>2 DEF Extend, NoField, Span
    <3>4. \A j \in 1 .. 1 : url[j] \in Letters
      BY <1>6, <2>2 DEF c
    <3>5. Schemed(url, w, 1)
      BY <3>2, <3>3, <3>4 DEF Schemed
    <3> QED BY <1>6, <2>2, <3>2, <3>5 DEF Understood1, InScheme, BeforeServer
  <2>3. CASE z = "s_req_path"
    <3>1. FieldOf(z) # "SCHEMA"
      BY <2>3 DEF FieldOf
    <3>2. w.data["SCHEMA"] = NoField
      BY <1>2, <1>4, <1>6, <3>1
    <3> QED BY <2>3, <3>2 DEF Understood1
  <2>4. CASE z = "s_dead"
    BY <2>4 DEF Understood1
  <2> QED BY <2>1, <2>2, <2>3, <2>4
<1>7. CASE InScheme(url, k, u)
  <2>1. PICK st :
           /\ Schemed(url, u, st) /\ u.data["HOST"] = NoField
           /\ s \in BeforeServer
           /\ s = "s_req_schema" => k = st
           /\ s = "s_req_schema_slash" => k = st + 1 /\ url[st + 1] = ":"
           /\ s = "s_req_schema_slash_slash" =>
                 k = st + 2 /\ url[st + 1] = ":" /\ url[st + 2] = "/"
    BY <1>7 DEF InScheme
  <2>2. st \in Nat \ {0}
    BY <2>1 DEF Schemed
  <2>3. \/ z = "s_req_schema" /\ s = "s_req_schema" /\ c \in Letters
        \/ z = "s_req_schema_slash" /\ s = "s_req_schema" /\ c = ":"
        \/ z = "s_req_schema_slash_slash" /\ s = "s_req_schema_slash" /\ c = "/"
        \/ z = "s_req_server_start" /\ s = "s_req_schema_slash_slash" /\ c = "/"
        \/ z = "s_dead"
    BY <1>3, <2>1 DEF BeforeServer, InServer, InQuery, InFragment
  <2>4. CASE z = "s_req_schema" /\ s = "s_req_schema" /\ c \in Letters
    <3>1. FieldOf(z) = "SCHEMA" /\ k = st
      BY <2>1, <2>4 DEF FieldOf
    <3>2. w.data["SCHEMA"] = Extend(Span(1, st), st + 1) /\ w.data["HOST"] = NoField
          /\ w.data["PORT"] = NoField
      BY <1>2, <1>4, <2>1, <3>1 DEF Schemed
    <3>3. w.data["SCHEMA"] = Span(1, st + 1)
      <4>1. 1 \in Nat \ {0} /\ st \in Nat /\ 1 <= st + 1
        BY <2>2
      <4>2. Extend(Span(1, st), st + 1) = Span(1, st + 1)
        BY <4>1, SpanGrows
      <4> QED BY <3>2, <4>2
    <3>4. \A j \in 1 .. st + 1 : url[j] \in Letters
      <4>1. \A j \in 1 .. st : url[j] \in Letters
        BY <2>1 DEF Schemed
      <4> QED BY <2>2, <2>4, <3>1, <4>1 DEF c
    <3>5. Schemed(url, w, st + 1)
      BY <2>2, <3>2, <3>3, <3>4 DEF Schemed
    <3> QED BY <2>4, <3>1, <3>2, <3>5 DEF Understood1, InScheme, BeforeServer
  <2>5. CASE z = "s_req_schema_slash" /\ s = "s_req_schema" /\ c = ":"
    <3>1. Schemed(url, w, st)
      BY <1>0, <2>1, <2>5, SchemedKept
    <3>2. w.data["HOST"] = NoField
      BY <1>2, <1>4, <2>1, <2>5 DEF FieldOf
    <3>3. k + 1 = st + 1 /\ url[st + 1] = ":"
      BY <2>1, <2>5 DEF c
    <3> QED BY <2>5, <3>1, <3>2, <3>3 DEF Understood1, InScheme, BeforeServer
  <2>6. CASE z = "s_req_schema_slash_slash" /\ s = "s_req_schema_slash" /\ c = "/"
    <3>1. Schemed(url, w, st)
      BY <1>0, <2>1, <2>6, SchemedKept
    <3>2. w.data["HOST"] = NoField
      BY <1>2, <1>4, <2>1, <2>6 DEF FieldOf
    <3>3. k + 1 = st + 2 /\ url[st + 1] = ":" /\ url[st + 2] = "/"
      <4>1. k = st + 1 /\ k + 1 = st + 2 /\ url[st + 1] = ":"
        BY <2>1, <2>2, <2>6
      <4> QED BY <2>6, <4>1 DEF c
    <3> QED BY <2>6, <3>1, <3>2, <3>3 DEF Understood1, InScheme, BeforeServer
  <2>7. CASE z = "s_req_server_start" /\ s = "s_req_schema_slash_slash" /\ c = "/"
    <3>1. Schemed(url, w, st)
      BY <1>0, <2>1, <2>7, SchemedKept
    <3>2. w.data["HOST"] = NoField
      BY <1>2, <1>4, <2>1, <2>7 DEF FieldOf
    <3>3. k + 1 = st + 3 /\ Slashed(url, st)
      <4>1. k = st + 2 /\ k + 1 = st + 3 /\ url[st + 1] = ":" /\ url[st + 2] = "/"
        BY <2>1, <2>2, <2>7
      <4> QED BY <2>7, <4>1 DEF c, Slashed
    <3>4. Divided(url, k + 1, k + 1, k + 1, k + 1)
      BY <1>0 DEF Divided
    <3>5. w.data["HOST"] = Span(st + 3 + 1, k + 1)
      BY <2>2, <3>2, <3>3 DEF Span
    <3>6. st + 3 <= k + 1
      BY <2>2, <3>3
    <3>7. PastScheme(url, k + 1, w)
      BY <2>7, <3>1, <3>3, <3>4, <3>5, <3>6 DEF PastScheme, InServer, InQuery, InFragment
    <3> QED BY <3>7 DEF Understood1
  <2>8. CASE z = "s_dead"
    BY <2>8 DEF Understood1
  <2> QED BY <2>3, <2>4, <2>5, <2>6, <2>7, <2>8
<1>8. CASE PastScheme(url, k, u)
  <2>1. PICK st, e, p, q :
           /\ Schemed(url, u, st) /\ Slashed(url, st) /\ st + 3 <= e
           /\ Divided(url, k, e, p, q) /\ u.data["HOST"] = Span(st + 3 + 1, e)
           /\ s \in InServer \cup {"s_req_path"} \cup InQuery \cup InFragment
           /\ s \in InServer => e = k
           /\ s = "s_req_path" => p = k /\ p > e
           /\ s \in InQuery => q = k /\ q > p
           /\ s \in InFragment => k > q
    BY <1>8 DEF PastScheme
  <2>2. st \in Nat \ {0} /\ e \in Nat /\ p \in e .. k /\ q \in p .. k
    BY <2>1 DEF Schemed, Divided
  <2>3. CASE z \in InServer
    <3>1. s \in InServer /\ z # "s_req_server_start"
      BY <1>3, <2>1, <2>3 DEF InServer, InQuery, InFragment
    <3>2. FieldOf(z) = "HOST" /\ z # "s_req_schema"
      BY <2>3, <3>1 DEF FieldOf, InServer
    <3>3. w.data["HOST"] = Extend(Span(st + 3 + 1, k), k + 1)
      BY <1>2, <1>4, <2>1, <3>1, <3>2
    <3>4. st + 3 + 1 \in Nat \ {0} /\ st + 3 + 1 <= k + 1 /\ st + 3 <= k + 1
      BY <2>1, <2>2, <3>1
    <3>5. w.data["HOST"] = Span(st + 3 + 1, k + 1)
      BY <1>0, <3>3, <3>4, SpanGrows
    <3>6. Schemed(url, w, st)
      BY <1>0, <2>1, <3>2, SchemedKept
    <3>7. Divided(url, k + 1, k + 1, k + 1, k + 1)
      BY <1>0, <2>1, <3>1, DividedGrows
    <3>8. PastScheme(url, k + 1, w)
      BY <2>1, <2>3, <3>4, <3>5, <3>6, <3>7 DEF PastScheme, InServer, InQuery, InFragment
    <3> QED BY <3>8 DEF Understood1
  <2>4. CASE z \in {"s_req_path"} \cup InQuery \cup InFragment
    <3>1. FieldOf(z) # "HOST" /\ z # "s_req_schema"
      BY <2>4 DEF FieldOf, InQuery, InFragment
    <3>2. w.data["HOST"] = Span(st + 3 + 1, e)
      BY <1>2, <1>4, <2>1, <3>1
    <3>3. Schemed(url, w, st)
      BY <1>0, <2>1, <3>1, SchemedKept
    <3>4. CASE z = "s_req_path"
      <4>1. \/ s \in InServer /\ c = "/"
            \/ s = "s_req_path" /\ c \in UrlChars
        BY <1>3, <2>1, <3>4 DEF InServer, InQuery, InFragment
      <4>2. Divided(url, k + 1, e, k + 1, k + 1)
        BY <1>0, <2>1, <2>2, <4>1, DividedGrows DEF c
      <4>3. k + 1 > e
        BY <1>0, <2>2
      <4>4. PastScheme(url, k + 1, w)
        BY <2>1, <3>2, <3>3, <3>4, <4>2, <4>3 DEF PastScheme, InServer, InQuery, InFragment
      <4> QED BY <4>4 DEF Understood1
    <3>5. CASE z \in InQuery
      <4>1. \/ (s \in InServer \/ s = "s_req_path") /\ c = "?"
            \/ s \in InQuery /\ c \in UrlChars \cup {"?"}
        BY <1>3, <3>5
      <4>2. CASE (s \in InServer \/ s = "s_req_path") /\ c = "?"
        <5>1. p = k
          BY <2>1, <2>2, <4>2
        <5>2. Divided(url, k + 1, e, k, k + 1)
          BY <1>0, <2>1, <4>2, <5>1, DividedGrows DEF c
        <5>3. k + 1 > k
          BY <1>0
        <5>4. PastScheme(url, k + 1, w)
          BY <2>1, <3>2, <3>3, <3>5, <5>2, <5>3 DEF PastScheme, InServer, InQuery, InFragment
        <5> QED BY <5>4 DEF Understood1
      <4>3. CASE s \in InQuery /\ c \in UrlChars \cup {"?"}
        <5>1. q = k /\ q > p
          BY <2>1, <4>3
        <5>2. Divided(url, k + 1, e, p, k + 1)
          BY <1>0, <2>1, <4>3, <5>1, DividedGrows DEF c
        <5>3. k + 1 > p
          BY <1>0, <2>2
        <5>4. PastScheme(url, k + 1, w)
          BY <2>1, <3>2, <3>3, <3>5, <5>2, <5>3 DEF PastScheme, InServer, InQuery, InFragment
        <5> QED BY <5>4 DEF Understood1
      <4> QED BY <4>1, <4>2, <4>3
    <3>6. CASE z \in InFragment
      <4>1. \/ (s \in InQuery \/ s = "s_req_path") /\ c = "#"
            \/ s \in InFragment /\ c \in UrlChars \cup {"?", "#"}
        BY <1>3, <3>6
      <4>2. CASE (s \in InQuery \/ s = "s_req_path") /\ c = "#"
        <5>1. q = k /\ q > e
          BY <2>1, <2>2, <4>2
        <5>2. Divided(url, k + 1, e, p, k)
          BY <1>0, <2>1, <4>2, <5>1, DividedGrows DEF c
        <5>3. k + 1 > k
          BY <1>0
        <5>4. PastScheme(url, k + 1, w)
          BY <2>1, <3>2, <3>3, <3>6, <5>2, <5>3 DEF PastScheme, InServer, InQuery, InFragment
        <5> QED BY <5>4 DEF Understood1
      <4>3. CASE s \in InFragment /\ c \in UrlChars \cup {"?", "#"}
        <5>1. k > q
          BY <2>1, <4>3
        <5>2. Divided(url, k + 1, e, p, q)
          BY <1>0, <2>1, <4>3, <5>1, DividedGrows DEF c
        <5>3. k + 1 > q
          BY <1>0, <2>2
        <5>4. PastScheme(url, k + 1, w)
          BY <2>1, <3>2, <3>3, <3>6, <5>2, <5>3 DEF PastScheme, InServer, InQuery, InFragment
        <5> QED BY <5>4 DEF Understood1
      <4> QED BY <4>1, <4>2, <4>3
    <3> QED BY <2>4, <3>4, <3>5, <3>6
  <2>5. CASE z = "s_dead"
    BY <2>5 DEF Understood1
  <2>6. z \in InServer \cup {"s_req_path", "s_dead"} \cup InQuery \cup InFragment
    BY <1>3, <2>1 DEF InServer, InQuery, InFragment
  <2> QED BY <2>3, <2>4, <2>5, <2>6
<1>9. CASE s = "s_dead"
  <2>1. z = "s_dead"
    BY <1>1, <1>9 DEF parse_url_char, InServer, InQuery, InFragment
  <2> QED BY <2>1 DEF Understood1
<1> QED BY <1>5, <1>6, <1>7, <1>8, <1>9 DEF Understood1

LEMMA UnderstoodByScan ==
    ASSUME NEW url \in Seq(Chars)
    PROVE  Understood1(url, Len(url), ScanUrl(url))
<1> DEFINE S == {k \in Nat : k <= Len(url) => Understood1(url, k, UrlScan(url)[k])}
<1>0. Len(url) \in Nat
  OBVIOUS
<1>1. 0 \in S
  <2>1. UrlScan(url)[0] = UrlStart
    BY <1>0, UrlScanMoves
  <2>2. UrlStart.state = "s_req_spaces_before_url" /\ \A f \in Fields : UrlStart.data[f] = NoField
    BY DEF UrlStart
  <2> QED BY <2>1, <2>2 DEF Understood1
<1>2. ASSUME NEW k \in 0 .. Len(url) - 1, k \in S PROVE k + 1 \in S
  <2>1. k + 1 \in 1 .. Len(url) /\ k + 1 \in Nat /\ (k + 1) - 1 = k /\ k <= Len(url)
    BY <1>0
  <2>2. Moved(UrlScan(url)[k], url[k + 1], k + 1, UrlScan(url)[k + 1])
    BY <1>0, <2>1, UrlScanMoves
  <2>3. Understood1(url, k, UrlScan(url)[k])
    BY <1>2, <2>1
  <2>4. Understood1(url, k + 1, UrlScan(url)[k + 1])
    BY <2>2, <2>3, Understanding1
  <2> QED BY <2>1, <2>4
<1>3. Len(url) \in S
  <2> HIDE DEF S
  <2>1. 0 .. Len(url) \subseteq S
    BY <1>0, <1>1, <1>2, Upwards
  <2> QED BY <1>0, <2>1
<1> QED BY <1>0, <1>3 DEF ScanUrl

---------------------------------------------------------------------------
(* The second pass over the host of a URL that is accepted.                *)

LEMMA HostCharCame ==
    ASSUME NEW s, NEW c, NEW z, z = http_parse_host_char(s, c)
    PROVE  /\ z = "userinfo" => s \in {"userinfo_start", "userinfo"} /\ c \in IsUserinfo
           /\ z = "host_start" => s \in {"userinfo_start", "userinfo"} /\ c = "@"
           /\ z = "v6_start" => s = "host_start" /\ c = "["
           /\ z = "host" => s \in {"host_start", "host"} /\ c \in IsHostChar
           /\ z = "port_start" => s \in {"host", "v6_end"} /\ c = ":"
           /\ z = "v6_end" => s \in {"v6", "zone"} /\ c = "]"
           /\ z = "v6" => s \in {"v6_start", "v6"} /\ c \in IsHex \cup {":", "."}
           /\ z = "zone_start" => s = "v6" /\ c = "%"
           /\ z = "zone" => s \in {"zone_start", "zone"} /\ c \in IsZoneChar
           /\ z = "port" => s \in {"port_start", "port"} /\ c \in Numbers
           /\ z \in {"userinfo", "host_start", "v6_start", "host", "port_start", "v6_end", "v6",
                     "zone_start", "zone", "port", "dead"}
BY DEF http_parse_host_char

(* What stands before the host, from b on, ends at a.                      *)
UserUpTo(url, b, a) ==
    /\ a \in Nat
    /\ \/ a = b
       \/ a > b /\ url[a] = "@" /\ \A j \in b + 1 .. a - 1 : url[j] \in IsUserinfo

(* The address of a literal behind a ends at mid, what follows it at g.    *)
AddressUpTo(url, a, mid, g) ==
    /\ mid \in Nat /\ g \in Nat /\ a + 2 <= mid /\ mid <= g /\ url[a + 1] = "["
    /\ \A j \in a + 2 .. mid : url[j] \in IsHex \cup {":", "."}
    /\ mid < g => url[mid + 1] = "%" /\ \A j \in mid + 2 .. g : url[j] \in IsZoneChar

(* The host behind a ends at g.                                            *)
HostUpTo(url, a, g) ==
    /\ g \in Nat /\ a < g
    /\ \/ \A j \in a + 1 .. g : url[j] \in IsHostChar
       \/ /\ url[g] = "]"
          /\ \E mid : AddressUpTo(url, a, mid, g - 1) /\ (mid < g - 1 => mid + 1 < g - 1)

(* The host behind a, and the port behind it that ends at k.               *)
PortUpTo(url, a, k, h) == \E g :
    /\ HostUpTo(url, a, g) /\ g + 1 <= k /\ url[g + 1] = ":"
    /\ \A j \in g + 2 .. k : url[j] \in Numbers
    /\ h.state = "port_start" => k = g + 1
    /\ h.state = "port" => k >= g + 2
    /\ h.data["PORT"] = Span(g + 2, k)

BehindUser(url, a, k, h) ==
    \/ h.state = "host_start" /\ k = a
    \/ h.state = "v6_start" /\ k = a + 1 /\ url[a + 1] = "["
    \/ h.state = "v6" /\ AddressUpTo(url, a, k, k)
    \/ h.state = "zone_start" /\ \E mid : AddressUpTo(url, a, mid, k) /\ mid + 1 = k
    \/ h.state = "zone" /\ \E mid : AddressUpTo(url, a, mid, k) /\ mid + 1 < k
    \/ h.state = "host" /\ k \in Nat /\ a < k /\ \A j \in a + 1 .. k : url[j] \in IsHostChar
    \/ h.state = "v6_end" /\ HostUpTo(url, a, k)
    \/ h.state \in {"port_start", "port"}

(* What a host looks like that the second pass has not refused.            *)
Understood2(url, b, k, h) ==
    \/ h.state = "dead"
    \/ h.state = "userinfo_start" /\ k = b /\ h.data["PORT"] = NoField
    \/ /\ h.state = "userinfo" /\ \A j \in b + 1 .. k : url[j] \in IsUserinfo
       /\ h.data["PORT"] = NoField
    \/ \E a : /\ UserUpTo(url, b, a) /\ b <= a /\ BehindUser(url, a, k, h)
              /\ IF h.state \in {"port_start", "port"} THEN PortUpTo(url, a, k, h)
                 ELSE h.data["PORT"] = NoField

LEMMA AddressGrows ==
    ASSUME NEW url, NEW a \in Nat, NEW mid, NEW k \in Nat, NEW c, c = url[k + 1],
           AddressUpTo(url, a, mid, k)
    PROVE  /\ mid = k /\ c \in IsHex \cup {":", "."} => AddressUpTo(url, a, k + 1, k + 1)
           /\ mid = k /\ c = "%" => AddressUpTo(url, a, mid, k + 1)
           /\ mid < k /\ c \in IsZoneChar => AddressUpTo(url, a, mid, k + 1)
           /\ c = "]" /\ (mid < k => mid + 1 < k) => HostUpTo(url, a, k + 1)
<1>1. /\ mid \in Nat /\ a + 2 <= mid /\ mid <= k /\ url[a + 1] = "["
      /\ \A j \in a + 2 .. mid : url[j] \in IsHex \cup {":", "."}
      /\ mid < k => url[mid + 1] = "%" /\ \A j \in mid + 2 .. k : url[j] \in IsZoneChar
  BY DEF AddressUpTo
<1>2. mid = k /\ c \in IsHex \cup {":", "."} => AddressUpTo(url, a, k + 1, k + 1)
  <2> HAVE mid = k /\ c \in IsHex \cup {":", "."}
  <2>1. \A j \in a + 2 .. k + 1 : url[j] \in IsHex \cup {":", "."}
    BY <1>1
  <2>2. k + 1 \in Nat /\ a + 2 <= k + 1 /\ k + 1 <= k + 1 /\ ~(k + 1 < k + 1)
    BY <1>1
  <2> QED BY <1>1, <2>1, <2>2 DEF AddressUpTo
<1>3. mid = k /\ c = "%" => AddressUpTo(url, a, mid, k + 1)
  <2> HAVE mid = k /\ c = "%"
  <2>1. k + 1 \in Nat /\ mid <= k + 1 /\ \A j \in mid + 2 .. k + 1 : url[j] \in IsZoneChar
    BY <1>1
  <2> QED BY <1>1, <2>1 DEF AddressUpTo
<1>4. mid < k /\ c \in IsZoneChar => AddressUpTo(url, a, mid, k + 1)
  <2> HAVE mid < k /\ c \in IsZoneChar
  <2>1. \A j \in mid + 2 .. k + 1 : url[j] \in IsZoneChar
    BY <1>1
  <2>2. k + 1 \in Nat /\ mid <= k + 1
    BY <1>1
  <2> QED BY <1>1, <2>1, <2>2 DEF AddressUpTo
<1>5. c = "]" /\ (mid < k => mid + 1 < k) => HostUpTo(url, a, k + 1)
  <2> HAVE c = "]" /\ (mid < k => mid + 1 < k)
  <2>1. (k + 1) - 1 = k /\ k + 1 \in Nat /\ a < k + 1
    BY <1>1
  <2>2. AddressUpTo(url, a, mid, (k + 1) - 1) /\ (mid < (k + 1) - 1 => mid + 1 < (k + 1) - 1)
    BY <2>1
  <2> QED BY <2>1, <2>2 DEF HostUpTo
<1> QED BY <1>2, <1>3, <1>4, <1>5

LEMMA Understanding2 ==
    ASSUME NEW url, NEW b \in Nat, NEW k \in Nat, b <= k, NEW h, NEW w,
           Understood2(url, b, k, h), HostMoved(h, url[k + 1], k + 1, w)
    PROVE  Understood2(url, b, k + 1, w)
<1> DEFINE c == url[k + 1]
           s == h.state
           z == w.state
<1>1. z = http_parse_host_char(s, c)
  BY DEF HostMoved
<1>2. w.data["PORT"] = IF z = "port" THEN Extend(h.data["PORT"], k + 1) ELSE h.data["PORT"]
  <2>1. "PORT" \in Fields /\ ("PORT" = HostFieldOf(z) <=> z = "port")
    BY DEF Fields, HostFieldOf
  <2> QED BY <2>1 DEF HostMoved
<1>3. /\ z = "userinfo" => s \in {"userinfo_start", "userinfo"} /\ c \in IsUserinfo
      /\ z = "host_start" => s \in {"userinfo_start", "userinfo"} /\ c = "@"
      /\ z = "v6_start" => s = "host_start" /\ c = "["
      /\ z = "host" => s \in {"host_start", "host"} /\ c \in IsHostChar
      /\ z = "port_start" => s \in {"host", "v6_end"} /\ c = ":"
      /\ z = "v6_end" => s \in {"v6", "zone"} /\ c = "]"
      /\ z = "v6" => s \in {"v6_start", "v6"} /\ c \in IsHex \cup {":", "."}
      /\ z = "zone_start" => s = "v6" /\ c = "%"
      /\ z = "zone" => s \in {"zone_start", "zone"} /\ c \in IsZoneChar
      /\ z = "port" => s \in {"port_start", "port"} /\ c \in Numbers
      /\ z \in {"userinfo", "host_start", "v6_start", "host", "port_start", "v6_end", "v6",
                "zone_start", "zone", "port", "dead"}
  BY <1>1, HostCharCame
<1>4. c = url[k + 1] /\ k + 1 \in Nat
  OBVIOUS
<1> HIDE DEF c
<1>5. CASE z = "dead"
  BY <1>5 DEF Understood2
<1>6. CASE z = "userinfo"
  <2>1. s \in {"userinfo_start", "userinfo"} /\ c \in IsUserinfo
    BY <1>3, <1>6
  <2>2. /\ h.data["PORT"] = NoField
        /\ k = b \/ \A j \in b + 1 .. k : url[j] \in IsUserinfo
    BY <2>1 DEF Understood2, BehindUser
  <2>3. \A j \in b + 1 .. k + 1 : url[j] \in IsUserinfo
    BY <1>4, <2>1, <2>2
  <2> QED BY <1>2, <1>6, <2>2, <2>3 DEF Understood2
<1>7. CASE z = "host_start"
  <2>1. s \in {"userinfo_start", "userinfo"} /\ c = "@"
    BY <1>3, <1>7
  <2>2. /\ h.data["PORT"] = NoField
        /\ k = b \/ \A j \in b + 1 .. k : url[j] \in IsUserinfo
    BY <2>1 DEF Understood2, BehindUser
  <2>3. UserUpTo(url, b, k + 1) /\ b <= k + 1
    <3>1. \A j \in b + 1 .. (k + 1) - 1 : url[j] \in IsUserinfo
      BY <2>2
    <3> QED BY <1>4, <2>1, <3>1 DEF UserUpTo
  <2>4. BehindUser(url, k + 1, k + 1, w) /\ w.data["PORT"] = NoField
    BY <1>2, <1>7, <2>2 DEF BehindUser
  <2> QED BY <1>7, <2>3, <2>4 DEF Understood2
<1>8. CASE z \in {"v6_start", "v6", "zone_start", "zone", "v6_end", "host", "port_start", "port"}
  <2>1. s \in {"host_start", "v6_start", "v6", "zone_start", "zone", "v6_end", "host",
               "port_start", "port"}
    BY <1>3, <1>8
  <2>2. PICK a : /\ UserUpTo(url, b, a) /\ b <= a /\ BehindUser(url, a, k, h)
                 /\ IF s \in {"port_start", "port"} THEN PortUpTo(url, a, k, h)
                    ELSE h.data["PORT"] = NoField
    BY <2>1 DEF Understood2
  <2>3. a \in Nat
    BY <2>2 DEF UserUpTo
  <2>4. /\ z \notin {"port_start", "port"} => BehindUser(url, a, k + 1, w)
        /\ z = "port_start" => HostUpTo(url, a, k) /\ h.data["PORT"] = NoField
    <3>1. CASE s = "host_start"
      <4>1. k = a /\ h.data["PORT"] = NoField
        BY <2>2, <3>1 DEF BehindUser
      <4>2. z \in {"v6_start", "host"}
        BY <1>3, <1>8, <3>1
      <4>3. z = "v6_start" => BehindUser(url, a, k + 1, w)
        BY <1>3, <1>4, <4>1 DEF BehindUser
      <4>4. z = "host" => BehindUser(url, a, k + 1, w)
        <5> HAVE z = "host"
        <5>1. \A j \in a + 1 .. k + 1 : url[j] \in IsHostChar
          BY <1>3, <1>4, <2>3, <4>1
        <5>2. a < k + 1
          BY <2>3, <4>1
        <5> QED BY <1>4, <5>1, <5>2 DEF BehindUser
      <4> QED BY <4>2, <4>3, <4>4
    <3>2. CASE s = "v6_start"
      <4>1. k = a + 1 /\ url[a + 1] = "["
        BY <2>2, <3>2 DEF BehindUser
      <4>2. z = "v6" /\ c \in IsHex \cup {":", "."}
        BY <1>3, <1>8, <3>2
      <4>3. /\ a + 2 <= k + 1 /\ k + 1 <= k + 1 /\ ~(k + 1 < k + 1)
            /\ \A j \in a + 2 .. k + 1 : url[j] \in IsHex \cup {":", "."}
        BY <1>4, <2>3, <4>1, <4>2
      <4>4. AddressUpTo(url, a, k + 1, k + 1)
        BY <1>4, <4>1, <4>3 DEF AddressUpTo
      <4> QED BY <4>2, <4>4 DEF BehindUser
    <3>3. CASE s = "v6"
      <4>1. AddressUpTo(url, a, k, k)
        BY <2>2, <3>3 DEF BehindUser
      <4>2. /\ c \in IsHex \cup {":", "."} => AddressUpTo(url, a, k + 1, k + 1)
            /\ c = "%" => AddressUpTo(url, a, k, k + 1)
            /\ c = "]" => HostUpTo(url, a, k + 1)
        <5>1. ~(k < k)
          OBVIOUS
        <5> QED BY <1>4, <2>3, <4>1, <5>1, AddressGrows
      <4>3. \/ z = "v6" /\ c \in IsHex \cup {":", "."}
            \/ z = "zone_start" /\ c = "%"
            \/ z = "v6_end" /\ c = "]"
        BY <1>3, <1>8, <3>3
      <4> QED BY <4>2, <4>3 DEF BehindUser
    <3>4. CASE s \in {"zone_start", "zone"}
      <4>1. PICK mid : AddressUpTo(url, a, mid, k) /\ mid < k /\ (s = "zone" => mid + 1 < k)
        <5>1. CASE s = "zone_start"
          <6>1. PICK mid : AddressUpTo(url, a, mid, k) /\ mid + 1 = k
            BY <2>2, <5>1 DEF BehindUser
          <6>2. mid \in Nat /\ mid < k
            BY <6>1 DEF AddressUpTo
          <6> QED BY <5>1, <6>1, <6>2
        <5>2. CASE s = "zone"
          <6>1. PICK mid : AddressUpTo(url, a, mid, k) /\ mid + 1 < k
            BY <2>2, <5>2 DEF BehindUser
          <6>2. mid \in Nat /\ mid < k
            BY <6>1 DEF AddressUpTo
          <6> QED BY <5>2, <6>1, <6>2
        <5> QED BY <3>4, <5>1, <5>2
      <4>2. mid \in Nat
        BY <4>1 DEF AddressUpTo
      <4>3. /\ c \in IsZoneChar => AddressUpTo(url, a, mid, k + 1)
            /\ c = "]" /\ (mid < k => mid + 1 < k) => HostUpTo(url, a, k + 1)
        BY <1>4, <2>3, <4>1, AddressGrows
      <4>4. \/ z = "zone" /\ c \in IsZoneChar
            \/ z = "v6_end" /\ s = "zone" /\ c = "]"
        BY <1>3, <1>8, <3>4
      <4>5. mid + 1 < k + 1
        BY <4>1, <4>2
      <4> QED BY <4>1, <4>3, <4>4, <4>5 DEF BehindUser
    <3>5. CASE s \in {"v6_end", "host"}
      <4>1. /\ HostUpTo(url, a, k) /\ h.data["PORT"] = NoField
            /\ s = "host" => a < k /\ \A j \in a + 1 .. k : url[j] \in IsHostChar
        BY <2>2, <3>5 DEF BehindUser, HostUpTo
      <4>2. z = "port_start" \/ (z = "host" /\ s = "host" /\ c \in IsHostChar)
        BY <1>3, <1>8, <3>5
      <4>3. z = "host" => BehindUser(url, a, k + 1, w)
        <5> HAVE z = "host"
        <5>1. a < k + 1 /\ \A j \in a + 1 .. k + 1 : url[j] \in IsHostChar
          BY <1>4, <2>3, <4>1, <4>2
        <5> QED BY <1>4, <5>1 DEF BehindUser
      <4> QED BY <4>1, <4>2, <4>3
    <3>6. CASE s \in {"port_start", "port"}
      BY <1>3, <1>8, <3>6
    <3> QED BY <2>1, <3>1, <3>2, <3>3, <3>4, <3>5, <3>6
  <2>5. b <= a
    BY <2>2
  <2>6. CASE z \notin {"port_start", "port"}
    <3>1. s \notin {"port_start", "port"}
      BY <1>3, <1>8, <2>6
    <3>2. w.data["PORT"] = NoField
      BY <1>2, <2>2, <2>6, <3>1
    <3> QED BY <2>2, <2>4, <2>6, <3>2 DEF Understood2
  <2>7. CASE z = "port_start"
    <3>1. HostUpTo(url, a, k) /\ w.data["PORT"] = NoField /\ url[k + 1] = ":"
      BY <1>2, <1>3, <1>4, <2>4, <2>7
    <3>2. /\ \A j \in k + 2 .. k + 1 : url[j] \in Numbers
          /\ Span(k + 2, k + 1) = NoField /\ k + 1 <= k + 1
      BY DEF Span
    <3>3. PortUpTo(url, a, k + 1, w)
      BY <2>7, <3>1, <3>2 DEF PortUpTo
    <3>4. BehindUser(url, a, k + 1, w)
      BY <2>7 DEF BehindUser
    <3> QED BY <2>2, <2>7, <3>3, <3>4 DEF Understood2
  <2>8. CASE z = "port"
    <3>1. s \in {"port_start", "port"} /\ c \in Numbers
      BY <1>3, <2>8
    <3>2. PICK g : /\ HostUpTo(url, a, g) /\ g + 1 <= k /\ url[g + 1] = ":"
                   /\ \A j \in g + 2 .. k : url[j] \in Numbers
                   /\ h.data["PORT"] = Span(g + 2, k)
      BY <2>2, <3>1 DEF PortUpTo
    <3>3. g \in Nat
      BY <3>2 DEF HostUpTo
    <3>4. /\ \A j \in g + 2 .. k + 1 : url[j] \in Numbers
          /\ g + 1 <= k + 1 /\ k + 1 >= g + 2
      BY <1>4, <3>1, <3>2, <3>3
    <3>5. g + 2 \in Nat \ {0} /\ g + 2 <= k + 1
      BY <3>2, <3>3
    <3>6. w.data["PORT"] = Span(g + 2, k + 1)
      BY <1>2, <2>8, <3>2, <3>5, SpanGrows
    <3>7. PortUpTo(url, a, k + 1, w)
      BY <2>8, <3>2, <3>4, <3>6 DEF PortUpTo
    <3>8. BehindUser(url, a, k + 1, w)
      BY <2>8 DEF BehindUser
    <3> QED BY <2>2, <2>8, <3>7, <3>8 DEF Understood2
  <2> QED BY <2>6, <2>7, <2>8
<1> QED BY <1>3, <1>5, <1>6, <1>7, <1>8

LEMMA UnderstoodByHost ==
    ASSUME NEW url, NEW u, u.data \in [Fields -> FieldData],
           NEW b \in Nat, NEW e \in Nat, b < e, u.data["HOST"] = Span(b + 1, e),
           u.data["PORT"] = NoField
    PROVE  Understood2(url, b, e, ParseHost(url, u))
<1> DEFINE after == HostScan(url, u)
           S == {j \in Nat : j <= e - b => Understood2(url, b, b + j, after[j])}
<1>1. /\ after[0] = HostStart(u)
      /\ \A j \in 0 .. e - b - 1 : HostMoved(after[j], url[b + j + 1], b + j + 1, after[j + 1])
      /\ ParseHost(url, u) = after[e - b]
  BY HostScanMoves
<1> HIDE DEF after
<1>2. 0 \in S
  <2>1. HostStart(u).data["PORT"] = NoField
    BY DEF HostStart, Fields
  <2>2. HostStart(u).state \in {"userinfo_start", "host_start"}
    BY DEF HostStart
  <2>3. UserUpTo(url, b, b) /\ b <= b
    BY DEF UserUpTo
  <2>4. Understood2(url, b, b, HostStart(u))
    <3>1. CASE HostStart(u).state = "userinfo_start"
      BY <2>1, <3>1 DEF Understood2
    <3>2. CASE HostStart(u).state = "host_start"
      <4>1. BehindUser(url, b, b, HostStart(u))
        BY <3>2 DEF BehindUser
      <4> QED BY <2>1, <2>3, <3>2, <4>1 DEF Understood2
    <3> QED BY <2>2, <3>1, <3>2
  <2>5. b + 0 = b
    OBVIOUS
  <2> QED BY <1>1, <2>4, <2>5
<1>3. ASSUME NEW j \in 0 .. e - b - 1, j \in S PROVE j + 1 \in S
  <2>1. /\ j + 1 \in Nat /\ j <= e - b /\ b + j \in Nat /\ b <= b + j
        /\ b + j + 1 = (b + j) + 1 /\ b + (j + 1) = (b + j) + 1
    OBVIOUS
  <2>2. Understood2(url, b, b + j, after[j])
    BY <1>3, <2>1
  <2>3. HostMoved(after[j], url[(b + j) + 1], (b + j) + 1, after[j + 1])
    BY <1>1, <2>1
  <2>4. Understood2(url, b, (b + j) + 1, after[j + 1])
    BY <2>1, <2>2, <2>3, Understanding2
  <2> QED BY <2>1, <2>4
<1>4. e - b \in S
  <2>1. e - b \in Nat
    OBVIOUS
  <2> HIDE DEF S
  <2>2. 0 .. e - b \subseteq S
    BY <1>2, <1>3, <2>1, Upwards
  <2> QED BY <2>1, <2>2
<1>5. b + (e - b) = e /\ e - b \in Nat /\ e - b <= e - b
  OBVIOUS
<1> QED BY <1>1, <1>4, <1>5

(* A port behind g that ends at e, unless the server ends at g.            *)
PortEnds(url, g, e) ==
    e > g => /\ e = g + 2 /\ url[g + 1] = ":"
             /\ url[e] \in Numbers /\ PortOf[url[e]] <= 65535

(* Where the parts of a URL end: its scheme, userinfo, host, server, path  *)
(* and query.                                                              *)
Cuts(url, st, a, g, e, p, q) ==
    /\ st \in Nat \ {0} /\ \A j \in 1 .. st : url[j] \in Letters
    /\ Slashed(url, st)
    /\ UserUpTo(url, st + 3, a) /\ st + 3 <= a
    /\ HostUpTo(url, a, g) /\ g <= e /\ PortEnds(url, g, e)
    /\ Divided(url, Len(url), e, p, q)

LEMMA AcceptedCuts ==
    ASSUME NEW url \in Seq(Chars), NumbersApart(url), script_parse_url(url).ok
    PROVE  \E st, a, g, e, p, q : Cuts(url, st, a, g, e, p, q)
<1> DEFINE u == ScanUrl(url)
           h == ParseHost(url, u)
           ok == /\ u.state # "s_dead"
                 /\ u.data["SCHEMA"].len > 0 /\ u.data["HOST"].len > 0
                 /\ h.state \in HostEnds
                 /\ PortNumber(url, h.data) <= 65535
<1>0. Len(url) \in Nat
  OBVIOUS
<1>1. /\ u.state # "s_dead"
      /\ u.data["SCHEMA"].len > 0 /\ u.data["HOST"].len > 0
      /\ h.state \in HostEnds
      /\ PortNumber(url, h.data) <= 65535
  <2>1. script_parse_url(url) = [ok |-> ok, data |-> h.data]
    BY DEF script_parse_url
  <2> HIDE DEF ok, h
  <2>2. script_parse_url(url).ok = ok
    BY <2>1
  <2>3. ok
    BY <2>2, Zenon
  <2> QED BY <2>3 DEF ok, h
<1>2. Understood1(url, Len(url), u)
  BY UnderstoodByScan
<1>3. u.data \in [Fields -> FieldData]
  BY <1>0, UrlScanMoves DEF ScanUrl
<1> HIDE DEF u
<1>4. PastScheme(url, Len(url), u)
  <2>1. ~(0 > 0) /\ NoField.len = 0
    BY DEF NoField
  <2>2. u.data["SCHEMA"] # NoField /\ u.data["HOST"] # NoField
    BY <1>1, <2>1
  <2>3. "SCHEMA" \in Fields
    BY DEF Fields
  <2> QED BY <1>1, <1>2, <2>2, <2>3 DEF Understood1, InScheme
<1>5. PICK st, e, p, q :
         /\ Schemed(url, u, st) /\ Slashed(url, st) /\ st + 3 <= e
         /\ Divided(url, Len(url), e, p, q) /\ u.data["HOST"] = Span(st + 3 + 1, e)
  BY <1>4 DEF PastScheme
<1>6. st \in Nat \ {0} /\ e \in Nat /\ p \in e .. Len(url) /\ q \in p .. Len(url)
  BY <1>5 DEF Schemed, Divided
<1> DEFINE b == st + 3
<1>7. b \in Nat /\ b < e /\ e <= Len(url)
  <2>1. CASE b = e
    <3>1. Span(st + 3 + 1, e) = NoField
      BY <1>6, <2>1 DEF Span
    <3> QED BY <1>1, <1>5, <3>1 DEF NoField
  <2> QED BY <1>5, <1>6, <2>1
<1>8. u.data["HOST"] = Span(b + 1, e) /\ u.data["PORT"] = NoField
  BY <1>5 DEF Schemed
<1> HIDE DEF b
<1>9. Understood2(url, b, e, h)
  BY <1>3, <1>6, <1>7, <1>8, UnderstoodByHost
<1> HIDE DEF h
<1>10. PICK a : /\ UserUpTo(url, b, a) /\ b <= a /\ BehindUser(url, a, e, h)
                /\ IF h.state \in {"port_start", "port"} THEN PortUpTo(url, a, e, h)
                   ELSE h.data["PORT"] = NoField
  BY <1>1, <1>9 DEF Understood2, HostEnds
<1>11. a \in Nat
  BY <1>10 DEF UserUpTo
<1>12. \E g : HostUpTo(url, a, g) /\ g <= e /\ PortEnds(url, g, e)
  <2>1. CASE h.state \in {"host", "v6_end"}
    <3>1. HostUpTo(url, a, e)
      BY <1>10, <2>1 DEF BehindUser, HostUpTo
    <3>2. e <= e /\ ~(e > e)
      BY <1>6
    <3> QED BY <3>1, <3>2 DEF PortEnds
  <2>2. CASE h.state = "port"
    <3>1. PICK g : /\ HostUpTo(url, a, g) /\ g + 1 <= e /\ url[g + 1] = ":"
                   /\ \A j \in g + 2 .. e : url[j] \in Numbers
                   /\ e >= g + 2
                   /\ h.data["PORT"] = Span(g + 2, e)
      BY <1>10, <2>2 DEF PortUpTo
    <3>2. g \in Nat /\ g <= e
      BY <1>6, <3>1 DEF HostUpTo
    <3>3. e = g + 2
      <4>1. CASE e > g + 2
        <5>1. /\ g + 2 \in 1 .. Len(url) - 1 /\ g + 2 \in g + 2 .. e /\ g + 3 \in g + 2 .. e
              /\ g + 3 = (g + 2) + 1
          BY <1>0, <1>6, <1>7, <3>2, <4>1
        <5>2. url[g + 2] \in Numbers /\ url[(g + 2) + 1] \in Numbers
          BY <3>1, <5>1
        <5> QED BY <5>1, <5>2 DEF NumbersApart
      <4> QED BY <1>6, <3>1, <3>2, <4>1
    <3>4. url[e] \in Numbers
      BY <3>1, <3>2, <3>3
    <3>5. h.data["PORT"] = [off |-> e, len |-> 1]
      BY <3>1, <3>2, <3>3 DEF Span
    <3>6. PortNumber(url, h.data) = PortOf[url[e]]
      BY <3>5 DEF PortNumber
    <3> QED BY <1>1, <3>1, <3>2, <3>3, <3>4, <3>6 DEF PortEnds
  <2> QED BY <1>1, <2>1, <2>2 DEF HostEnds
<1>13. PICK g : HostUpTo(url, a, g) /\ g <= e /\ PortEnds(url, g, e)
  BY <1>12
<1>14. \A j \in 1 .. st : url[j] \in Letters
  BY <1>5 DEF Schemed
<1>15. Cuts(url, st, a, g, e, p, q)
  BY <1>5, <1>6, <1>10, <1>13, <1>14 DEF Cuts, b
<1> QED BY <1>15

(* What url has behind x, up to y.                                         *)
Slice(url, x, y) == SubSeq(url, x + 1, y)

LEMMA SliceIs ==
    ASSUME NEW url \in Seq(Chars), NEW x \in Nat, NEW y \in Nat, x <= y, y <= Len(url)
    PROVE  /\ Slice(url, x, y) \in Seq(Chars) /\ Len(Slice(url, x, y)) = y - x
           /\ \A j \in 1 .. y - x : Slice(url, x, y)[j] = url[x + j]
           /\ Slice(url, x, y) = <<>> <=> x = y
<1> DEFINE s == Slice(url, x, y)
<1>1. s \in Seq(Chars) /\ Len(s) = y - x
  BY DEF Slice
<1>2. \A j \in 1 .. y - x : s[j] = url[x + j]
  BY DEF Slice
<1> HIDE DEF s
<1>3. s = <<>> <=> Len(s) = 0
  BY <1>1
<1>4. Len(s) = 0 <=> x = y
  BY <1>1
<1> QED BY <1>1, <1>2, <1>3, <1>4 DEF s

LEMMA SliceIn ==
    ASSUME NEW url \in Seq(Chars), NEW x \in Nat, NEW y \in Nat, x <= y, y <= Len(url),
           NEW C, \A j \in x + 1 .. y : url[j] \in C
    PROVE  Slice(url, x, y) \in Seq(C)
<1> DEFINE s == Slice(url, x, y)
<1>1. s \in Seq(Chars) /\ Len(s) = y - x /\ \A j \in 1 .. y - x : s[j] = url[x + j]
  BY SliceIs
<1> HIDE DEF s
<1>2. ASSUME NEW j \in 1 .. Len(s) PROVE s[j] \in C
  <2>1. x + j \in x + 1 .. y /\ j \in 1 .. y - x
    BY <1>1
  <2> QED BY <1>1, <2>1
<1>3. s = [j \in 1 .. Len(s) |-> s[j]] /\ Len(s) \in Nat
  BY <1>1
<1>4. s \in [1 .. Len(s) -> C]
  BY <1>2, <1>3
<1>5. s \in Seq(C)
  BY <1>3, <1>4
<1> QED BY <1>5 DEF s

LEMMA SliceJoin ==
    ASSUME NEW url \in Seq(Chars), NEW x \in Nat, NEW y \in Nat, NEW z \in Nat,
           x <= y, y <= z, z <= Len(url)
    PROVE  Slice(url, x, y) \o Slice(url, y, z) = Slice(url, x, z)
<1> DEFINE s == Slice(url, x, y)
           t == Slice(url, y, z)
           w == Slice(url, x, z)
<1>0. Len(url) \in Nat /\ x <= y /\ y <= Len(url) /\ x <= z
  <2>1. Len(url) \in Nat
    OBVIOUS
  <2> QED BY <2>1
<1>1. s \in Seq(Chars) /\ Len(s) = y - x /\ \A j \in 1 .. y - x : s[j] = url[x + j]
  BY <1>0, SliceIs
<1>2. t \in Seq(Chars) /\ Len(t) = z - y /\ \A j \in 1 .. z - y : t[j] = url[y + j]
  BY <1>0, SliceIs
<1>3. w \in Seq(Chars) /\ Len(w) = z - x /\ \A j \in 1 .. z - x : w[j] = url[x + j]
  BY <1>0, SliceIs
<1> HIDE DEF s, t, w
<1>4. s \o t \in Seq(Chars) /\ Len(s \o t) = z - x
  <2>1. s \o t \in Seq(Chars) /\ Len(s \o t) = Len(s) + Len(t)
    BY <1>1, <1>2, AtAppend, Zenon
  <2>2. (y - x) + (z - y) = z - x
    OBVIOUS
  <2> QED BY <1>1, <1>2, <2>1, <2>2, Zenon
<1>5. ASSUME NEW j \in 1 .. z - x PROVE (s \o t)[j] = w[j]
  <2>1. CASE j <= y - x
    <3>1. (s \o t)[j] = s[j] /\ j \in 1 .. y - x
      BY <1>1, <1>2, <2>1
    <3> QED BY <1>1, <1>3, <3>1
  <2>2. CASE j > y - x
    <3>1. (s \o t)[j] = t[j - (y - x)] /\ j - (y - x) \in 1 .. z - y
      BY <1>1, <1>2, <2>2
    <3>2. y + (j - (y - x)) = x + j
      OBVIOUS
    <3> QED BY <1>2, <1>3, <3>1, <3>2
  <2>3. j <= y - x \/ j > y - x
    OBVIOUS
  <2> QED BY <2>1, <2>2, <2>3, Zenon
<1>6. s \o t = w
  <2> DEFINE r == s \o t
  <2>1. r \in Seq(Chars) /\ Len(r) = Len(w) /\ \A j \in 1 .. Len(r) : r[j] = w[j]
    BY <1>3, <1>4, <1>5, Zenon
  <2> HIDE DEF r
  <2>2. r = w
    BY <1>3, <2>1, SeqEqual
  <2> QED BY <2>2 DEF r
<1> QED BY <1>6 DEF s, t, w

LEMMA SliceEnds ==
    ASSUME NEW url \in Seq(Chars), NEW x \in Nat, NEW y \in Nat, x < y, y <= Len(url)
    PROVE  /\ Head(Slice(url, x, y)) = url[x + 1] /\ Tail(Slice(url, x, y)) = Slice(url, x + 1, y)
           /\ Last(Slice(url, x, y)) = url[y] /\ Front(Slice(url, x, y)) = Slice(url, x, y - 1)
           /\ y = x + 1 => Slice(url, x, y) = <<url[y]>>
<1> DEFINE s == Slice(url, x, y)
           t == Slice(url, x + 1, y)
           f == Slice(url, x, y - 1)
<1>0. Len(url) \in Nat /\ x <= y
  OBVIOUS
<1>1. s \in Seq(Chars) /\ Len(s) = y - x /\ \A j \in 1 .. y - x : s[j] = url[x + j]
  BY <1>0, SliceIs
<1>2. t \in Seq(Chars) /\ Len(t) = y - x - 1 /\ \A j \in 1 .. y - x - 1 : t[j] = url[x + j + 1]
  <2>1. PICK v \in Nat : v = x + 1
    OBVIOUS
  <2>2. v \in Nat /\ v <= y
    BY <2>1
  <2>8. y - v = y - x - 1
    BY <2>1
  <2>3. Slice(url, v, y) \in Seq(Chars)
    BY <1>0, <2>2, SliceIs, Zenon
  <2>6. Len(Slice(url, v, y)) = y - v
    BY <1>0, <2>2, SliceIs, Zenon
  <2>7. \A j \in 1 .. y - v : Slice(url, v, y)[j] = url[v + j]
    BY <1>0, <2>2, SliceIs, ZenonT(60)
  <2>4. t = Slice(url, v, y)
    BY <2>1
  <2>5. \A j \in 1 .. y - x - 1 : v + j = x + j + 1
    BY <2>1
  <2> HIDE DEF t
  <2> QED BY <2>3, <2>4, <2>5, <2>6, <2>7, <2>8
<1>3. f \in Seq(Chars) /\ Len(f) = y - x - 1 /\ \A j \in 1 .. y - x - 1 : f[j] = url[x + j]
  <2>1. PICK v \in Nat : v = y - 1
    OBVIOUS
  <2>2. v \in Nat /\ x <= v /\ v <= Len(url)
    BY <1>0, <2>1
  <2>8. v - x = y - x - 1
    BY <2>1
  <2>3. Slice(url, x, v) \in Seq(Chars)
    BY <2>2, SliceIs, Zenon
  <2>5. Len(Slice(url, x, v)) = v - x
    BY <2>2, SliceIs, Zenon
  <2>6. \A j \in 1 .. v - x : Slice(url, x, v)[j] = url[x + j]
    BY <2>2, SliceIs, Zenon
  <2>4. f = Slice(url, x, v)
    BY <2>1
  <2> HIDE DEF f
  <2> QED BY <2>3, <2>4, <2>5, <2>6, <2>8
<1> HIDE DEF s, t, f
<1>4. Head(s) = s[1] /\ s[1] = url[x + 1]
  BY <1>1
<1>5. Last(s) = s[Len(s)] /\ s[Len(s)] = url[y]
  <2>1. Last(s) = s[Len(s)]
    BY DEF Last
  <2>2. Len(s) \in 1 .. y - x /\ x + Len(s) = y
    BY <1>1
  <2> QED BY <1>1, <2>1, <2>2
<1>6. Tail(s) = t
  <2> DEFINE r == Tail(s)
  <2>1. r \in Seq(Chars) /\ Len(r) = y - x - 1 /\ \A j \in 1 .. y - x - 1 : r[j] = s[j + 1]
    BY <1>1
  <2>2. ASSUME NEW j \in 1 .. y - x - 1 PROVE s[j + 1] = t[j]
    <3>1. j + 1 \in 1 .. y - x /\ x + (j + 1) = x + j + 1
      OBVIOUS
    <3> QED BY <1>1, <1>2, <3>1
  <2> HIDE DEF r
  <2>3. r = t
    BY <1>2, <2>1, <2>2, SeqEqual
  <2> QED BY <2>3 DEF r
<1>7. Front(s) = f
  <2> DEFINE r == SubSeq(s, 1, Len(s) - 1)
  <2>1. r \in Seq(Chars) /\ Len(r) = y - x - 1 /\ \A j \in 1 .. y - x - 1 : r[j] = s[j]
    BY <1>1
  <2>2. ASSUME NEW j \in 1 .. y - x - 1 PROVE s[j] = f[j]
    BY <1>1, <1>3
  <2> HIDE DEF r
  <2>3. r = f
    BY <1>3, <2>1, <2>2, SeqEqual
  <2> QED BY <2>3 DEF r, Front
<1>8. y = x + 1 => s = <<url[y]>>
  <2> HAVE y = x + 1
  <2>1. url[y] \in Chars
    OBVIOUS
  <2>2. Len(s) = 1 /\ s[1] = url[y]
    BY <1>1
  <2>3. <<url[y]>> \in Seq(Chars) /\ Len(<<url[y]>>) = 1 /\ <<url[y]>>[1] = url[y]
    BY <2>1
  <2>4. \A j \in 1 .. 1 : s[j] = <<url[y]>>[j]
    BY <2>2, <2>3
  <2> QED BY <1>1, <2>2, <2>3, <2>4, SeqEqual
<1> QED BY <1>4, <1>5, <1>6, <1>7, <1>8 DEF s, t, f

LEMMA HostWritten ==
    ASSUME NEW url \in Seq(Chars), NEW a \in Nat, NEW g, HostUpTo(url, a, g), g <= Len(url)
    PROVE  \E host \in Seq(Chars) \ {<<>>} :
              \/ IsLiteral(host) /\ (<<"[">> \o host) \o <<"]">> = Slice(url, a, g)
              \/ host \in Seq(IsHostChar) /\ host = Slice(url, a, g)
<1>0. g \in Nat /\ a < g /\ a <= g /\ Len(url) \in Nat
  BY DEF HostUpTo
<1>1. CASE \A j \in a + 1 .. g : url[j] \in IsHostChar
  <2>1. Slice(url, a, g) \in Seq(IsHostChar)
    BY <1>0, <1>1, SliceIn
  <2>2. Slice(url, a, g) \in Seq(Chars) \ {<<>>}
    BY <1>0, SliceIs
  <2> QED BY <2>1, <2>2
<1>2. CASE /\ url[g] = "]"
          /\ \E mid : AddressUpTo(url, a, mid, g - 1) /\ (mid < g - 1 => mid + 1 < g - 1)
  <2>1. PICK mid : AddressUpTo(url, a, mid, g - 1) /\ (mid < g - 1 => mid + 1 < g - 1)
    BY <1>2
  <2>2. /\ mid \in Nat /\ a + 2 <= mid /\ mid <= g - 1 /\ url[a + 1] = "["
        /\ \A j \in a + 2 .. mid : url[j] \in IsHex \cup {":", "."}
        /\ mid < g - 1 => url[mid + 1] = "%" /\ \A j \in mid + 2 .. g - 1 : url[j] \in IsZoneChar
    BY <2>1 DEF AddressUpTo
  <2>3. PICK x \in Nat : x = a + 1
    BY <1>0
  <2>4. PICK y \in Nat : y = g - 1
    BY <1>0
  <2>5. x \in Nat /\ y \in Nat /\ a <= x /\ x < y /\ x <= y /\ y <= g /\ y <= Len(url)
    BY <1>0, <2>2, <2>3, <2>4
  <2> DEFINE host == Slice(url, x, y)
  <2>6. /\ host \in Seq(Chars) /\ Len(host) = y - x /\ \A j \in 1 .. y - x : host[j] = url[x + j]
        /\ host # <<>>
    <3>1. x # y
      BY <2>5
    <3> QED BY <2>5, <3>1, SliceIs
  <2> HIDE DEF host
  <2>7. IsLiteral(host)
    <3> DEFINE k == mid - x
    <3>0. k \in Nat /\ k \in 1 .. Len(host) /\ x + k = mid
      BY <2>2, <2>3, <2>4, <2>6
    <3>1. \A j \in 1 .. k : host[j] \in IsHex \cup {":", "."}
      <4> SUFFICES ASSUME NEW j \in 1 .. k PROVE host[j] \in IsHex \cup {":", "."}
        OBVIOUS
      <4>1. x + j \in a + 2 .. mid /\ j \in 1 .. y - x
        BY <2>2, <2>3, <2>4, <2>5
      <4> QED BY <2>2, <2>6, <4>1
    <3>2. k < Len(host) => /\ host[k + 1] = "%" /\ k + 1 < Len(host)
                           /\ \A j \in k + 2 .. Len(host) : host[j] \in IsZoneChar
      <4> HAVE k < Len(host)
      <4>1. Len(host) = y - x
        BY <2>6
      <4>2. mid < g - 1 /\ mid + 1 < g - 1 /\ k + 1 \in 1 .. y - x /\ x + (k + 1) = mid + 1
        BY <2>1, <2>2, <2>3, <2>4, <4>1
      <4>3. host[k + 1] = "%"
        BY <2>2, <2>6, <4>2
      <4>4. k + 1 < Len(host)
        BY <2>2, <2>3, <2>4, <4>1, <4>2
      <4>5. ASSUME NEW j \in k + 2 .. Len(host) PROVE host[j] \in IsZoneChar
        <5>1. x + j \in mid + 2 .. g - 1 /\ j \in 1 .. y - x
          BY <2>2, <2>3, <2>4, <3>0, <4>1
        <5>2. \A v \in mid + 2 .. g - 1 : url[v] \in IsZoneChar
          BY <2>2, <4>2
        <5> QED BY <2>6, <5>1, <5>2
      <4> QED BY <4>3, <4>4, <4>5
    <3> HIDE DEF k
    <3> QED BY <3>0, <3>1, <3>2 DEF IsLiteral
  <2>8. Slice(url, a, x) = <<"[">>
    BY <1>0, <2>2, <2>3, <2>5, SliceEnds
  <2>9. Slice(url, y, g) = <<"]">>
    <3>1. g = y + 1 /\ y < g
      BY <1>0, <2>4
    <3> QED BY <1>0, <1>2, <2>5, <3>1, SliceEnds
  <2>10. Slice(url, a, x) \o Slice(url, x, y) = Slice(url, a, y)
    BY <2>5, SliceJoin
  <2>11. Slice(url, a, y) \o Slice(url, y, g) = Slice(url, a, g)
    <3>1. a <= y
      BY <2>5
    <3> QED BY <1>0, <2>5, <3>1, SliceJoin
  <2>12. (<<"[">> \o host) \o <<"]">> = Slice(url, a, g)
    BY <2>8, <2>9, <2>10, <2>11, Zenon DEF host
  <2> QED BY <2>6, <2>7, <2>12
<1> QED BY <1>1, <1>2 DEF HostUpTo

(* port is written, behind its colon, as s.                                *)
IsPort(port, s) ==
    /\ port # <<>> => \E v \in Numbers : port = <<v>> /\ PortOf[v] <= 65535
    /\ s = IF port = <<>> THEN <<>> ELSE <<":">> \o port

LEMMA PortWritten ==
    ASSUME NEW url \in Seq(Chars), NEW g \in Nat, NEW e \in Nat, g <= e, e <= Len(url),
           PortEnds(url, g, e)
    PROVE  \E port \in Seq(Chars) : IsPort(port, Slice(url, g, e))
<1>1. CASE e = g
  <2>1. Slice(url, g, e) = <<>>
    BY <1>1, SliceIs
  <2>2. <<>> \in Seq(Chars)
    OBVIOUS
  <2>3. IsPort(<<>>, Slice(url, g, e))
    BY <2>1 DEF IsPort
  <2> QED BY <2>2, <2>3, Zenon
<1>2. CASE e > g
  <2>1. PICK x \in Nat : x = g + 1
    OBVIOUS
  <2>2. x \in Nat /\ g < x /\ g <= x /\ x < e /\ x <= e /\ x <= Len(url) /\ e = x + 1
    BY <1>2, <2>1 DEF PortEnds
  <2>3. url[x] = ":" /\ url[e] \in Numbers /\ PortOf[url[e]] <= 65535
    BY <1>2, <2>1 DEF PortEnds
  <2> DEFINE colon == <<":">>
             port  == <<url[e]>>
  <2>4. Slice(url, g, x) = colon
    BY <2>1, <2>2, <2>3, SliceEnds
  <2>5. Slice(url, x, e) = port
    BY <2>2, SliceEnds
  <2>6. Slice(url, g, x) \o Slice(url, x, e) = Slice(url, g, e)
    BY <2>2, SliceJoin
  <2>7. port \in Seq(Chars) /\ port # <<>>
    BY <2>3 DEF Chars, AlphaNum
  <2>8. \E v \in Numbers : port = <<v>> /\ PortOf[v] <= 65535
    BY <2>3
  <2> HIDE DEF port, colon
  <2>9. Slice(url, g, e) = colon \o port
    BY <2>4, <2>5, <2>6
  <2>10. IsPort(port, Slice(url, g, e))
    BY <2>7, <2>8, <2>9 DEF IsPort, colon
  <2> QED BY <2>7, <2>10, Zenon
<1> QED BY <1>1, <1>2

LEMMA SlashesWritten ==
    ASSUME NEW url \in Seq(Chars), NEW st \in Nat, st + 3 <= Len(url), Slashed(url, st)
    PROVE  Slice(url, st, st + 3) = <<":", "/", "/">>
<1> DEFINE s == Slice(url, st, st + 3)
<1>1. s \in Seq(Chars) /\ Len(s) = 3
  BY DEF Slice
<1>2. s[1] = ":" /\ s[2] = "/" /\ s[3] = "/"
  BY DEF Slice, Slashed
<1> HIDE DEF s
<1>3. s = <<s[1], s[2], s[3]>>
  BY <1>1
<1>4. s = <<":", "/", "/">>
  BY <1>2, <1>3, Zenon
<1> QED BY <1>4 DEF s

(* An accepted URL is well formed.                                         *)
LEMMA AcceptedWellFormed ==
    ASSUME NEW url \in Seq(Chars), NumbersApart(url), script_parse_url(url).ok
    PROVE  \E d : WellFormed(d) /\ Render(d) = url
<1>1. PICK st, a, g, e, p, q : Cuts(url, st, a, g, e, p, q)
  BY AcceptedCuts
<1>2. /\ st \in Nat \ {0} /\ \A j \in 1 .. st : url[j] \in Letters
      /\ Slashed(url, st)
      /\ UserUpTo(url, st + 3, a) /\ st + 3 <= a
      /\ HostUpTo(url, a, g) /\ g <= e /\ PortEnds(url, g, e)
      /\ Divided(url, Len(url), e, p, q)
  BY <1>1 DEF Cuts
<1>3. PICK N : N = Len(url)
  OBVIOUS
<1>4. /\ st \in Nat /\ a \in Nat /\ g \in Nat /\ e \in Nat /\ p \in Nat /\ q \in Nat /\ N \in Nat
      /\ 0 < st /\ st + 3 <= a /\ a < g /\ g <= e /\ e <= p /\ p <= q /\ q <= N
  BY <1>2, <1>3 DEF UserUpTo, HostUpTo, Divided
<1>5. PICK b : b = st + 3 /\ b \in Nat /\ st < b /\ b <= a
  BY <1>4
<1> DEFINE schema == Slice(url, 0, st)
           user   == Slice(url, b, a)
           path   == Slice(url, e, p)
           query  == Slice(url, p, q)
           rest   == Slice(url, q, N)
<1>6. schema \in Seq(Letters) \ {<<>>} /\ schema \in Seq(Chars)
  <2>1. /\ 0 \in Nat /\ 0 <= st /\ st <= Len(url) /\ st # 0
        /\ \A j \in 0 + 1 .. st : url[j] \in Letters
    BY <1>2, <1>3, <1>4
  <2> QED BY <1>4, <2>1, SliceIs, SliceIn
<1>7. user \in Seq(Chars) /\ (user # <<>> => Last(user) = "@" /\ Front(user) \in Seq(IsUserinfo))
  <2>0. b \in Nat /\ b <= a /\ a <= Len(url)
    BY <1>3, <1>4, <1>5
  <2>1. user \in Seq(Chars) /\ (user # <<>> => a > b)
    <3>1. user \in Seq(Chars) /\ (user = <<>> <=> b = a)
      BY <1>4, <2>0, SliceIs, Zenon
    <3> QED BY <1>4, <2>0, <3>1
  <2>2. ASSUME a > b PROVE Last(user) = "@" /\ Front(user) \in Seq(IsUserinfo)
    <3>1. url[a] = "@" /\ \A j \in b + 1 .. a - 1 : url[j] \in IsUserinfo
      BY <1>2, <1>4, <1>5, <2>2 DEF UserUpTo
    <3>2. Last(user) = url[a] /\ Front(user) = Slice(url, b, a - 1)
      BY <1>4, <2>0, <2>2, SliceEnds
    <3>3. PICK v : v = a - 1 /\ v \in Nat /\ b <= v /\ v <= Len(url)
      BY <1>3, <1>4, <2>0, <2>2
    <3>4. Slice(url, b, v) \in Seq(IsUserinfo)
      BY <2>0, <3>1, <3>3, SliceIn
    <3> QED BY <3>1, <3>2, <3>3, <3>4
  <2> QED BY <2>1, <2>2
<1>8. path \in Seq(Chars)
      /\ (path # <<>> => p > e /\ Head(path) = "/" /\ Tail(path) \in Seq(UrlChars))
      /\ (p > e => path # <<>>)
  <2>0. e <= p /\ p <= Len(url)
    BY <1>3, <1>4
  <2>1. path \in Seq(Chars) /\ (path # <<>> <=> p > e)
    <3>1. path \in Seq(Chars) /\ (path = <<>> <=> e = p)
      BY <1>4, <2>0, SliceIs, Zenon
    <3> QED BY <1>4, <2>0, <3>1
  <2>2. ASSUME p > e PROVE Head(path) = "/" /\ Tail(path) \in Seq(UrlChars)
    <3>1. url[e + 1] = "/" /\ \A j \in e + 2 .. p : url[j] \in UrlChars
      BY <1>2, <2>2 DEF Divided
    <3>2. Head(path) = url[e + 1] /\ Tail(path) = Slice(url, e + 1, p)
      BY <1>4, <2>0, <2>2, SliceEnds
    <3>3. PICK v : v = e + 1 /\ v \in Nat /\ v <= p /\ v + 1 = e + 2
      BY <1>4, <2>2
    <3>4. Slice(url, v, p) \in Seq(UrlChars)
      BY <1>4, <2>0, <3>1, <3>3, SliceIn
    <3> QED BY <3>1, <3>2, <3>3, <3>4
  <2> QED BY <2>1, <2>2
<1>9. query \in Seq(Chars)
      /\ (query # <<>> => q > p /\ Head(query) = "?" /\ Tail(query) \in Seq(UrlChars \cup {"?"}))
      /\ (q > p => query # <<>>)
  <2>0. p <= q /\ q <= Len(url)
    BY <1>3, <1>4
  <2>1. query \in Seq(Chars) /\ (query # <<>> <=> q > p)
    <3>1. query \in Seq(Chars) /\ (query = <<>> <=> p = q)
      BY <1>4, <2>0, SliceIs, Zenon
    <3> QED BY <1>4, <2>0, <3>1
  <2>2. ASSUME q > p PROVE Head(query) = "?" /\ Tail(query) \in Seq(UrlChars \cup {"?"})
    <3>1. url[p + 1] = "?" /\ \A j \in p + 2 .. q : url[j] \in UrlChars \cup {"?"}
      BY <1>2, <2>2 DEF Divided
    <3>2. Head(query) = url[p + 1] /\ Tail(query) = Slice(url, p + 1, q)
      BY <1>4, <2>0, <2>2, SliceEnds
    <3>3. PICK v : v = p + 1 /\ v \in Nat /\ v <= q /\ v + 1 = p + 2
      BY <1>4, <2>2
    <3>4. Slice(url, v, q) \in Seq(UrlChars \cup {"?"})
      BY <1>4, <2>0, <3>1, <3>3, SliceIn
    <3> QED BY <3>1, <3>2, <3>3, <3>4
  <2> QED BY <2>1, <2>2
<1>10. rest \in Seq(Chars)
       /\ (rest # <<>> => /\ q > e /\ Head(rest) = "#"
                          /\ Tail(rest) \in Seq(UrlChars \cup {"?", "#"}))
  <2>0. q <= N /\ N <= Len(url)
    BY <1>3, <1>4
  <2>1. rest \in Seq(Chars) /\ (rest # <<>> <=> N > q)
    <3>1. rest \in Seq(Chars) /\ (rest = <<>> <=> q = N)
      BY <1>4, <2>0, SliceIs, Zenon
    <3> QED BY <1>4, <2>0, <3>1
  <2>2. ASSUME N > q
        PROVE  q > e /\ Head(rest) = "#" /\ Tail(rest) \in Seq(UrlChars \cup {"?", "#"})
    <3>1. q > e /\ url[q + 1] = "#" /\ \A j \in q + 2 .. N : url[j] \in UrlChars \cup {"?", "#"}
      BY <1>2, <1>3, <2>2 DEF Divided
    <3>2. Head(rest) = url[q + 1] /\ Tail(rest) = Slice(url, q + 1, N)
      BY <1>4, <2>0, <2>2, SliceEnds
    <3>3. PICK v : v = q + 1 /\ v \in Nat /\ v <= N /\ v + 1 = q + 2
      BY <1>4, <2>2
    <3>4. Slice(url, v, N) \in Seq(UrlChars \cup {"?", "#"})
      BY <1>4, <2>0, <3>1, <3>3, SliceIn
    <3> QED BY <3>1, <3>2, <3>3, <3>4
  <2> QED BY <2>1, <2>2
<1>11. PICK host \in Seq(Chars) \ {<<>>} :
          \/ IsLiteral(host) /\ (<<"[">> \o host) \o <<"]">> = Slice(url, a, g)
          \/ host \in Seq(IsHostChar) /\ host = Slice(url, a, g)
  <2>1. g <= Len(url)
    BY <1>3, <1>4
  <2> QED BY <1>2, <1>4, <2>1, HostWritten
<1>12. PICK port \in Seq(Chars) : IsPort(port, Slice(url, g, e))
  <2>1. e <= Len(url) /\ g <= e
    BY <1>3, <1>4
  <2> QED BY <1>2, <1>4, <2>1, PortWritten
<1>13. \E L \in BOOLEAN :
          /\ IF L THEN IsLiteral(host) ELSE host \in Seq(IsHostChar)
          /\ (IF L THEN (<<"[">> \o host) \o <<"]">> ELSE host) = Slice(url, a, g)
  <2>1. CASE IsLiteral(host) /\ (<<"[">> \o host) \o <<"]">> = Slice(url, a, g)
    <3> WITNESS TRUE \in BOOLEAN
    <3> QED BY <2>1
  <2>2. CASE host \in Seq(IsHostChar) /\ host = Slice(url, a, g)
    <3> WITNESS FALSE \in BOOLEAN
    <3> QED BY <2>2
  <2> QED BY <1>11, <2>1, <2>2
<1>14. PICK L \in BOOLEAN :
          /\ IF L THEN IsLiteral(host) ELSE host \in Seq(IsHostChar)
          /\ (IF L THEN (<<"[">> \o host) \o <<"]">> ELSE host) = Slice(url, a, g)
  BY <1>13
<1>15. Slice(url, st, b) = <<":", "/", "/">>
  <2>1. st + 3 <= Len(url)
    BY <1>3, <1>4
  <2> QED BY <1>2, <1>4, <1>5, <2>1, SlashesWritten
<1> DEFINE hostPart == IF L THEN (<<"[">> \o host) \o <<"]">> ELSE host
           portPart == IF port = <<>> THEN <<>> ELSE <<":">> \o port
<1>16. hostPart = Slice(url, a, g) /\ portPart = Slice(url, g, e)
  <2>1. hostPart = Slice(url, a, g)
    BY <1>14
  <2>2. portPart = Slice(url, g, e)
    BY <1>12 DEF IsPort
  <2> QED BY <2>1, <2>2
<1>17. Slice(url, 0, N) = url
  BY <1>3 DEF Slice
<1> HIDE DEF schema, user, path, query, rest, hostPart, portPart
<1>18. url = ((((((schema \o <<":", "/", "/">>) \o user) \o hostPart) \o portPart) \o path)
                 \o query) \o rest
  <2>0. 0 \in Nat /\ N <= Len(url) /\ Len(url) \in Nat
    BY <1>3
  <2>1. \A x, y, z \in Nat : x <= y /\ y <= z /\ z <= Len(url)
           => Slice(url, x, y) \o Slice(url, y, z) = Slice(url, x, z)
    BY SliceJoin
  <2>2. /\ 0 <= st /\ st <= b /\ b <= Len(url) /\ 0 <= b /\ b <= a /\ a <= Len(url)
        /\ 0 <= a /\ a <= g /\ g <= Len(url) /\ 0 <= g /\ g <= e /\ e <= Len(url)
        /\ 0 <= e /\ e <= p /\ p <= Len(url) /\ 0 <= p /\ p <= q /\ q <= Len(url)
        /\ 0 <= q /\ q <= N
    BY <1>3, <1>4, <1>5
  <2>3. schema \o <<":", "/", "/">> = Slice(url, 0, b)
    <3>1. Slice(url, 0, st) \o Slice(url, st, b) = Slice(url, 0, b)
      BY <1>4, <1>5, <2>0, <2>1, <2>2, Zenon
    <3> QED BY <1>15, <3>1, Zenon DEF schema
  <2>4. Slice(url, 0, b) \o user = Slice(url, 0, a)
    BY <1>4, <1>5, <2>0, <2>1, <2>2, Zenon DEF user
  <2>5. Slice(url, 0, a) \o hostPart = Slice(url, 0, g)
    BY <1>4, <1>16, <2>0, <2>1, <2>2, Zenon
  <2>6. Slice(url, 0, g) \o portPart = Slice(url, 0, e)
    BY <1>4, <1>16, <2>0, <2>1, <2>2, Zenon
  <2>7. Slice(url, 0, e) \o path = Slice(url, 0, p)
    BY <1>4, <2>0, <2>1, <2>2, Zenon DEF path
  <2>8. Slice(url, 0, p) \o query = Slice(url, 0, q)
    BY <1>4, <2>0, <2>1, <2>2, Zenon DEF query
  <2>9. Slice(url, 0, q) \o rest = Slice(url, 0, N)
    BY <1>4, <2>0, <2>1, <2>2, Zenon DEF rest
  <2> QED BY <1>17, <2>3, <2>4, <2>5, <2>6, <2>7, <2>8, <2>9, Zenon
<1> DEFINE d == [schema |-> schema, userinfo |-> user, literal |-> L, host |-> host,
                 port |-> port, path |-> path, query |-> query, fragment |-> rest]
<1>19. /\ d.schema = schema /\ d.userinfo = user /\ d.host = host /\ d.port = port
       /\ d.path = path /\ d.query = query /\ d.fragment = rest
  OBVIOUS
<1>20. d.literal = L
  OBVIOUS
<1> HIDE DEF d
<1>21. Render(d) = url
  BY <1>18, <1>19, <1>20, Zenon DEF Render, hostPart, portPart
<1>22. WellFormed(d)
  <2>1. d.schema \in Seq(Letters) \ {<<>>}
    BY <1>6, <1>19
  <2>2. d.userinfo # <<>> => Last(d.userinfo) = "@" /\ Front(d.userinfo) \in Seq(IsUserinfo)
    BY <1>7, <1>19
  <2>3. /\ d.literal \in BOOLEAN /\ d.host \in Seq(Chars) \ {<<>>}
        /\ IF d.literal THEN IsLiteral(d.host) ELSE d.host \in Seq(IsHostChar)
    BY <1>11, <1>14, <1>19, <1>20, Zenon
  <2>4. d.port # <<>> => \E v \in Numbers : d.port = <<v>> /\ PortOf[v] <= 65535
    BY <1>12, <1>19 DEF IsPort
  <2>5. d.path # <<>> => Head(d.path) = "/" /\ Tail(d.path) \in Seq(UrlChars)
    BY <1>8, <1>19
  <2>6. d.query # <<>> => Head(d.query) = "?" /\ Tail(d.query) \in Seq(UrlChars \cup {"?"})
    BY <1>9, <1>19
  <2>7. d.fragment # <<>> =>
           /\ d.path # <<>> \/ d.query # <<>>
           /\ Head(d.fragment) = "#" /\ Tail(d.fragment) \in Seq(UrlChars \cup {"?", "#"})
    <3>1. q > e => p > e \/ q > p
      BY <1>4
    <3> QED BY <1>8, <1>9, <1>10, <1>19, <3>1
  <2>8. <<d.userinfo, d.path, d.query, d.fragment>> \in Seq(Seq(Chars))
    BY <1>7, <1>8, <1>9, <1>10, <1>19
  <2> QED BY <2>1, <2>2, <2>3, <2>4, <2>5, <2>6, <2>7, <2>8 DEF WellFormed
<1> QED BY <1>21, <1>22

---------------------------------------------------------------------------
(* What main makes of the command line, until it resolves the service.     *)

ArgsInv ==
    /\ line \in CommandLines
    /\ at = "usage" => ~OptionsOK(line) \/ ~script_parse_url(line.url).ok
    /\ at = "resolve" =>
          /\ OptionsOK(line) /\ script_parse_url(line.url).ok
          /\ cfg = Target(line.url, script_parse_url(line.url).data)

LEMMA ArgsInvNext == ArgsInv /\ [MainNext]_allVars => ArgsInv'
<1> SUFFICES ASSUME ArgsInv, [MainNext]_allVars PROVE ArgsInv'
  OBVIOUS
<1>1. CASE ParseArgs
  <2> DEFINE parts == script_parse_url(line.url)
  <2>1. line' = line /\ line \in CommandLines
    BY <1>1 DEF ParseArgs, ArgsInv
  <2>2. CASE OptionsOK(line) /\ parts.ok
    <3>1. at' = "resolve" /\ cfg' = Target(line.url, parts.data)
      BY <1>1, <2>2 DEF ParseArgs
    <3> HIDE DEF parts
    <3> QED BY <2>1, <2>2, <3>1 DEF ArgsInv, parts
  <2>3. CASE ~(OptionsOK(line) /\ parts.ok)
    <3>1. at' = "usage"
      BY <1>1, <2>3 DEF ParseArgs
    <3> HIDE DEF parts
    <3> QED BY <2>1, <2>3, <3>1 DEF ArgsInv, parts
  <2> QED BY <2>2, <2>3
<1>2. CASE UNCHANGED <<line, cfg>> /\ (at' = at \/ at' \notin {"usage", "resolve"})
  BY <1>2 DEF ArgsInv
<1>3. MainNext => \/ ParseArgs
                  \/ UNCHANGED <<line, cfg>> /\ (at' = at \/ at' \notin {"usage", "resolve"})
  <2>1. MainStep => UNCHANGED <<line, cfg>> /\ (at' = at \/ at' \notin {"usage", "resolve"})
    BY DEF MainStep, Resolve, Create, InstallHandler, SleepEnds, Stop, Join, Interval, Correct,
           Outer, Inner, InnerEnds, OuterEnds, mvars
  <2>2. InterruptSleep \/ InterruptElsewhere \/ Done
           => UNCHANGED <<line, cfg>> /\ (at' = at \/ at' \notin {"usage", "resolve"})
    BY DEF InterruptSleep, InterruptElsewhere, Done, allVars, mvars
  <2>3. ASSUME NEW t \in Threads,
               Recording(t) \/ ThreadEnds(t) \/ \E v \in line.values : Response(t, v)
        PROVE  UNCHANGED <<line, cfg, at>>
    BY <2>3 DEF Recording, ThreadEnds, Response, mvars
  <2> QED BY <2>1, <2>2, <2>3 DEF MainNext
<1>4. CASE UNCHANGED allVars
  BY <1>4 DEF allVars, mvars, ArgsInv
<1> QED BY <1>1, <1>2, <1>3, <1>4

(* wrk understands every URL, however long, as the grammar does: it takes  *)
(* the service, the Host header and the path from it that any well-formed  *)
(* way to write it means, and refuses it only when there is none           *)
(* (wrk.c:70-73, script.c:62-79).  "means" has to hold one of the ways     *)
(* when there are any.                                                     *)
THEOREM UrlUnderstoodCorrect ==
    ASSUME \A l \in CommandLines : (\E d : WellFormed(d) /\ Render(d) = l.url) => l.means # {}
    PROVE  MainSpec => []UrlUnderstood
<1>1. MainInit => ArgsInv
  BY DEF MainInit, ArgsInv
<1>2. ArgsInv => UrlUnderstood
  <2> SUFFICES ASSUME ArgsInv PROVE UrlUnderstood
    OBVIOUS
  <2> DEFINE url == line.url
             parts == script_parse_url(url)
  <2>1. /\ line \in CommandLines /\ url \in Seq(Chars) /\ NumbersApart(url)
        /\ \A d \in line.means : WellFormed(d) /\ Render(d) = url
        /\ (\E d : WellFormed(d) /\ Render(d) = url) => line.means # {}
    BY WrkMainAssumption DEF ArgsInv
  <2>2. \A d \in line.means : parts.ok /\ Target(url, parts.data) = Meant(d)
    BY <2>1, WellFormedAccepted
  <2>3. parts.ok => line.means # {}
    BY <2>1, AcceptedWellFormed
  <2>4. /\ at = "usage" => ~OptionsOK(line) \/ ~parts.ok
        /\ at = "resolve" => OptionsOK(line) /\ parts.ok /\ cfg = Target(url, parts.data)
    BY DEF ArgsInv
  <2> HIDE DEF parts, url
  <2> QED BY <2>2, <2>3, <2>4 DEF UrlUnderstood
<1> QED BY <1>1, <1>2, ArgsInvNext, PTL DEF MainSpec
===========================================================================
