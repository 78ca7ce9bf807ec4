----------------------------- MODULE KcovProofs -----------------------------
(***************************************************************************)
(* What holds of the coverage library for every number of threads and      *)
(* descriptors and every build: the types; and, where signal handlers make *)
(* no wrapped calls, that descriptors are kept apart, that a call is       *)
(* traced exactly when it is selected, and that its trace is logged.       *)
(***************************************************************************)
EXTENDS Kcov, SequenceTheorems, WellFoundedInduction, TLAPS

(* Where a thread is in a wrapper whose call is selected.                  *)
Inside(t)    == frames[t] # <<>> /\ Top(t).traced
HasDevice(t) == Inside(t) /\ Top(t).at # "open"
HasLog(t)    == Inside(t) /\ Top(t).at \notin {"open", "size", "log", "closeDevice"}
IsTraced(t)  == Inside(t) /\ Top(t).at \in {"call", "disable"}

(* One wrapper at a time; a call is passed through or goes the whole way.  *)
FramesInv(t) ==
    /\ Len(frames[t]) <= 1
    /\ frames[t] # <<>> =>
         /\ ~Top(t).traced => Top(t).at = "call"
         /\ Top(t).call # "ioctl" => (Top(t).traced <=> Compare(Top(t).call))

(* The thread's device and log are exactly where its variables say.        *)
FilesInv(t) ==
    /\ HasDevice(t) => kcov_device[t] \in Fds /\ file[kcov_device[t]] = <<"kcov", t>>
    /\ HasLog(t) => kcov_log[t] \in Fds /\ file[kcov_log[t]] = <<"log", t>>
    /\ \A fd \in Fds : /\ file[fd] = <<"kcov", t>> => HasDevice(t) /\ fd = kcov_device[t]
                       /\ file[fd] = <<"log", t>> => HasLog(t) /\ fd = kcov_log[t]

(* The kernel traces the thread from "enable" to "disable", into its own   *)
(* device, whose buffer is mapped until after the dump.                    *)
TracingInv(t) ==
    /\ tracing[t] = IF IsTraced(t) THEN kcov_device[t] ELSE Unset
    /\ Inside(t) /\ Top(t).at \in {"enable", "call", "disable", "dump", "unmap"}
         => kcov_buf[t] = "mapped"

(* The buffer begins with the call, and is not all of what is dumped.      *)
TraceInv(t) == Inside(t) =>
    /\ Top(t).at = "call" => trace[t] = <<>>
    /\ Top(t).at = "disable" => Len(trace[t]) = 1 /\ trace[t][1] = Top(t).call
    /\ Top(t).at = "dump" => Len(trace[t]) >= 2 /\ trace[t][1] = Top(t).call
    /\ Top(t).at \in {"unmap", "closeLog", "closeDevice"} => Top(t).call \in logged

ThreadInv(t) == FramesInv(t) /\ FilesInv(t) /\ TracingInv(t) /\ TraceInv(t)

(* The invariant: of each thread, in the builds where no handler interrupts*)
(* a wrapper with another one; the process ends as it runs out of numbers. *)
IInv ==
    /\ TypeOK
    /\ ~build.signals => process # "crashed" /\ \A t \in Threads : ThreadInv(t)

---------------------------------------------------------------------------
(* Operators of the model.                                                 *)

LEMMA UnsetIsNoDescriptor == Unset \notin Fds
BY KcovAssumption DEF Unset

(* A set of natural numbers that is not empty has a smallest.              *)
LEMMA LowestIsFree == Free # {} => Lowest \in Free
<1> SUFFICES ASSUME Free # {}
             PROVE  \E fd \in Free : \A f \in Free : fd <= f
  BY DEF Lowest
<1> DEFINE Below == OpToRel(<, Nat)
<1>1. IsWellFoundedOn(Below, Nat)
  BY NatLessThanWellFounded
<1>2. \A k, i \in Nat : k < i => <<k, i>> \in Below
  BY DEF OpToRel
<1>3. Free \subseteq Nat
  BY KcovAssumption DEF Free
<1> HIDE DEF Below
<1>4. PICK fd \in Free : \A f \in Free : ~(<<f, fd>> \in Below)
  BY <1>1, <1>3, WFMin
<1>5. ASSUME NEW f \in Free
      PROVE  fd <= f
  <2>1. f \in Nat /\ fd \in Nat /\ ~(f < fd)
    BY <1>2, <1>3, <1>4, Zenon
  <2> QED BY <2>1
<1> QED BY <1>5

(* The place of the innermost wrapper changes, or it returns.              *)
LEMMA GotoTop ==
    ASSUME frames \in [Threads -> Seq(Frame)], NEW t \in Threads, frames[t] # <<>>,
           NEW place \in Places, Goto(t, place)
    PROVE  /\ frames' \in [Threads -> Seq(Frame)]
           /\ frames'[t] # <<>> /\ Len(frames'[t]) = Len(frames[t])
           /\ Top(t)' = [Top(t) EXCEPT !.at = place]
           /\ \A u \in Threads \ {t} : frames'[u] = frames[u]
<1> DEFINE n == Len(frames[t])
           f == [Top(t) EXCEPT !.at = place]
<1>1. n \in 1 .. n /\ frames[t] \in Seq(Frame) /\ Top(t) \in Frame
  BY DEF Top
<1>2. f \in Frame
  BY <1>1 DEF Frame
<1>3. frames' = [frames EXCEPT ![t] = [frames[t] EXCEPT ![n] = f]]
  BY DEF Goto, Top
<1> HIDE DEF f
<1>4. [frames[t] EXCEPT ![n] = f] \in Seq(Frame)
  BY <1>1, <1>2
<1> QED BY <1>1, <1>3, <1>4 DEF Top, f

LEMMA PopTop ==
    ASSUME frames \in [Threads -> Seq(Frame)], NEW t \in Threads, frames[t] # <<>>,
           Pop(t)
    PROVE  /\ frames' \in [Threads -> Seq(Frame)]
           /\ Len(frames'[t]) = Len(frames[t]) - 1
           /\ \A u \in Threads \ {t} : frames'[u] = frames[u]
<1>1. Len(frames[t]) \in Nat \ {0}
  OBVIOUS
<1> DEFINE s == SubSeq(frames[t], 1, Len(frames[t]) - 1)
<1>2. s \in Seq(Frame) /\ Len(s) = Len(frames[t]) - 1
  <2> DEFINE n == Len(frames[t]) - 1
  <2>1. n \in Nat /\ \A i \in 1 .. n : frames[t][i] \in Frame
    BY <1>1
  <2> HIDE DEF n
  <2>2. /\ SubSeq(frames[t], 1, n) \in Seq(Frame)
        /\ Len(SubSeq(frames[t], 1, n)) = IF 1 <= n THEN n - 1 + 1 ELSE 0
    <3>1. 1 \in Int /\ n \in Int
      BY <2>1
    <3> QED BY <2>1, <3>1, SubSeqProperties
  <2>3. (IF 1 <= n THEN n - 1 + 1 ELSE 0) = n
    BY <2>1
  <2>4. SubSeq(frames[t], 1, n) \in Seq(Frame) /\ Len(SubSeq(frames[t], 1, n)) = n
    BY <2>2, <2>3
  <2> QED BY <2>4, Zenon DEF n, s
<1>3. frames' = [frames EXCEPT ![t] = s]
  BY DEF Pop
<1> HIDE DEF s
<1> QED BY <1>2, <1>3

(* A wrapper that is entered is the innermost.                             *)
LEMMA AppendTop ==
    ASSUME NEW S, NEW s \in Seq(S), NEW f \in S
    PROVE  /\ Append(s, f) \in Seq(S) /\ Append(s, f) # <<>>
           /\ (s = <<>> => Len(Append(s, f)) = 1)
           /\ Append(s, f)[Len(Append(s, f))] = f
<1>1. /\ Append(s, f) \in Seq(S)
      /\ Append(s, f) # <<>>
      /\ Len(Append(s, f)) = Len(s) + 1
      /\ Append(s, f)[Len(s) + 1] = f
  BY AppendProperties
<1>2. s = <<>> => Len(s) + 1 = 1
  OBVIOUS
<1> QED BY <1>1, <1>2, Zenon

LEMMA WrappedTyped ==
    ASSUME NEW call \in Calls, NEW maker \in Makers, NEW traced \in BOOLEAN
    PROVE  Wrapped(call, maker, traced) \in Frame
BY DEF Wrapped, Frame, Places

(* The library's own call is pushed on a wrapper that goes on to "dump".   *)
LEMMA ReportTop ==
    ASSUME frames \in [Threads -> Seq(Frame)], NEW t \in Threads, frames[t] # <<>>,
           NEW f \in Frame,
           frames' = [frames EXCEPT ![t] = Append([@ EXCEPT ![Len(@)].at = "dump"], f)]
    PROVE  frames' \in [Threads -> Seq(Frame)]
<1> DEFINE n == Len(frames[t])
           g == [Top(t) EXCEPT !.at = "dump"]
<1>1. n \in 1 .. n /\ frames[t] \in Seq(Frame) /\ Top(t) \in Frame
  BY DEF Top
<1>2. g \in Frame
  BY <1>1 DEF Frame, Places
<1>3. frames' = [frames EXCEPT ![t] = Append([frames[t] EXCEPT ![n] = g], f)]
  BY DEF Top
<1> HIDE DEF g
<1> DEFINE s == [frames[t] EXCEPT ![n] = g]
<1>4. s \in Seq(Frame)
  BY <1>1, <1>2
<1> HIDE DEF s
<1>5. Append(s, f) \in Seq(Frame)
  BY <1>4, AppendTop
<1> QED BY <1>3, <1>5 DEF s

(* The buffer keeps what was in it, and the first of what is added.        *)
LEMMA TracedSpec ==
    ASSUME NEW S, NEW entries \in Seq(S), NEW more \in Seq(S)
    PROVE  /\ Traced(entries, more) \in Seq(S)
           /\ Len(Traced(entries, more)) =
                IF Len(entries) + Len(more) <= BufSize THEN Len(entries) + Len(more) ELSE BufSize
           /\ \A i \in 1 .. Len(Traced(entries, more)) : Traced(entries, more)[i] =
                IF i <= Len(entries) THEN entries[i] ELSE more[i - Len(entries)]
<1> DEFINE all == entries \o more
           n   == IF Len(all) <= BufSize THEN Len(all) ELSE BufSize
<1>1. /\ all \in Seq(S) /\ Len(all) = Len(entries) + Len(more)
      /\ \A i \in 1 .. Len(entries) + Len(more) : all[i] =
           IF i <= Len(entries) THEN entries[i] ELSE more[i - Len(entries)]
  BY ConcatProperties
<1> HIDE DEF all
<1>2. n \in Nat /\ n <= Len(all) /\ \A i \in 1 .. n : all[i] \in S
  BY <1>1, KcovAssumption
<1>3. Traced(entries, more) = SubSeq(all, 1, n)
  BY DEF Traced, all
<1> HIDE DEF n
<1>4. /\ SubSeq(all, 1, n) \in Seq(S)
      /\ Len(SubSeq(all, 1, n)) = IF 1 <= n THEN n - 1 + 1 ELSE 0
      /\ \A i \in 1 .. n - 1 + 1 : SubSeq(all, 1, n)[i] = all[1 + i - 1]
  <2>1. 1 \in Int /\ n \in Int
    BY <1>2
  <2> QED BY <1>2, <2>1, SubSeqProperties
<1>5. /\ (IF 1 <= n THEN n - 1 + 1 ELSE 0) = n /\ n - 1 + 1 = n
      /\ \A i \in 1 .. n : 1 + i - 1 = i /\ i \in 1 .. Len(all)
  BY <1>1, <1>2
<1>6. /\ Traced(entries, more) \in Seq(S) /\ Len(Traced(entries, more)) = n
      /\ \A i \in 1 .. n : Traced(entries, more)[i] = all[i]
  BY <1>3, <1>4, <1>5
<1> QED BY <1>1, <1>5, <1>6 DEF n

(* There is room for the call and for the beginning of KIODISABLE.         *)
LEMMA TraceBegins ==
    ASSUME NEW call \in Calls, NEW entries \in Seq(Calls \cup {"disable"})
    PROVE  /\ entries = <<>> =>
                 /\ Len(Traced(entries, <<call>>)) = 1
                 /\ Traced(entries, <<call>>)[1] = call
           /\ Len(entries) = 1 =>
                 /\ Len(Traced(entries, <<"disable", "disable">>)) >= 2
                 /\ Traced(entries, <<"disable", "disable">>)[1] = entries[1]
<1>1. ASSUME entries = <<>>
      PROVE  /\ Len(Traced(entries, <<call>>)) = 1
             /\ Traced(entries, <<call>>)[1] = call
  <2> DEFINE more == <<call>>
  <2>1. more \in Seq(Calls \cup {"disable"}) /\ Len(more) = 1 /\ more[1] = call
    OBVIOUS
  <2> HIDE DEF more
  <2>2. Len(entries) = 0
    BY <1>1
  <2> DEFINE both == Traced(entries, more)
  <2>3. /\ Len(both) = IF Len(entries) + Len(more) <= BufSize
                       THEN Len(entries) + Len(more) ELSE BufSize
        /\ \A i \in 1 .. Len(both) : both[i] =
             IF i <= Len(entries) THEN entries[i] ELSE more[i - Len(entries)]
    BY <2>1, TracedSpec
  <2> HIDE DEF both
  <2>4. Len(both) = 1
    BY <2>1, <2>2, <2>3, KcovAssumption
  <2>5. both[1] = more[1]
    BY <2>2, <2>3, <2>4
  <2> QED BY <2>1, <2>4, <2>5 DEF both, more
<1>2. ASSUME Len(entries) = 1
      PROVE  /\ Len(Traced(entries, <<"disable", "disable">>)) >= 2
             /\ Traced(entries, <<"disable", "disable">>)[1] = entries[1]
  <2> DEFINE more == <<"disable", "disable">>
  <2>1. more \in Seq(Calls \cup {"disable"}) /\ Len(more) = 2
    OBVIOUS
  <2> HIDE DEF more
  <2> DEFINE both == Traced(entries, more)
  <2>2. /\ Len(both) = IF Len(entries) + Len(more) <= BufSize
                       THEN Len(entries) + Len(more) ELSE BufSize
        /\ \A i \in 1 .. Len(both) : both[i] =
             IF i <= Len(entries) THEN entries[i] ELSE more[i - Len(entries)]
    BY <2>1, TracedSpec
  <2> HIDE DEF both
  <2>3. Len(both) \in Nat /\ Len(both) >= 2
    BY <1>2, <2>1, <2>2, KcovAssumption
  <2>4. both[1] = entries[1]
    BY <1>2, <2>2, <2>3
  <2> QED BY <2>3, <2>4 DEF both, more
<1> QED BY <1>1, <1>2

---------------------------------------------------------------------------
(* The types.  The variables of every build keep them.                     *)

LEMMA TypeCorrectInit == Init => TypeOK
<1> SUFFICES ASSUME Init
             PROVE  TypeOK
  OBVIOUS
<1>1. \A t \in Threads : frames[t] = <<>>
  BY DEF Init
<1> QED BY <1>1 DEF Init, TypeOK, Files

LEMMA TypeCorrectStep == TypeOK /\ [Next]_vars => TypeOK'
<1> SUFFICES ASSUME TypeOK, [Next]_vars
             PROVE  TypeOK'
  OBVIOUS
<1> USE DEF TypeOK
<1>1. CASE UNCHANGED vars
  BY <1>1 DEF vars, tls
<1>2. ASSUME NEW t \in build.threads, Wrapper(t)
      PROVE  TypeOK'
  <2>1. t \in Threads /\ frames[t] # <<>> /\ Top(t) \in Frame
    <3>1. t \in Threads
      BY KcovAssumption
    <3>2. frames[t] # <<>>
      BY <1>2 DEF Wrapper, OpenDevice, SetSize, OpenLog, Map, Enable, RealCall, Disable, Dump,
         Unmap, CloseLog, CloseDevice, At, Running
    <3>3. Len(frames[t]) \in 1 .. Len(frames[t])
      BY <3>1, <3>2
    <3> QED BY <3>1, <3>2, <3>3 DEF Top
  <2> DEFINE Moved == frames' \in [Threads -> Seq(Frame)]
  <2>2. ASSUME NEW place \in Places, Goto(t, place)
        PROVE  Moved
    BY <2>1, <2>2, GotoTop
  <2>3. Pop(t) => Moved
    BY <2>1, PopTop
  <2>4. /\ Lowest \in Fds \/ Free = {}
        /\ {<<"free">>, <<"app">>, <<"kcov", t>>, <<"log", t>>} \subseteq Files
    BY <2>1, LowestIsFree DEF Free, Files
  <2>5. \A place \in Places : Goto(t, place) => Moved
    BY <2>2
  <2>6. Places = {"open", "size", "log", "map", "enable", "call", "disable", "dump",
                  "unmap", "closeLog", "closeDevice"}
    BY DEF Places
  <2>7. UNCHANGED frames => Moved
    OBVIOUS
  <2>14. Disable(t) => Moved
    <3> SUFFICES ASSUME Disable(t)
                 PROVE  Moved
      OBVIOUS
    <3>1. CASE TracedHere(t)
      BY <2>5, <2>6, <3>1 DEF Disable
    <3>2. CASE ~TracedHere(t)
      <4> DEFINE f == Wrapped("write", "library", Compare("write"))
      <4>1. f \in Frame
        <5>1. Compare("write") \in BOOLEAN
          BY DEF Compare
        <5>2. "write" \in Calls /\ "library" \in Makers
          BY KcovAssumption DEF Makers
        <5> QED BY <5>1, <5>2, WrappedTyped
      <4> HIDE DEF f
      <4>2. frames' = [frames EXCEPT ![t] = Append([@ EXCEPT ![Len(@)].at = "dump"], f)]
        BY <3>2 DEF Disable, f
      <4> QED BY <2>1, <4>1, <4>2, ReportTop
    <3> QED BY <3>1, <3>2
  <2> HIDE DEF Moved
  <2>8. frames' \in [Threads -> Seq(Frame)]
    <3>1. Moved
      BY <1>2, <2>3, <2>5, <2>6, <2>7, <2>14 DEF Wrapper, OpenDevice, SetSize, OpenLog, Map, Enable,
         RealCall, Dump, Unmap, CloseLog, CloseDevice
    <3> QED BY <3>1 DEF Moved
  <2>9. trace' \in [Threads -> Seq(Calls \cup {"disable"})]
    <3>1. <<Top(t).call>> \in Seq(Calls \cup {"disable"})
      BY <2>1 DEF Frame
    <3>2. <<"disable", "disable">> \in Seq(Calls \cup {"disable"})
      OBVIOUS
    <3>3. trace[t] \in Seq(Calls \cup {"disable"}) /\ <<>> \in Seq(Calls \cup {"disable"})
      BY <2>1
    <3>4. /\ Traced(trace[t], <<Top(t).call>>) \in Seq(Calls \cup {"disable"})
          /\ Traced(trace[t], <<"disable", "disable">>) \in Seq(Calls \cup {"disable"})
      BY <3>1, <3>2, <3>3, TracedSpec
    <3> QED BY <1>2, <2>1, <3>3, <3>4 DEF Wrapper, OpenDevice, SetSize, OpenLog, Map, Enable,
         RealCall, Disable, Dump, Unmap, CloseLog, CloseDevice
  <2>10. logged' \subseteq Calls \cup {"disable"}
    <3>1. \A i \in 1 .. Len(trace[t]) - 1 : trace[t][i] \in Calls \cup {"disable"}
      <4>1. trace[t] \in Seq(Calls \cup {"disable"})
        BY <2>1
      <4> QED BY <4>1
    <3>2. Dump(t) => logged' \subseteq Calls \cup {"disable"}
      <4> DEFINE D == {trace[t][i] : i \in 1 .. Len(trace[t]) - 1}
      <4>1. D \subseteq Calls \cup {"disable"}
        BY <3>1
      <4>2. Dump(t) => \/ logged' = logged
                       \/ logged' = logged \cup D
                       \/ logged' = logged \cup {}
        BY DEF Dump
      <4> HIDE DEF D
      <4> QED BY <4>1, <4>2
    <3>3. Wrapper(t) /\ ~Dump(t) => UNCHANGED logged
      BY DEF Wrapper, OpenDevice, SetSize, OpenLog, Map, Enable, RealCall, Disable,
         Unmap, CloseLog, CloseDevice
    <3> QED BY <1>2, <3>2, <3>3
  <2>11. file' \in [Fds -> Files]
    BY <1>2, <2>4 DEF Wrapper, OpenDevice, SetSize, OpenLog, Map, Enable,
         RealCall, Disable, Dump, Unmap, CloseLog, CloseDevice
  <2>12. /\ build' \in Builds
         /\ kcov_device' \in [Threads -> Fds \cup {Unset}]
         /\ kcov_log' \in [Threads -> Fds \cup {Unset}]
         /\ kcov_buf' \in [Threads -> {"null", "mapped", "hole"}]
         /\ process' \in {"running", "exited", "crashed"}
    BY <1>2, <2>4 DEF Wrapper, OpenDevice, SetSize, OpenLog, Map, Enable,
         RealCall, Disable, Dump, Unmap, CloseLog, CloseDevice, Exit, tls
  <2>13. tracing' \in [Threads -> Fds \cup {Unset}]
    BY <1>2, <2>1 DEF Wrapper, OpenDevice, SetSize, OpenLog, Map, Enable,
         RealCall, Disable, Dump, Unmap, CloseLog, CloseDevice
  <2> QED BY <2>8, <2>9, <2>10, <2>11, <2>12, <2>13
<1>3. ASSUME NEW t \in build.threads, Program(t)
      PROVE  TypeOK'
  <2>1. t \in Threads
    BY KcovAssumption
  <2>2. CASE Dup(t)
    BY <2>2, LowestIsFree DEF Dup, tls, Free, Files
  <2>3. CASE \E fd \in Fds : Close(t, fd)
    BY <2>3 DEF Close, tls, Files
  <2>4. ASSUME NEW call \in build.calls, NEW fd \in Fds \cup {Unset}, Enter(t, call, fd)
        PROVE  TypeOK'
    <3> DEFINE traced == Compare(call) /\ ~(call = "ioctl" /\ fd = kcov_device[t])
               maker  == IF frames[t] = <<>> THEN "program" ELSE "handler"
               s      == Append(frames[t], Wrapped(call, maker, traced))
    <3>1. frames' = [frames EXCEPT ![t] = s]
      BY <2>4 DEF Enter
    <3>2. call \in Calls /\ maker \in Makers /\ traced \in BOOLEAN
      BY KcovAssumption DEF Makers
    <3> HIDE DEF traced, maker
    <3>3. Wrapped(call, maker, traced) \in Frame /\ frames[t] \in Seq(Frame)
      BY <2>1, <3>2, WrappedTyped
    <3>5. s \in Seq(Frame)
      BY <3>3, AppendTop
    <3> HIDE DEF s
    <3>4. frames' \in [Threads -> Seq(Frame)]
      BY <2>1, <3>1, <3>5
    <3> QED BY <2>4, <3>4 DEF Enter, tls
  <2> QED BY <1>3, <2>2, <2>3, <2>4 DEF Program
<1> QED BY <1>1, <1>2, <1>3 DEF Next

(* Every variable of the library keeps its type, in every build and also   *)
(* when a handler's wrapped call interrupts another one and the library    *)
(* enters itself to report an error (coverage.c:43-47, 207-301).           *)
THEOREM KcovTypeCorrect == Spec => []TypeOK
BY TypeCorrectInit, TypeCorrectStep, PTL DEF Spec

---------------------------------------------------------------------------
(* A step of one thread.                                                   *)

Own(t) == {<<"kcov", t>>, <<"log", t>>}

LEMMA Apart == \A u, t \in Threads :
    /\ <<"free">> \notin Own(u) /\ <<"app">> \notin Own(u)
    /\ u # t => <<"kcov", t>> \notin Own(u) /\ <<"log", t>> \notin Own(u)
BY DEF Own

(* A thread loses nothing by what leaves its variables and files alone.    *)
LEMMA OthersKept ==
    ASSUME NEW u \in Threads, ThreadInv(u), UNCHANGED build,
           frames'[u] = frames[u], kcov_device'[u] = kcov_device[u],
           kcov_log'[u] = kcov_log[u], kcov_buf'[u] = kcov_buf[u],
           trace'[u] = trace[u], tracing'[u] = tracing[u], logged \subseteq logged',
           \A fd \in Fds : \/ file'[fd] = file[fd]
                           \/ file[fd] \notin Own(u) /\ file'[fd] \notin Own(u)
    PROVE  ThreadInv(u)'
<1>1. Top(u)' = Top(u) /\ Inside(u)' = Inside(u)
  BY DEF Inside, Top
<1>2. FramesInv(u)'
  BY <1>1 DEF ThreadInv, FramesInv, Compare
<1>3. FilesInv(u)'
  BY <1>1 DEF ThreadInv, FilesInv, HasDevice, HasLog, Own
<1>4. TracingInv(u)'
  BY <1>1 DEF ThreadInv, TracingInv, IsTraced
<1>5. TraceInv(u)'
  BY <1>1 DEF ThreadInv, TraceInv
<1> QED BY <1>2, <1>3, <1>4, <1>5 DEF ThreadInv

LEMMA TopTyped ==
    ASSUME TypeOK, NEW t \in Threads, frames[t] # <<>>
    PROVE  Top(t) \in Frame /\ Top(t).call \in Calls
<1>1. Len(frames[t]) \in 1 .. Len(frames[t]) /\ frames[t] \in Seq(Frame)
  BY DEF TypeOK
<1>2. Top(t) \in Frame
  BY <1>1 DEF Top
<1> QED BY <1>2 DEF Frame

(* A thread in a traced wrapper goes on to the next place.                 *)
LEMMA Advance ==
    ASSUME TypeOK, NEW t \in Threads, FramesInv(t), frames[t] # <<>>, Top(t).traced,
           NEW place \in Places, Goto(t, place), UNCHANGED build
    PROVE  /\ Inside(t) /\ Inside(t)' /\ FramesInv(t)'
           /\ Top(t)'.at = place
           /\ Top(t)'.call = Top(t).call
           /\ \A u \in Threads \ {t} : frames'[u] = frames[u]
<1>1. Top(t) \in Frame
  BY TopTyped
<1>2. /\ frames'[t] # <<>> /\ Len(frames'[t]) = Len(frames[t])
      /\ Top(t)' = [Top(t) EXCEPT !.at = place]
      /\ \A u \in Threads \ {t} : frames'[u] = frames[u]
  BY GotoTop DEF TypeOK
<1> DEFINE f == Top(t)
<1>3. /\ [f EXCEPT !.at = place].at = place
      /\ [f EXCEPT !.at = place].call = f.call
      /\ [f EXCEPT !.at = place].traced = f.traced
  BY <1>1 DEF Frame
<1>4. /\ Top(t)'.at = place /\ Top(t)'.call = Top(t).call /\ Top(t)'.traced = Top(t).traced
  BY <1>2, <1>3, Zenon
<1> QED BY <1>2, <1>4 DEF Inside, FramesInv, Compare

(* A thread whose only wrapper returns is in none.                         *)
LEMMA Returns ==
    ASSUME TypeOK, NEW t \in Threads, FramesInv(t), frames[t] # <<>>, Pop(t)
    PROVE  frames'[t] = <<>> /\ \A u \in Threads \ {t} : frames'[u] = frames[u]
<1>1. /\ frames' \in [Threads -> Seq(Frame)]
      /\ Len(frames'[t]) = Len(frames[t]) - 1
      /\ \A u \in Threads \ {t} : frames'[u] = frames[u]
  BY PopTop DEF TypeOK
<1>2. Len(frames[t]) = 1
  <2>1. frames[t] \in Seq(Frame) /\ frames[t] # <<>> /\ Len(frames[t]) <= 1
    BY DEF TypeOK, FramesInv
  <2>2. \A n \in Nat \ {0} : n <= 1 => n = 1
    OBVIOUS
  <2>3. Len(frames[t]) \in Nat \ {0}
    BY <2>1, EmptySeq
  <2> QED BY <2>1, <2>2, <2>3, Zenon
<1>3. frames'[t] \in Seq(Frame) /\ Len(frames'[t]) = 0
  BY <1>1, <1>2
<1>4. frames'[t] = <<>>
  BY <1>3
<1> QED BY <1>1, <1>4

LEMMA OpenDeviceStep ==
    ASSUME TypeOK, NEW t \in Threads, ThreadInv(t), OpenDevice(t),
           NEW u \in Threads, ThreadInv(u)
    PROVE  ThreadInv(u)'
<1>1. CASE Free = {}
  BY <1>1, OthersKept DEF OpenDevice, tls
<1>2. CASE Free # {}
  <2>1. Lowest \in Fds /\ file[Lowest] = <<"free">>
    BY <1>2, LowestIsFree DEF Free
  <2>2. /\ Top(t).at = "open" /\ frames[t] # <<>> /\ Top(t).traced
        /\ Goto(t, "size") /\ "size" \in Places
        /\ kcov_device' = [kcov_device EXCEPT ![t] = Lowest]
        /\ file' = [file EXCEPT ![Lowest] = <<"kcov", t>>]
        /\ UNCHANGED <<build, kcov_log, kcov_buf, trace, tracing, logged>>
    BY <1>2 DEF OpenDevice, At, Running, Places, ThreadInv, FramesInv
  <2>3. /\ Inside(t) /\ Inside(t)' /\ FramesInv(t)'
        /\ Top(t)'.at = "size" /\ Top(t)'.call = Top(t).call
        /\ \A v \in Threads \ {t} : frames'[v] = frames[v]
    BY <2>2, Advance DEF ThreadInv
  <2>4. CASE u # t
    <3>1. \A fd \in Fds : \/ file'[fd] = file[fd]
                          \/ file[fd] \notin Own(u) /\ file'[fd] \notin Own(u)
      BY <2>1, <2>2, <2>3, <2>4, Apart DEF TypeOK
    <3>2. /\ frames'[u] = frames[u] /\ kcov_device'[u] = kcov_device[u]
          /\ kcov_log'[u] = kcov_log[u] /\ kcov_buf'[u] = kcov_buf[u]
          /\ trace'[u] = trace[u] /\ tracing'[u] = tracing[u] /\ logged \subseteq logged'
      BY <2>2, <2>3, <2>4 DEF TypeOK
    <3> QED BY <2>2, <3>1, <3>2, OthersKept
  <2>5. ThreadInv(t)'
    <3>1. FilesInv(t)'
      BY <2>1, <2>2, <2>3 DEF ThreadInv, FilesInv, HasDevice, HasLog, TypeOK
    <3>2. TracingInv(t)'
      BY <2>2, <2>3 DEF ThreadInv, TracingInv, IsTraced, TypeOK
    <3>3. TraceInv(t)'
      BY <2>2, <2>3 DEF ThreadInv, TraceInv, TypeOK
    <3> QED BY <2>3, <3>1, <3>2, <3>3 DEF ThreadInv
  <2> QED BY <2>4, <2>5
<1> QED BY <1>1, <1>2

LEMMA SetSizeStep ==
    ASSUME TypeOK, NEW t \in Threads, ThreadInv(t), SetSize(t),
           NEW u \in Threads, ThreadInv(u)
    PROVE  ThreadInv(u)'
<1>1. file[kcov_device[t]] = <<"kcov", t>>
  BY DEF SetSize, At, Running, ThreadInv, FramesInv, FilesInv, HasDevice, Inside
<1>2. /\ Top(t).at = "size" /\ frames[t] # <<>> /\ Top(t).traced
      /\ Goto(t, "log") /\ "log" \in Places
      /\ UNCHANGED <<build, file, kcov_device, kcov_log, kcov_buf, trace, tracing, logged>>
  BY <1>1 DEF SetSize, At, Running, Places, ThreadInv, FramesInv, tls
<1>3. /\ Inside(t) /\ Inside(t)' /\ FramesInv(t)'
      /\ Top(t)'.at = "log" /\ Top(t)'.call = Top(t).call
      /\ \A v \in Threads \ {t} : frames'[v] = frames[v]
  BY <1>2, Advance DEF ThreadInv
<1>4. CASE u # t
  <2>1. \A fd \in Fds : \/ file'[fd] = file[fd]
                        \/ file[fd] \notin Own(u) /\ file'[fd] \notin Own(u)
    BY <1>2, <1>3, <1>4, Apart DEF TypeOK
  <2>2. /\ frames'[u] = frames[u] /\ kcov_device'[u] = kcov_device[u]
        /\ kcov_log'[u] = kcov_log[u] /\ kcov_buf'[u] = kcov_buf[u]
        /\ trace'[u] = trace[u] /\ tracing'[u] = tracing[u] /\ logged \subseteq logged'
    BY <1>2, <1>3, <1>4 DEF TypeOK
  <2> QED BY <1>2, <2>1, <2>2, OthersKept
<1>5. ThreadInv(t)'
  <2>1. FilesInv(t)'
    BY <1>2, <1>3 DEF ThreadInv, FilesInv, HasDevice, HasLog, TypeOK
  <2>2. TracingInv(t)'
    BY <1>2, <1>3 DEF ThreadInv, TracingInv, IsTraced, TypeOK
  <2>3. TraceInv(t)'
    BY <1>2, <1>3 DEF ThreadInv, TraceInv, TypeOK
  <2> QED BY <1>3, <2>1, <2>2, <2>3 DEF ThreadInv
<1> QED BY <1>4, <1>5

LEMMA OpenLogStep ==
    ASSUME TypeOK, NEW t \in Threads, ThreadInv(t), OpenLog(t),
           NEW u \in Threads, ThreadInv(u)
    PROVE  ThreadInv(u)'
<1>1. CASE Free = {}
  BY <1>1, OthersKept DEF OpenLog, tls
<1>2. CASE Free # {}
  <2>1. Lowest \in Fds /\ file[Lowest] = <<"free">>
    BY <1>2, LowestIsFree DEF Free
  <2>2. /\ Top(t).at = "log" /\ frames[t] # <<>> /\ Top(t).traced
        /\ Goto(t, "map") /\ "map" \in Places
        /\ kcov_log' = [kcov_log EXCEPT ![t] = Lowest]
        /\ file' = [file EXCEPT ![Lowest] = <<"log", t>>]
        /\ UNCHANGED <<build, kcov_device, kcov_buf, trace, tracing, logged>>
    BY <1>2 DEF OpenLog, At, Running, Places, ThreadInv, FramesInv
  <2>3. /\ Inside(t) /\ Inside(t)' /\ FramesInv(t)'
        /\ Top(t)'.at = "map" /\ Top(t)'.call = Top(t).call
        /\ \A v \in Threads \ {t} : frames'[v] = frames[v]
    BY <2>2, Advance DEF ThreadInv
  <2>4. CASE u # t
    <3>1. \A fd \in Fds : \/ file'[fd] = file[fd]
                          \/ file[fd] \notin Own(u) /\ file'[fd] \notin Own(u)
      BY <2>1, <2>2, <2>3, <2>4, Apart DEF TypeOK
    <3>2. /\ frames'[u] = frames[u] /\ kcov_device'[u] = kcov_device[u]
          /\ kcov_log'[u] = kcov_log[u] /\ kcov_buf'[u] = kcov_buf[u]
          /\ trace'[u] = trace[u] /\ tracing'[u] = tracing[u] /\ logged \subseteq logged'
      BY <2>2, <2>3, <2>4 DEF TypeOK
    <3> QED BY <2>2, <3>1, <3>2, OthersKept
  <2>5. ThreadInv(t)'
    <3>1. FilesInv(t)'
      <4>1. kcov_device[t] \in Fds /\ file[kcov_device[t]] = <<"kcov", t>>
        BY <2>2, <2>3 DEF ThreadInv, FilesInv, HasDevice
      <4>2. kcov_device'[t] = kcov_device[t] /\ file'[kcov_device[t]] = <<"kcov", t>>
        BY <2>1, <2>2, <4>1, Apart DEF TypeOK, Own
      <4>3. kcov_log'[t] = Lowest /\ file'[Lowest] = <<"log", t>>
        BY <2>1, <2>2 DEF TypeOK
      <4>4. \A fd \in Fds : fd # Lowest => file'[fd] = file[fd]
        BY <2>2 DEF TypeOK
      <4> QED BY <2>1, <2>2, <2>3, <4>1, <4>2, <4>3, <4>4
              DEF ThreadInv, FilesInv, HasDevice, HasLog
    <3>2. TracingInv(t)'
      BY <2>2, <2>3 DEF ThreadInv, TracingInv, IsTraced, TypeOK
    <3>3. TraceInv(t)'
      BY <2>2, <2>3 DEF ThreadInv, TraceInv, TypeOK
    <3> QED BY <2>3, <3>1, <3>2, <3>3 DEF ThreadInv
  <2> QED BY <2>4, <2>5
<1> QED BY <1>1, <1>2

LEMMA MapStep ==
    ASSUME TypeOK, NEW t \in Threads, ThreadInv(t), Map(t),
           NEW u \in Threads, ThreadInv(u)
    PROVE  ThreadInv(u)'
<1>1. file[kcov_device[t]] = <<"kcov", t>>
  BY DEF Map, At, Running, ThreadInv, FramesInv, FilesInv, HasDevice, Inside
<1>2. /\ Top(t).at = "map" /\ frames[t] # <<>> /\ Top(t).traced
      /\ Goto(t, "enable") /\ "enable" \in Places
      /\ kcov_buf' = [kcov_buf EXCEPT ![t] = "mapped"]
      /\ UNCHANGED <<build, file, kcov_device, kcov_log, trace, tracing, logged>>
  BY <1>1 DEF Map, At, Running, Places, ThreadInv, FramesInv
<1>3. /\ Inside(t) /\ Inside(t)' /\ FramesInv(t)'
      /\ Top(t)'.at = "enable" /\ Top(t)'.call = Top(t).call
      /\ \A v \in Threads \ {t} : frames'[v] = frames[v]
  BY <1>2, Advance DEF ThreadInv
<1>4. CASE u # t
  <2>1. \A fd \in Fds : \/ file'[fd] = file[fd]
                        \/ file[fd] \notin Own(u) /\ file'[fd] \notin Own(u)
    BY <1>2, <1>3, <1>4, Apart DEF TypeOK
  <2>2. /\ frames'[u] = frames[u] /\ kcov_device'[u] = kcov_device[u]
        /\ kcov_log'[u] = kcov_log[u] /\ kcov_buf'[u] = kcov_buf[u]
        /\ trace'[u] = trace[u] /\ tracing'[u] = tracing[u] /\ logged \subseteq logged'
    BY <1>2, <1>3, <1>4 DEF TypeOK
  <2> QED BY <1>2, <2>1, <2>2, OthersKept
<1>5. ThreadInv(t)'
  <2>1. FilesInv(t)'
    BY <1>2, <1>3 DEF ThreadInv, FilesInv, HasDevice, HasLog, TypeOK
  <2>2. TracingInv(t)'
    BY <1>2, <1>3 DEF ThreadInv, TracingInv, IsTraced, TypeOK
  <2>3. TraceInv(t)'
    BY <1>2, <1>3 DEF ThreadInv, TraceInv, TypeOK
  <2> QED BY <1>3, <2>1, <2>2, <2>3 DEF ThreadInv
<1> QED BY <1>4, <1>5

LEMMA EnableStep ==
    ASSUME TypeOK, NEW t \in Threads, ThreadInv(t), Enable(t),
           NEW u \in Threads, ThreadInv(u)
    PROVE  ThreadInv(u)'
<1>1. /\ file[kcov_device[t]] = <<"kcov", t>> /\ kcov_buf[t] = "mapped"
      /\ tracing[t] = Unset
  BY DEF Enable, At, Running, ThreadInv, FramesInv, FilesInv, TracingInv, IsTraced, HasDevice, Inside
<1>2. /\ Top(t).at = "enable" /\ frames[t] # <<>> /\ Top(t).traced
      /\ Goto(t, "call") /\ "call" \in Places
      /\ tracing' = [tracing EXCEPT ![t] = kcov_device[t]]
      /\ trace' = [trace EXCEPT ![t] = <<>>]
      /\ UNCHANGED <<build, file, kcov_device, kcov_log, kcov_buf, logged>>
  BY <1>1 DEF Enable, At, Running, Places, ThreadInv, FramesInv, tls, TypeOK
<1>3. /\ Inside(t) /\ Inside(t)' /\ FramesInv(t)'
      /\ Top(t)'.at = "call" /\ Top(t)'.call = Top(t).call
      /\ \A v \in Threads \ {t} : frames'[v] = frames[v]
  BY <1>2, Advance DEF ThreadInv
<1>4. CASE u # t
  <2>1. \A fd \in Fds : \/ file'[fd] = file[fd]
                        \/ file[fd] \notin Own(u) /\ file'[fd] \notin Own(u)
    BY <1>2, <1>3, <1>4, Apart DEF TypeOK
  <2>2. /\ frames'[u] = frames[u] /\ kcov_device'[u] = kcov_device[u]
        /\ kcov_log'[u] = kcov_log[u] /\ kcov_buf'[u] = kcov_buf[u]
        /\ trace'[u] = trace[u] /\ tracing'[u] = tracing[u] /\ logged \subseteq logged'
    BY <1>2, <1>3, <1>4 DEF TypeOK
  <2> QED BY <1>2, <2>1, <2>2, OthersKept
<1>5. ThreadInv(t)'
  <2>1. FilesInv(t)'
    BY <1>2, <1>3 DEF ThreadInv, FilesInv, HasDevice, HasLog, TypeOK
  <2>2. TracingInv(t)'
    BY <1>2, <1>3 DEF ThreadInv, TracingInv, IsTraced, TypeOK
  <2>3. TraceInv(t)'
    BY <1>2, <1>3 DEF ThreadInv, TraceInv, TypeOK
  <2> QED BY <1>3, <2>1, <2>2, <2>3 DEF ThreadInv
<1> QED BY <1>4, <1>5

LEMMA RealCallStep ==
    ASSUME TypeOK, NEW t \in Threads, ThreadInv(t), RealCall(t),
           NEW u \in Threads, ThreadInv(u)
    PROVE  ThreadInv(u)'
<1>1. \A fd \in Fds : \/ file'[fd] = file[fd]
                      \/ file[fd] = <<"free">> /\ file'[fd] = <<"app">>
  <2>1. file' = file \/ (Free # {} /\ file' = [file EXCEPT ![Lowest] = <<"app">>])
    BY DEF RealCall
  <2>2. Free # {} => file[Lowest] = <<"free">>
    BY LowestIsFree DEF Free
  <2> QED BY <2>1, <2>2 DEF TypeOK
<1> DEFINE entries == IF TracedHere(t) THEN Traced(trace[t], <<Top(t).call>>) ELSE trace[t]
<1>2. /\ Top(t).at = "call" /\ frames[t] # <<>> /\ Running(t)
      /\ IF Top(t).traced THEN Goto(t, "disable") ELSE Pop(t)
      /\ trace' = [trace EXCEPT ![t] = entries]
      /\ UNCHANGED <<build, kcov_device, kcov_log, kcov_buf, tracing, logged>>
  BY DEF RealCall, At, Running, tls
<1>3. \A fd \in Fds, v \in Threads :
        \/ file'[fd] = file[fd]
        \/ file[fd] \notin Own(v) /\ file'[fd] \notin Own(v)
  BY <1>1, Apart
<1>4. CASE u # t
  <2>1. frames'[u] = frames[u]
    BY <1>2, <1>4, GotoTop, PopTop DEF TypeOK, Places
  <2>2. trace'[u] = trace[u]
    BY <1>2, <1>4 DEF TypeOK
  <2> QED BY <1>2, <1>3, <2>1, <2>2, OthersKept
<1>5. CASE Top(t).traced
  <2>1. /\ Inside(t) /\ Inside(t)' /\ FramesInv(t)'
        /\ Top(t)'.at = "disable" /\ Top(t)'.call = Top(t).call
    <3>1. Goto(t, "disable") /\ "disable" \in Places
      BY <1>2, <1>5 DEF Places
    <3> QED BY <1>2, <1>5, <3>1, Advance DEF ThreadInv
  <2>2. TracedHere(t) /\ trace[t] = <<>>
    BY <1>2, <2>1, UnsetIsNoDescriptor
       DEF TracedHere, ThreadInv, TracingInv, TraceInv, FilesInv, IsTraced, HasDevice
  <2>3. Top(t).call \in Calls
    BY <1>2, TopTyped
  <2>4. Len(entries) = 1 /\ entries[1] = Top(t).call
    <3>1. trace[t] \in Seq(Calls \cup {"disable"})
      BY DEF TypeOK
    <3> QED BY <2>2, <2>3, <3>1, TraceBegins
  <2> HIDE DEF entries
  <2>5. Len(trace'[t]) = 1 /\ trace'[t][1] = Top(t)'.call
    BY <1>2, <2>1, <2>4 DEF TypeOK
  <2>6. FilesInv(t)'
    BY <1>1, <1>2, <1>3, <2>1 DEF ThreadInv, FilesInv, HasDevice, HasLog, Own
  <2>7. TracingInv(t)'
    BY <1>2, <2>1 DEF ThreadInv, TracingInv, IsTraced
  <2>8. TraceInv(t)'
    BY <2>1, <2>5 DEF TraceInv
  <2>9. ThreadInv(t)'
    BY <2>1, <2>6, <2>7, <2>8 DEF ThreadInv
  <2> QED BY <1>4, <2>9
<1>6. CASE ~Top(t).traced
  <2>1. frames'[t] = <<>>
    BY <1>2, <1>6, Returns DEF ThreadInv
  <2>2. ~Inside(t) /\ ~Inside(t)'
    BY <1>6, <2>1 DEF Inside
  <2>3. FramesInv(t)'
    BY <2>1 DEF FramesInv
  <2>4. FilesInv(t)'
    BY <1>2, <1>3, <2>2 DEF ThreadInv, FilesInv, HasDevice, HasLog, Own
  <2>5. TracingInv(t)' /\ TraceInv(t)'
    BY <1>2, <2>2 DEF ThreadInv, TracingInv, TraceInv, IsTraced
  <2>6. ThreadInv(t)'
    BY <2>3, <2>4, <2>5 DEF ThreadInv
  <2> QED BY <1>4, <2>6
<1> QED BY <1>5, <1>6

LEMMA DisableStep ==
    ASSUME TypeOK, NEW t \in Threads, ThreadInv(t), Disable(t),
           NEW u \in Threads, ThreadInv(u)
    PROVE  ThreadInv(u)'
<1> DEFINE entries == Traced(trace[t], <<"disable", "disable">>)
<1>1. TracedHere(t)
  BY UnsetIsNoDescriptor DEF TracedHere, Disable, At, Running, ThreadInv, FramesInv, FilesInv, TracingInv,
     IsTraced, HasDevice, Inside
<1>2. /\ Top(t).at = "disable" /\ frames[t] # <<>> /\ Top(t).traced
      /\ Goto(t, "dump") /\ "dump" \in Places
      /\ trace' = [trace EXCEPT ![t] = entries]
      /\ tracing' = [tracing EXCEPT ![t] = Unset]
      /\ UNCHANGED <<build, file, kcov_device, kcov_log, kcov_buf, logged>>
  BY <1>1 DEF Disable, At, Running, Places, ThreadInv, FramesInv, tls, TypeOK
<1>3. /\ Inside(t) /\ Inside(t)' /\ FramesInv(t)'
      /\ Top(t)'.at = "dump" /\ Top(t)'.call = Top(t).call
      /\ \A v \in Threads \ {t} : frames'[v] = frames[v]
  BY <1>2, Advance DEF ThreadInv
<1>4. CASE u # t
  <2>1. \A fd \in Fds : \/ file'[fd] = file[fd]
                        \/ file[fd] \notin Own(u) /\ file'[fd] \notin Own(u)
    BY <1>2, <1>3, <1>4, Apart DEF TypeOK
  <2>2. /\ frames'[u] = frames[u] /\ kcov_device'[u] = kcov_device[u]
        /\ kcov_log'[u] = kcov_log[u] /\ kcov_buf'[u] = kcov_buf[u]
        /\ trace'[u] = trace[u] /\ tracing'[u] = tracing[u] /\ logged \subseteq logged'
    BY <1>2, <1>3, <1>4 DEF TypeOK
  <2> QED BY <1>2, <2>1, <2>2, OthersKept
<1>6. Len(entries) >= 2 /\ entries[1] = Top(t).call
  <2>1. Len(trace[t]) = 1 /\ trace[t][1] = Top(t).call /\ trace[t] \in Seq(Calls \cup {"disable"})
    BY <1>2, <1>3 DEF ThreadInv, TraceInv, TypeOK
  <2>2. Top(t).call \in Calls
    BY <1>2, TopTyped
  <2> QED BY <2>1, <2>2, TraceBegins
<1> HIDE DEF entries
<1>5. ThreadInv(t)'
  <2>1. FilesInv(t)'
    BY <1>2, <1>3 DEF ThreadInv, FilesInv, HasDevice, HasLog, TypeOK
  <2>2. TracingInv(t)'
    BY <1>2, <1>3 DEF ThreadInv, TracingInv, IsTraced, TypeOK
  <2>3. TraceInv(t)'
    BY <1>6, <1>2, <1>3 DEF ThreadInv, TraceInv, TypeOK
  <2> QED BY <1>3, <2>1, <2>2, <2>3 DEF ThreadInv
<1> QED BY <1>4, <1>5

LEMMA DumpStep ==
    ASSUME TypeOK, NEW t \in Threads, ThreadInv(t), Dump(t),
           NEW u \in Threads, ThreadInv(u)
    PROVE  ThreadInv(u)'
<1>1. kcov_buf[t] = "mapped" /\ file[kcov_log[t]] = <<"log", t>>
  BY DEF Dump, At, Running, ThreadInv, FramesInv, FilesInv, TracingInv, HasLog, Inside
<1>2. /\ Top(t).at = "dump" /\ frames[t] # <<>> /\ Top(t).traced
      /\ Goto(t, "unmap") /\ "unmap" \in Places
      /\ logged' = logged \cup {trace[t][i] : i \in 1 .. Len(trace[t]) - 1}
      /\ UNCHANGED <<build, file, kcov_device, kcov_log, kcov_buf, trace, tracing>>
  BY <1>1 DEF Dump, At, Running, Places, ThreadInv, FramesInv, tls
<1>3. /\ Inside(t) /\ Inside(t)' /\ FramesInv(t)'
      /\ Top(t)'.at = "unmap" /\ Top(t)'.call = Top(t).call
      /\ \A v \in Threads \ {t} : frames'[v] = frames[v]
  BY <1>2, Advance DEF ThreadInv
<1>4. CASE u # t
  <2>1. \A fd \in Fds : \/ file'[fd] = file[fd]
                        \/ file[fd] \notin Own(u) /\ file'[fd] \notin Own(u)
    BY <1>2, <1>3, <1>4, Apart DEF TypeOK
  <2>2. /\ frames'[u] = frames[u] /\ kcov_device'[u] = kcov_device[u]
        /\ kcov_log'[u] = kcov_log[u] /\ kcov_buf'[u] = kcov_buf[u]
        /\ trace'[u] = trace[u] /\ tracing'[u] = tracing[u] /\ logged \subseteq logged'
    BY <1>2, <1>3, <1>4 DEF TypeOK
  <2> QED BY <1>2, <2>1, <2>2, OthersKept
<1>6. Top(t).call \in logged'
  <2>1. Len(trace[t]) >= 2 /\ trace[t][1] = Top(t).call
    BY <1>2, <1>3 DEF ThreadInv, TraceInv
  <2>2. 1 \in 1 .. Len(trace[t]) - 1
    <3>1. trace[t] \in Seq(Calls \cup {"disable"})
      BY DEF TypeOK
    <3> QED BY <2>1, <3>1
  <2> QED BY <1>2, <2>1, <2>2, Zenon
<1>5. ThreadInv(t)'
  <2>1. FilesInv(t)'
    BY <1>2, <1>3 DEF ThreadInv, FilesInv, HasDevice, HasLog, TypeOK
  <2>2. TracingInv(t)'
    BY <1>2, <1>3 DEF ThreadInv, TracingInv, IsTraced, TypeOK
  <2>3. TraceInv(t)'
    BY <1>6, <1>2, <1>3 DEF ThreadInv, TraceInv, TypeOK
  <2> QED BY <1>3, <2>1, <2>2, <2>3 DEF ThreadInv
<1> QED BY <1>4, <1>5

LEMMA UnmapStep ==
    ASSUME TypeOK, NEW t \in Threads, ThreadInv(t), Unmap(t),
           NEW u \in Threads, ThreadInv(u)
    PROVE  ThreadInv(u)'
<1>2. /\ Top(t).at = "unmap" /\ frames[t] # <<>> /\ Top(t).traced
      /\ Goto(t, "closeLog") /\ "closeLog" \in Places
      /\ kcov_buf' = [kcov_buf EXCEPT ![t] = "hole"]
      /\ UNCHANGED <<build, file, kcov_device, kcov_log, trace, tracing, logged>>
  BY DEF Unmap, At, Running, Places, ThreadInv, FramesInv, tls
<1>3. /\ Inside(t) /\ Inside(t)' /\ FramesInv(t)'
      /\ Top(t)'.at = "closeLog" /\ Top(t)'.call = Top(t).call
      /\ \A v \in Threads \ {t} : frames'[v] = frames[v]
  BY <1>2, Advance DEF ThreadInv
<1>4. CASE u # t
  <2>1. \A fd \in Fds : \/ file'[fd] = file[fd]
                        \/ file[fd] \notin Own(u) /\ file'[fd] \notin Own(u)
    BY <1>2, <1>3, <1>4, Apart DEF TypeOK
  <2>2. /\ frames'[u] = frames[u] /\ kcov_device'[u] = kcov_device[u]
        /\ kcov_log'[u] = kcov_log[u] /\ kcov_buf'[u] = kcov_buf[u]
        /\ trace'[u] = trace[u] /\ tracing'[u] = tracing[u] /\ logged \subseteq logged'
    BY <1>2, <1>3, <1>4 DEF TypeOK
  <2> QED BY <1>2, <2>1, <2>2, OthersKept
<1>5. ThreadInv(t)'
  <2>1. FilesInv(t)'
    BY <1>2, <1>3 DEF ThreadInv, FilesInv, HasDevice, HasLog, TypeOK
  <2>2. TracingInv(t)'
    BY <1>2, <1>3 DEF ThreadInv, TracingInv, IsTraced, TypeOK
  <2>3. TraceInv(t)'
    BY <1>2, <1>3 DEF ThreadInv, TraceInv, TypeOK
  <2> QED BY <1>3, <2>1, <2>2, <2>3 DEF ThreadInv
<1> QED BY <1>4, <1>5

LEMMA CloseLogStep ==
    ASSUME TypeOK, NEW t \in Threads, ThreadInv(t), CloseLog(t),
           NEW u \in Threads, ThreadInv(u)
    PROVE  ThreadInv(u)'
<1>1. /\ kcov_log[t] \in Fds /\ file[kcov_log[t]] = <<"log", t>>
      /\ kcov_device[t] \in Fds /\ file[kcov_device[t]] = <<"kcov", t>>
  BY DEF CloseLog, At, Running, ThreadInv, FramesInv, FilesInv, HasLog, HasDevice, Inside
<1>2. /\ Top(t).at = "closeLog" /\ frames[t] # <<>> /\ Top(t).traced
      /\ Goto(t, "closeDevice") /\ "closeDevice" \in Places
      /\ file' = [file EXCEPT ![kcov_log[t]] = <<"free">>]
      /\ UNCHANGED <<build, kcov_device, kcov_log, kcov_buf, trace, tracing, logged>>
  BY DEF CloseLog, At, Running, Places, ThreadInv, FramesInv, tls
<1>3. /\ Inside(t) /\ Inside(t)' /\ FramesInv(t)'
      /\ Top(t)'.at = "closeDevice" /\ Top(t)'.call = Top(t).call
      /\ \A v \in Threads \ {t} : frames'[v] = frames[v]
  BY <1>2, Advance DEF ThreadInv
<1>6. u # t => <<"log", t>> \notin Own(u)
  BY Apart
<1>4. CASE u # t
  <2>1. \A fd \in Fds : \/ file'[fd] = file[fd]
                        \/ file[fd] \notin Own(u) /\ file'[fd] \notin Own(u)
    BY <1>1, <1>6, <1>2, <1>3, <1>4, Apart DEF TypeOK
  <2>2. /\ frames'[u] = frames[u] /\ kcov_device'[u] = kcov_device[u]
        /\ kcov_log'[u] = kcov_log[u] /\ kcov_buf'[u] = kcov_buf[u]
        /\ trace'[u] = trace[u] /\ tracing'[u] = tracing[u] /\ logged \subseteq logged'
    BY <1>2, <1>3, <1>4 DEF TypeOK
  <2> QED BY <1>2, <2>1, <2>2, OthersKept
<1>5. ThreadInv(t)'
  <2>1. FilesInv(t)'
    <3>1. kcov_device[t] # kcov_log[t]
      BY <1>1
    <3>2. file'[kcov_device[t]] = <<"kcov", t>>
      BY <1>1, <1>2, <3>1 DEF TypeOK
    <3>3. file'[kcov_log[t]] = <<"free">> /\ \A fd \in Fds : fd # kcov_log[t] => file'[fd] = file[fd]
      BY <1>1, <1>2 DEF TypeOK
    <3> QED BY <1>1, <1>2, <1>3, <3>2, <3>3 DEF ThreadInv, FilesInv, HasDevice, HasLog
  <2>2. TracingInv(t)'
    BY <1>2, <1>3 DEF ThreadInv, TracingInv, IsTraced, TypeOK
  <2>3. TraceInv(t)'
    BY <1>2, <1>3 DEF ThreadInv, TraceInv, TypeOK
  <2> QED BY <1>3, <2>1, <2>2, <2>3 DEF ThreadInv
<1> QED BY <1>4, <1>5

LEMMA CloseDeviceStep ==
    ASSUME TypeOK, NEW t \in Threads, ThreadInv(t), CloseDevice(t),
           NEW u \in Threads, ThreadInv(u)
    PROVE  ThreadInv(u)'
<1>1. /\ Top(t).at = "closeDevice" /\ frames[t] # <<>> /\ Top(t).traced /\ Inside(t)
      /\ Pop(t)
      /\ file' = [file EXCEPT ![kcov_device[t]] = <<"free">>]
      /\ tracing' = [v \in Threads |->
            IF tracing[v] = kcov_device[t] THEN Unset ELSE tracing[v]]
      /\ UNCHANGED <<build, kcov_device, kcov_log, kcov_buf, trace, logged>>
  BY DEF CloseDevice, At, Running, ThreadInv, FramesInv, Inside, tls
<1>2. kcov_device[t] \in Fds /\ file[kcov_device[t]] = <<"kcov", t>>
  BY <1>1 DEF ThreadInv, FilesInv, HasDevice
<1>3. frames'[t] = <<>> /\ \A v \in Threads \ {t} : frames'[v] = frames[v]
  BY <1>1, Returns DEF ThreadInv
<1>4. /\ file'[kcov_device[t]] = <<"free">>
      /\ \A fd \in Fds : fd # kcov_device[t] => file'[fd] = file[fd]
  BY <1>1, <1>2 DEF TypeOK
<1>5. CASE u # t
  <2>1. \A fd \in Fds : \/ file'[fd] = file[fd]
                        \/ file[fd] \notin Own(u) /\ file'[fd] \notin Own(u)
    BY <1>2, <1>4, <1>5, Apart
  <2>2. tracing[u] # kcov_device[t]
    <3>1. CASE tracing[u] = Unset
      BY <1>2, <3>1, UnsetIsNoDescriptor
    <3>2. CASE tracing[u] # Unset
      <4>1. tracing[u] = kcov_device[u] /\ file[kcov_device[u]] = <<"kcov", u>>
        BY <3>2 DEF ThreadInv, TracingInv, FilesInv, IsTraced, HasDevice
      <4> QED BY <1>2, <1>5, <4>1
    <3> QED BY <3>1, <3>2
  <2>3. tracing'[u] = tracing[u]
    BY <1>1, <2>2
  <2> QED BY <1>1, <1>3, <1>5, <2>1, <2>3, OthersKept
<1>6. ThreadInv(t)'
  <2>1. ~Inside(t)' /\ FramesInv(t)'
    BY <1>3 DEF Inside, FramesInv
  <2>2. FilesInv(t)'
    <3>1. \A fd \in Fds : file'[fd] \notin Own(t)
      BY <1>1, <1>4, Apart DEF ThreadInv, FilesInv, HasLog, Own
    <3> QED BY <2>1, <3>1 DEF FilesInv, HasDevice, HasLog, Own
  <2>3. tracing'[t] = Unset
    BY <1>1 DEF ThreadInv, TracingInv, IsTraced
  <2>4. TracingInv(t)' /\ TraceInv(t)'
    BY <2>1, <2>3 DEF TracingInv, TraceInv, IsTraced
  <2> QED BY <2>1, <2>2, <2>4 DEF ThreadInv
<1> QED BY <1>5, <1>6

---------------------------------------------------------------------------
(* The program's calls.                                                    *)

LEMMA DupStep ==
    ASSUME TypeOK, NEW t \in Threads, Dup(t), NEW u \in Threads, ThreadInv(u)
    PROVE  ThreadInv(u)'
<1>1. Lowest \in Fds /\ file[Lowest] = <<"free">>
  BY LowestIsFree DEF Dup, Free
<1>2. \A fd \in Fds : \/ file'[fd] = file[fd]
                      \/ file[fd] \notin Own(u) /\ file'[fd] \notin Own(u)
  BY <1>1, Apart DEF Dup, TypeOK
<1> QED BY <1>2, OthersKept DEF Dup, tls

LEMMA CloseStep ==
    ASSUME TypeOK, NEW t \in Threads, NEW fd \in Fds, Close(t, fd),
           NEW u \in Threads, ThreadInv(u)
    PROVE  ThreadInv(u)'
<1>1. file[fd] = <<"app">> /\ file' = [file EXCEPT ![fd] = <<"free">>]
  BY DEF Close, App
<1>2. \A f \in Fds : \/ file'[f] = file[f]
                     \/ file[f] \notin Own(u) /\ file'[f] \notin Own(u)
  BY <1>1, Apart DEF TypeOK
<1> QED BY <1>2, OthersKept DEF Close, tls

LEMMA EnterStep ==
    ASSUME TypeOK, ~build.signals, NEW t \in Threads, ThreadInv(t), NEW call \in Calls,
           NEW fd \in Fds \cup {Unset}, Enter(t, call, fd),
           NEW u \in Threads, ThreadInv(u)
    PROVE  ThreadInv(u)'
<1> DEFINE traced == Compare(call) /\ ~(call = "ioctl" /\ fd = kcov_device[t])
           f == Wrapped(call, "program", traced)
<1>1. /\ frames[t] = <<>>
      /\ frames' = [frames EXCEPT ![t] = Append(frames[t], f)]
      /\ UNCHANGED <<build, file, kcov_device, kcov_log, kcov_buf, trace, tracing, logged>>
  BY DEF Enter, tls
<1>2. /\ f.call = call /\ f.traced = traced
      /\ f.at = IF traced THEN "open" ELSE "call"
      /\ traced \in BOOLEAN /\ (call # "ioctl" => (traced <=> Compare(call)))
  BY DEF Wrapped
<1> HIDE DEF f, traced
<1>3. frames'[t] # <<>> /\ Len(frames'[t]) = 1 /\ Top(t)' = f
  <2>1. /\ Append(frames[t], f) # <<>> /\ Len(Append(frames[t], f)) = 1
        /\ Append(frames[t], f)[Len(Append(frames[t], f))] = f
    <3>1. f \in {f} /\ frames[t] \in Seq({f})
      BY <1>1
    <3> QED BY <1>1, <3>1, AppendTop
  <2>2. frames'[t] = Append(frames[t], f)
    BY <1>1 DEF TypeOK
  <2> QED BY <2>1, <2>2, Zenon DEF Top
<1>4. CASE u # t
  <2>1. frames'[u] = frames[u]
    BY <1>1, <1>4 DEF TypeOK
  <2> QED BY <1>1, <2>1, OthersKept
<1>5. ThreadInv(t)'
  <2>1. FramesInv(t)'
    BY <1>1, <1>2, <1>3 DEF FramesInv, Compare
  <2>2. FilesInv(t)'
    BY <1>1, <1>2, <1>3 DEF ThreadInv, FilesInv, HasDevice, HasLog, Inside
  <2>3. TracingInv(t)' /\ TraceInv(t)'
    BY <1>1, <1>2, <1>3 DEF ThreadInv, TracingInv, TraceInv, IsTraced, Inside
  <2> QED BY <2>1, <2>2, <2>3 DEF ThreadInv
<1> QED BY <1>4, <1>5

---------------------------------------------------------------------------
(* The invariant and what follows from it.                                 *)

LEMMA IInvInit == Init => IInv
<1> SUFFICES ASSUME Init
             PROVE  IInv
  OBVIOUS
<1>1. TypeOK /\ process # "crashed"
  BY TypeCorrectInit DEF Init
<1>2. ASSUME NEW t \in Threads
      PROVE  ThreadInv(t)
  <2>1. frames[t] = <<>> /\ tracing[t] = Unset /\ \A fd \in Fds : file[fd] = <<"free">>
    BY DEF Init
  <2>2. ~Inside(t)
    BY <2>1 DEF Inside
  <2>3. FilesInv(t)
    BY <2>1, <2>2, Apart DEF FilesInv, HasDevice, HasLog, Own
  <2> QED BY <2>1, <2>2, <2>3 DEF ThreadInv, FramesInv, TracingInv, TraceInv, IsTraced
<1> QED BY <1>1, <1>2 DEF IInv

LEMMA IInvStep == IInv /\ [Next]_vars => IInv'
<1> SUFFICES ASSUME IInv, [Next]_vars
             PROVE  IInv'
  OBVIOUS
<1>1. TypeOK /\ TypeOK'
  BY TypeCorrectStep DEF IInv
<1>2. UNCHANGED build
  BY DEF Next, vars, Wrapper, Program, OpenDevice, SetSize, OpenLog, Map, Enable, RealCall, Disable,
     Dump, Unmap, CloseLog, CloseDevice, Dup, Close, Enter
<1> SUFFICES ASSUME ~build.signals
             PROVE  process' # "crashed" /\ \A u \in Threads : ThreadInv(u)'
  BY <1>1, <1>2 DEF IInv
<1>3. process # "crashed" /\ \A u \in Threads : ThreadInv(u)
  BY DEF IInv
<1>4. CASE UNCHANGED vars
  <2>1. \A u \in Threads : ThreadInv(u)'
    BY <1>3, <1>4, OthersKept DEF vars
  <2> QED BY <1>3, <1>4, <2>1 DEF vars
<1>5. ASSUME NEW t \in build.threads, Wrapper(t)
      PROVE  process' # "crashed" /\ \A u \in Threads : ThreadInv(u)'
  <2>1. t \in Threads /\ ThreadInv(t)
    BY <1>1, <1>3, KcovAssumption DEF TypeOK
  <2>2. ASSUME NEW u \in Threads
        PROVE  ThreadInv(u)'
    BY <1>1, <1>3, <1>5, <2>1, OpenDeviceStep, SetSizeStep, OpenLogStep, MapStep, EnableStep,
       RealCallStep, DisableStep, DumpStep, UnmapStep, CloseLogStep, CloseDeviceStep
       DEF Wrapper
  <2>3. Enable(t) \/ Dump(t) => kcov_buf[t] = "mapped"
    BY <2>1 DEF Enable, Dump, At, Running, ThreadInv, FramesInv, TracingInv, Inside
  <2>4. process' # "crashed"
    BY <1>3, <1>5, <2>3 DEF Wrapper, OpenDevice, SetSize, OpenLog, Map, Enable, RealCall, Disable,
       Dump, Unmap, CloseLog, CloseDevice, Exit
  <2> QED BY <2>2, <2>4
<1>6. ASSUME NEW t \in build.threads, Program(t)
      PROVE  process' # "crashed" /\ \A u \in Threads : ThreadInv(u)'
  <2>1. t \in Threads /\ ThreadInv(t) /\ build.calls \subseteq Calls
    BY <1>1, <1>3, KcovAssumption DEF TypeOK
  <2>2. ASSUME NEW u \in Threads
        PROVE  ThreadInv(u)'
    BY <1>1, <1>3, <1>6, <2>1, DupStep, CloseStep, EnterStep DEF Program
  <2>3. UNCHANGED process
    BY <1>6 DEF Program, Dup, Close, Enter
  <2> QED BY <1>3, <2>2, <2>3
<1> QED BY <1>4, <1>5, <1>6 DEF Next

LEMMA IInvHolds == Spec => []IInv
BY IInvInit, IInvStep, PTL DEF Spec

(* Whatever number of threads trace at a time and whatever the program     *)
(* opens and closes between their steps, each thread's kcov_device and     *)
(* kcov_log are its own device and log for as long as the library uses     *)
(* them, and outside of a wrapper none is left (coverage.c:244-301).       *)
THEOREM DescriptorsStayApart == Spec => []DescriptorsApart
<1>1. IInv => DescriptorsApart
  <2> SUFFICES ASSUME IInv
               PROVE  DescriptorsApart
    OBVIOUS
  <2>1. OwnFiles
    BY DEF IInv, OwnFiles, ThreadInv, FilesInv, HasDevice, HasLog, Inside, Running
  <2>2. NothingLeft
    BY DEF IInv, NothingLeft, ThreadInv, FilesInv, TracingInv, IsTraced, HasDevice, HasLog, Inside
  <2>3. NotReentered
    BY DEF IInv, NotReentered, ThreadInv, FramesInv
  <2> QED BY <2>1, <2>2, <2>3 DEF DescriptorsApart
<1> QED BY <1>1, IInvHolds, PTL

(* A selected call runs traced and one that is not selected does not, and  *)
(* the entry of a traced call is in the log when its wrapper closes the    *)
(* log, for any buffer of two entries or more (coverage.c:207-301).        *)
THEOREM SelectedCallsAreLogged == Spec => []TracedAndLogged
<1>1. IInv => TracedAndLogged
  <2> SUFFICES ASSUME IInv
               PROVE  TracedAndLogged
    OBVIOUS
  <2>1. TracedIffSelected
    <3> SUFFICES ASSUME NEW t \in Threads, ~build.signals, At(t, "call"), Top(t).call # "ioctl"
                 PROVE  tracing[t] # Unset <=> Compare(Top(t).call)
      BY DEF TracedIffSelected, TracedAsSelected
    <3>1. ThreadInv(t) /\ frames[t] # <<>> /\ Top(t).at = "call"
      BY DEF IInv, At, Running
    <3>2. Top(t).traced <=> Compare(Top(t).call)
      BY <3>1 DEF ThreadInv, FramesInv
    <3>3. CASE Top(t).traced
      BY <3>1, <3>2, <3>3, UnsetIsNoDescriptor
         DEF ThreadInv, FilesInv, TracingInv, HasDevice, IsTraced, Inside
    <3>4. CASE ~Top(t).traced
      BY <3>1, <3>2, <3>4 DEF ThreadInv, TracingInv, IsTraced, Inside
    <3> QED BY <3>3, <3>4
  <2>2. CallLogged
    BY DEF IInv, CallLogged, ThreadInv, TraceInv, Inside, Running
  <2> QED BY <2>1, <2>2 DEF TracedAndLogged
<1> QED BY <1>1, IInvHolds, PTL

(* Without handlers that make wrapped calls, no wrapper ever writes to or  *)
(* reads from a buffer that is not mapped: the process may run out of      *)
(* descriptors but does not crash (coverage.c:280, 290-298).               *)
THEOREM OnlyMappedBuffersUsed == Spec => [](~build.signals => process # "crashed")
<1>1. IInv => (~build.signals => process # "crashed")
  BY DEF IInv
<1> QED BY <1>1, IInvHolds, PTL
=============================================================================
