------------------------------- MODULE Kcov -------------------------------
(***************************************************************************)
(* libcoverage/coverage.c: the preloaded library that wraps system calls   *)
(* so that each selected one runs with kernel coverage tracing on.  A      *)
(* wrapper opens /dev/kcov and the log, maps the trace buffer, enables     *)
(* tracing for the thread, makes the call, disables tracing, appends the   *)
(* trace to the log and closes everything again.                           *)
(*                                                                         *)
(* The descriptor table is the process's; kcov_device, kcov_log and        *)
(* kcov_buf are per thread, and keep their last value after kcov_done.     *)
(* The kernel's side of /dev/kcov is as the library uses it: one device    *)
(* traces one thread, and a thread is traced by one device at most.        *)
(***************************************************************************)
EXTENDS Integers, Sequences, FiniteSets

CONSTANTS
    Threads,
    Fds,            \* the descriptor table, an interval of numbers
    Calls,          \* the wrapped calls; the library makes one of them,
                    \* write, when it has an error to report
    Target,         \* SYSCALL_TRACE_NUMBER
    Builds,         \* the situations a behaviour may start in, see build
    BufSize,        \* KCOV_BUF_SIZE, in entries
    MaxApp          \* bound: descriptors the program holds at once

Unset == -420       \* KCOV_DEV_NULL

ASSUME KcovAssumption ==
    /\ IsFiniteSet(Fds) /\ Fds \subseteq Nat /\ Fds # {}
    /\ "write" \in Calls /\ Calls \subseteq {"accept", "read", "write", "ioctl"}
    /\ Builds \subseteq [threads : SUBSET Threads, calls : SUBSET Calls,
                          inclusive : BOOLEAN, signals : BOOLEAN, limit : Nat]
    /\ BufSize \in Nat /\ BufSize >= 2
    /\ MaxApp \in Nat

VARIABLES
    build,          \* the program's threads and calls, whether its signal
                    \* handlers make them too, -DINCLUSIVE, and the limit
                    \* on its descriptors
    file,           \* what each descriptor is
    kcov_device, kcov_log,
    kcov_buf,       \* what kcov_buf points to: nothing, a mapping, a hole
    trace,          \* the entries of the mapped buffer, as their calls
    tracing,        \* the device the kernel traces the thread into
    frames,         \* the wrapper calls in progress, innermost last
    logged,         \* the calls whose entries are in the log
    process         \* "running", or how it ended

vars == <<build, file, kcov_device, kcov_log, kcov_buf, trace, tracing, frames, logged, process>>
tls  == <<kcov_device, kcov_log, kcov_buf>>

Compare(call) == IF build.inclusive THEN call = Target ELSE call # Target

Places == {"open", "size", "log", "map", "enable", "call", "disable", "dump",
           "unmap", "closeLog", "closeDevice"}
Makers == {"program", "handler", "library"}
Frame  == [call : Calls, by : Makers, traced : BOOLEAN, at : Places]
Files  == {<<"free">>, <<"app">>} \cup ({"kcov", "log"} \X Threads)

TypeOK ==
    /\ build \in Builds
    /\ file \in [Fds -> Files]
    /\ kcov_device \in [Threads -> Fds \cup {Unset}]
    /\ kcov_log \in [Threads -> Fds \cup {Unset}]
    /\ kcov_buf \in [Threads -> {"null", "mapped", "hole"}]
    /\ trace \in [Threads -> Seq(Calls \cup {"disable"})]
    /\ tracing \in [Threads -> Fds \cup {Unset}]
    /\ frames \in [Threads -> Seq(Frame)]
    /\ logged \subseteq Calls \cup {"disable"}
    /\ process \in {"running", "exited", "crashed"}

Init ==
    /\ build \in Builds
    /\ file = [fd \in Fds |-> <<"free">>]
    /\ kcov_device = [t \in Threads |-> Unset]
    /\ kcov_log = [t \in Threads |-> Unset]
    /\ kcov_buf = [t \in Threads |-> "null"]
    /\ trace = [t \in Threads |-> <<>>]
    /\ tracing = [t \in Threads |-> Unset]
    /\ frames = [t \in Threads |-> <<>>]
    /\ logged = {}
    /\ process = "running"

---------------------------------------------------------------------------
Free   == {fd \in Fds : fd <= build.limit /\ file[fd] = <<"free">>}
Lowest == CHOOSE fd \in Free : \A f \in Free : fd <= f
App    == {fd \in Fds : file[fd] = <<"app">>}

Top(t)     == frames[t][Len(frames[t])]
Running(t) == process = "running" /\ frames[t] # <<>>
At(t, place) == Running(t) /\ Top(t).at = place
Goto(t, place) == frames' = [frames EXCEPT ![t][Len(frames[t])].at = place]
Pop(t) == frames' = [frames EXCEPT ![t] = SubSeq(@, 1, Len(@) - 1)]

Exit == process' = "exited"

(* A call as its wrapper begins, traced or passed through.                 *)
Wrapped(call, maker, traced) ==
    [call |-> call, by |-> maker, traced |-> traced,
     at |-> IF traced THEN "open" ELSE "call"]

(* The wrapper calls in progress that the program or a handler made.       *)
Made(t) == {i \in 1 .. Len(frames[t]) : frames[t][i].by # "library"}

(* A wrapper is entered, from the program or from a signal handler that    *)
(* interrupts another wrapper, one handler at a time.  An ioctl on the     *)
(* number in kcov_device is passed through.  So is the open of a path that *)
(* begins with /dev/kcov, which the program does not make.                 *)
Enter(t, call, fd) ==
    /\ process = "running"
    /\ frames[t] = <<>> \/ (build.signals /\ Cardinality(Made(t)) = 1)
    /\ fd \in IF call = "ioctl" THEN App ELSE {Unset}
    /\ frames' = [frames EXCEPT ![t] = Append(@,
          Wrapped(call, IF @ = <<>> THEN "program" ELSE "handler",
                  Compare(call) /\ ~(call = "ioctl" /\ fd = kcov_device[t])))]
    /\ UNCHANGED <<build, file, tls, trace, tracing, logged, process>>

(* Mutant: kcov_device is one variable of the process.                     *)
OpenDevice_Shared(t) ==
    /\ At(t, "open") /\ Free # {}
    /\ kcov_device' = [u \in Threads |-> Lowest]
    /\ file' = [file EXCEPT ![Lowest] = <<"kcov", t>>]
    /\ Goto(t, "size")
    /\ UNCHANGED <<build, kcov_log, kcov_buf, trace, tracing, logged, process>>

(* kcov_startup: open the device                                           *)
OpenDevice(t) ==
    /\ At(t, "open")
    /\ IF Free = {} THEN Exit /\ UNCHANGED <<file, kcov_device, frames>>
       ELSE /\ kcov_device' = [kcov_device EXCEPT ![t] = Lowest]
            /\ file' = [file EXCEPT ![Lowest] = <<"kcov", t>>]
            /\ Goto(t, "size")
            /\ UNCHANGED process
    /\ UNCHANGED <<build, kcov_log, kcov_buf, trace, tracing, logged>>

(* KIOSETBUFSIZE; the kernel has the memory for the buffer.                *)
SetSize(t) ==
    /\ At(t, "size")
    /\ IF file[kcov_device[t]] # <<"kcov", t>> THEN Exit /\ UNCHANGED frames
       ELSE Goto(t, "log") /\ UNCHANGED process
    /\ UNCHANGED <<build, file, tls, trace, tracing, logged>>

(* Mutant: opening the log is tried until there is a descriptor for it.    *)
OpenLog_Retries(t) ==
    /\ At(t, "log") /\ Free # {}
    /\ kcov_log' = [kcov_log EXCEPT ![t] = Lowest]
    /\ file' = [file EXCEPT ![Lowest] = <<"log", t>>]
    /\ Goto(t, "map")
    /\ UNCHANGED <<build, kcov_device, kcov_buf, trace, tracing, logged, process>>

OpenLog(t) ==
    /\ At(t, "log")
    /\ IF Free = {} THEN Exit /\ UNCHANGED <<file, kcov_log, frames>>
       ELSE /\ kcov_log' = [kcov_log EXCEPT ![t] = Lowest]
            /\ file' = [file EXCEPT ![Lowest] = <<"log", t>>]
            /\ Goto(t, "map")
            /\ UNCHANGED process
    /\ UNCHANGED <<build, kcov_device, kcov_buf, trace, tracing, logged>>

Map(t) ==
    /\ At(t, "map")
    /\ IF file[kcov_device[t]] # <<"kcov", t>>
       THEN Exit /\ UNCHANGED <<kcov_buf, frames>>
       ELSE /\ kcov_buf' = [kcov_buf EXCEPT ![t] = "mapped"]
            /\ Goto(t, "enable")
            /\ UNCHANGED process
    /\ UNCHANGED <<build, file, kcov_device, kcov_log, trace, tracing, logged>>

(* KIOENABLE, whose failure is only reported, and kcov_buf[0] = 0          *)
Enable(t) ==
    /\ At(t, "enable")
    /\ tracing' = [tracing EXCEPT ![t] =
          IF @ = Unset /\ file[kcov_device[t]] = <<"kcov", t>> THEN kcov_device[t] ELSE @]
    /\ IF kcov_buf[t] = "hole"
       THEN process' = "crashed" /\ UNCHANGED <<trace, frames>>
       ELSE trace' = [trace EXCEPT ![t] = <<>>] /\ Goto(t, "call") /\ UNCHANGED process
    /\ UNCHANGED <<build, file, tls, logged>>

(* What the kernel adds to the buffer, as far as there is room for it.     *)
Traced(entries, more) ==
    LET all == entries \o more
    IN  SubSeq(all, 1, IF Len(all) <= BufSize THEN Len(all) ELSE BufSize)

(* The thread is traced into its kcov_device, whose buffer is kcov_buf's.  *)
TracedHere(t) == tracing[t] # Unset /\ tracing[t] = kcov_device[t]

(* The system call itself: it leaves its entries in the buffer when the    *)
(* thread is traced into it.                                               *)
RealCall(t) ==
    /\ At(t, "call")
    /\ trace' = [trace EXCEPT ![t] =
          IF TracedHere(t) THEN Traced(@, <<Top(t).call>>) ELSE @]
    /\ file' = IF Top(t).call = "accept" /\ Free # {} /\ Cardinality(App) < MaxApp
               THEN [file EXCEPT ![Lowest] = <<"app">>] ELSE file
    /\ IF Top(t).traced THEN Goto(t, "disable") ELSE Pop(t)
    /\ UNCHANGED <<build, tls, tracing, logged, process>>

(* Mutant: tracing is ended from outside of the trace.                     *)
Disable_Silent(t) ==
    /\ At(t, "disable")
    /\ tracing' = [tracing EXCEPT ![t] = Unset]
    /\ Goto(t, "dump")
    /\ UNCHANGED <<build, file, tls, trace, logged, process>>

(* kcov_done: KIODISABLE leaves entries of its own before tracing is off.  *)
(* On a device that does not trace the thread it fails, and PRINTF makes a *)
(* call that is wrapped like any other: when write is selected, that is    *)
(* another kcov_startup and kcov_done before this one goes on.             *)
Disable(t) ==
    /\ At(t, "disable")
    /\ IF TracedHere(t)
       THEN /\ trace' = [trace EXCEPT ![t] = Traced(@, <<"disable", "disable">>)]
            /\ tracing' = [tracing EXCEPT ![t] = Unset]
            /\ Goto(t, "dump")
       ELSE /\ frames' = [frames EXCEPT ![t] =
                  Append([@ EXCEPT ![Len(@)].at = "dump"],
                         Wrapped("write", "library", Compare("write")))]
            /\ UNCHANGED <<trace, tracing>>
    /\ UNCHANGED <<build, file, tls, logged, process>>

(* for (i = 1; i < kcov_buf[0]; i++): the last entry is not written        *)
Dump(t) ==
    /\ At(t, "dump")
    /\ IF kcov_buf[t] = "hole"
       THEN process' = "crashed" /\ UNCHANGED <<logged, frames>>
       ELSE /\ logged' = logged \cup
                  (IF file[kcov_log[t]] = <<"log", t>>
                   THEN {trace[t][i] : i \in 1 .. Len(trace[t]) - 1} ELSE {})
            /\ Goto(t, "unmap")
            /\ UNCHANGED process
    /\ UNCHANGED <<build, file, tls, trace, tracing>>

Unmap(t) ==
    /\ At(t, "unmap")
    /\ kcov_buf' = [kcov_buf EXCEPT ![t] = "hole"]
    /\ Goto(t, "closeLog")
    /\ UNCHANGED <<build, file, kcov_device, kcov_log, trace, tracing, logged, process>>

(* Mutants: the log is left open; the device is closed in its place.       *)
CloseLog_Leaks(t) ==
    /\ At(t, "closeLog")
    /\ Goto(t, "closeDevice")
    /\ UNCHANGED <<build, file, tls, trace, tracing, logged, process>>

CloseLog_ClosesDevice(t) ==
    /\ At(t, "closeLog")
    /\ file' = [file EXCEPT ![kcov_device[t]] = <<"free">>]
    /\ Goto(t, "closeDevice")
    /\ UNCHANGED <<build, tls, trace, tracing, logged, process>>

CloseLog(t) ==
    /\ At(t, "closeLog")
    /\ file' = [file EXCEPT ![kcov_log[t]] = <<"free">>]
    /\ Goto(t, "closeDevice")
    /\ UNCHANGED <<build, tls, trace, tracing, logged, process>>

(* Closing the device a thread is traced into ends the tracing.            *)
CloseDevice(t) ==
    /\ At(t, "closeDevice")
    /\ file' = [file EXCEPT ![kcov_device[t]] = <<"free">>]
    /\ tracing' = [u \in Threads |->
          IF tracing[u] = kcov_device[t] THEN Unset ELSE tracing[u]]
    /\ Pop(t)
    /\ UNCHANGED <<build, tls, trace, logged, process>>

---------------------------------------------------------------------------
(* Calls of the program that the library does not wrap: they make and      *)
(* close descriptors (dup, pipe, kqueue, close).                           *)
Dup(t) ==
    /\ process = "running" /\ frames[t] = <<>>
    /\ Free # {} /\ Cardinality(App) < MaxApp
    /\ file' = [file EXCEPT ![Lowest] = <<"app">>]
    /\ UNCHANGED <<build, tls, trace, tracing, frames, logged, process>>

Close(t, fd) ==
    /\ process = "running" /\ frames[t] = <<>>
    /\ fd \in App
    /\ file' = [file EXCEPT ![fd] = <<"free">>]
    /\ UNCHANGED <<build, tls, trace, tracing, frames, logged, process>>

---------------------------------------------------------------------------
Wrapper(t) == \/ OpenDevice(t) \/ SetSize(t) \/ OpenLog(t) \/ Map(t) \/ Enable(t)
              \/ RealCall(t) \/ Disable(t) \/ Dump(t) \/ Unmap(t) \/ CloseLog(t)
              \/ CloseDevice(t)

Program(t) == \/ Dup(t)
              \/ \E fd \in Fds : Close(t, fd)
              \/ \E call \in build.calls, fd \in Fds \cup {Unset} : Enter(t, call, fd)

Next == \E t \in build.threads : Wrapper(t) \/ Program(t)

Spec     == Init /\ [][Next]_vars
FairSpec == Spec /\ \A t \in Threads : WF_vars(Wrapper(t))

---------------------------------------------------------------------------
(* The library only ever closes, maps and writes its own descriptors: from *)
(* the moment one is opened to the moment it is closed, the number in      *)
(* kcov_device (kcov_log) is this thread's device (log), whatever the      *)
(* other threads open and close meanwhile.  Like everything below that     *)
(* rests on the per-thread variables, it is not claimed when a signal      *)
(* handler makes wrapped calls: its kcov_startup overwrites them.  The     *)
(* variables keep their types in any case.                                 *)
OwnFiles ==
    /\ TypeOK
    /\ \A t \in Threads : ~build.signals /\ Running(t) /\ Top(t).traced =>
          /\ Top(t).at # "open" => file[kcov_device[t]] = <<"kcov", t>>
          /\ Top(t).at \notin {"open", "size", "log", "closeDevice"} =>
                file[kcov_log[t]] = <<"log", t>>

(* No call that the library makes goes through a wrapper of its own.       *)
NotReentered == \A t \in Threads : ~build.signals => Len(frames[t]) <= 1

(* A thread that is in no wrapper holds no descriptor of the library's and *)
(* is not traced, so the program finds the descriptor numbers it would     *)
(* find without the library.                                               *)
NothingLeft == \A t \in Threads : ~build.signals /\ frames[t] = <<>> =>
    /\ tracing[t] = Unset
    /\ \A fd \in Fds : file[fd] \notin {<<"kcov", t>>, <<"log", t>>}

(* The descriptors of the library and of the program never mix: the        *)
(* library uses its own only, does not enter itself while it does, and     *)
(* leaves none of them to the program.                                     *)
DescriptorsApart == OwnFiles /\ NotReentered /\ NothingLeft

(* "we need to capture kernel coverage for everything EXCEPT that specific *)
(* call" (README.md:7), and the inclusive build the reverse: a wrapped     *)
(* call runs traced exactly when it is selected.                           *)
TracedAsSelected(t) == tracing[t] # Unset <=> Compare(Top(t).call)

TracedIffSelected == \A t \in Threads :
    ~build.signals /\ At(t, "call") /\ Top(t).call # "ioctl" => TracedAsSelected(t)

(* The same for the ioctl of the program, which the library tells from its *)
(* own by the number in kcov_device (coverage.c:212).                      *)
IoctlTracedIffSelected == \A t \in Threads :
    At(t, "call") /\ Top(t).call = "ioctl" => TracedAsSelected(t)

(* What a traced call left in the buffer reaches the log, although the     *)
(* loop of kcov_done stops one entry early and threads share the log.      *)
CallLogged == \A t \in Threads :
    /\ ~build.signals
    /\ Running(t) /\ Top(t).traced /\ Top(t).at \in {"unmap", "closeLog", "closeDevice"}
    => Top(t).call \in logged

TracedAndLogged == TracedIffSelected /\ CallLogged

(* Every wrapped call that nothing interrupts for ever returns, unless the *)
(* library runs out of descriptors and ends the process.  A handler's call *)
(* may find the thread traced into the device of the call it interrupts:   *)
(* then its KIODISABLE fails, and where write is selected the library      *)
(* reports it through itself again and again, until no descriptor is left. *)
LastInterrupt == IF build.signals THEN 2 ELSE 1

WrappersReturn == \A t \in Threads :
    Cardinality(Made(t)) = LastInterrupt
        ~> \/ Cardinality(Made(t)) < LastInterrupt
           \/ process = "exited" /\ Free = {}
===========================================================================
