------------------------------ MODULE AeFile ------------------------------
(***************************************************************************)
(* One event loop (wrk/src/ae.c) under an arbitrary program: aeMain polls, *)
(* dispatches the fired entries one after the other and runs the timers,   *)
(* and every callback may register and delete file events, close           *)
(* descriptors it has deleted and open new ones, in any order and number.  *)
(* Readiness changes under the loop at any moment.                         *)
(*                                                                         *)
(* The operators of module Ae are the calls; this module is the loop.      *)
(***************************************************************************)
EXTENDS Ae

CONSTANT
    ReadySets   \* the readiness a descriptor can have

ASSUME ReadySetsAssumption ==
    ReadySets \subseteq SUBSET {"R", "W", "H"} /\ {} \in ReadySets

VARIABLES
    ae,         \* the loop's tables and the kernel's (module Ae)
    live,       \* the descriptors that are open
    ready,      \* what each descriptor could do now
    fired,      \* the fired entries still to be processed, head first
    rfired,     \* the local of aeProcessEvents, for the head entry
    step        \* where aeProcessEvents is

vars == <<ae, live, ready, fired, rfired, step>>

Steps    == {"poll", "R", "inR", "W", "inW", "timers", "aborted"}
Callback == step \in {"inR", "inW", "timers"}

TypeOK ==
    /\ ae \in EventLoop
    /\ live \in SUBSET Fds
    /\ ready \in [Fds -> ReadySets]
    /\ fired \in Seq(Entry)
    /\ rfired \in BOOLEAN
    /\ step \in Steps
    /\ step \in {"R", "inR", "W", "inW"} => fired # <<>>

(* Before aeMain the program registers from its own code: thread_main      *)
(* connects its sockets first, so the loop starts where callbacks run.     *)
Init ==
    /\ \E api \in Backends : ae = CreateEventLoop(api)
    /\ live = Fds
    /\ ready = [fd \in Fds |-> {}]
    /\ fired = <<>>
    /\ rfired = FALSE
    /\ step = "timers"

---------------------------------------------------------------------------
(* aeProcessEvents                                                         *)

Poll ==
    /\ step = "poll" /\ ~Aborts(ae, live)
    /\ LET S == Fired(ae, ready) IN
       /\ \E s \in Orders(ae, S) : fired' = s
       /\ ae' = AfterPoll(ae, S)
       /\ step' = IF S = {} THEN "timers" ELSE "R"
    /\ rfired' = FALSE
    /\ UNCHANGED <<live, ready>>

(* A program that deletes what it registered before it closes a descriptor *)
(* still gets here: what it deleted one bit at a time stays associated.    *)
PollAborts ==
    /\ step = "poll" /\ Aborts(ae, live)
    /\ step' = "aborted"
    /\ UNCHANGED <<ae, live, ready, fired, rfired>>

CheckReadable ==
    /\ step = "R"
    /\ LET call == CallsReadable(ae, Head(fired)) IN
       /\ rfired' = call
       /\ step' = IF call THEN "inR" ELSE "W"
    /\ UNCHANGED <<ae, live, ready, fired>>

(* Mutant: the loop over the fired entries runs one too far.               *)
CheckWritable_RunsOn ==
    /\ step = "W"
    /\ ~CallsWritable(ae, Head(fired), rfired)
    /\ fired' = Tail(fired) /\ rfired' = FALSE /\ step' = "R"
    /\ UNCHANGED <<ae, live, ready>>

CheckWritable ==
    /\ step = "W"
    /\ IF CallsWritable(ae, Head(fired), rfired)
       THEN step' = "inW" /\ UNCHANGED <<fired, rfired>>
       ELSE /\ fired' = Tail(fired)
            /\ rfired' = FALSE
            /\ step' = IF Tail(fired) = <<>> THEN "timers" ELSE "R"
    /\ UNCHANGED <<ae, live, ready>>

ReadableReturns ==
    /\ step = "inR"
    /\ step' = "W"
    /\ UNCHANGED <<ae, live, ready, fired, rfired>>

WritableReturns ==
    /\ step = "inW"
    /\ fired' = Tail(fired)
    /\ rfired' = FALSE
    /\ step' = IF Tail(fired) = <<>> THEN "timers" ELSE "R"
    /\ UNCHANGED <<ae, live, ready>>

TimersReturn ==
    /\ step = "timers"
    /\ step' = "poll"
    /\ UNCHANGED <<ae, live, ready, fired, rfired>>

---------------------------------------------------------------------------
(* What a callback may do                                                  *)

Create(fd, m, proc, owner) ==
    /\ Callback
    /\ fd \in live
    /\ ae' = CreateFileEvent(ae, live, fd, m, proc, owner)
    /\ UNCHANGED <<live, ready, fired, rfired, step>>

Delete(fd, m) ==
    /\ Callback
    /\ ae' = DeleteFileEvent(ae, fd, m)
    /\ UNCHANGED <<live, ready, fired, rfired, step>>

Close(fd) ==            \* wrk deletes both events before every close
    /\ Callback
    /\ fd \in live
    /\ ae.mask[fd] = {}
    /\ live' = live \ {fd}
    /\ ready' = [ready EXCEPT ![fd] = {}]
    /\ ae' = CloseFd(ae, fd)
    /\ UNCHANGED <<fired, rfired, step>>

Open(fd) ==
    /\ Callback
    /\ fd \in Fds \ live
    /\ live' = live \cup {fd}
    /\ UNCHANGED <<ae, ready, fired, rfired, step>>

(* The peer, or the handler by reading and writing, changes readiness.     *)
Readiness(fd, r) ==
    /\ fd \in live
    /\ ready' = [ready EXCEPT ![fd] = r]
    /\ UNCHANGED <<ae, live, fired, rfired, step>>

---------------------------------------------------------------------------
LoopStep == \/ Poll \/ PollAborts \/ CheckReadable \/ CheckWritable
            \/ ReadableReturns \/ WritableReturns \/ TimersReturn

AppStep == \E fd \in Fds :
    \/ \E m \in Masks \ {{}}, p \in Procs, o \in Owners : Create(fd, m, p, o)
    \/ \E m \in Masks \ {{}} : Delete(fd, m)
    \/ Close(fd)
    \/ Open(fd)

EnvStep == \E fd \in Fds, r \in ReadySets : Readiness(fd, r)

Ended == step = "aborted" /\ UNCHANGED vars

Next == LoopStep \/ AppStep \/ EnvStep \/ Ended

Spec == Init /\ [][Next]_vars

(* The loop never blocks for ever on itself: aeProcessEvents always comes  *)
(* back from the poll (record_rate keeps a timer armed) and every callback *)
(* returns.                                                                *)
FairSpec == Spec /\ WF_vars(LoopStep)

---------------------------------------------------------------------------
(* What the kernel is watching on fd, or will be again when the loop polls *)
Interest(fd) == Rearmed(ae).watch[fd]

(* The back end watches exactly the events the loop's table says are       *)
(* registered, through every interleaving of registering, deleting,        *)
(* closing and polling; an ADD where the kernel wants a MOD, or a mask     *)
(* that is stale when it is used, breaks it (ae_epoll.c:73-106).  evport   *)
(* is excepted: it re-associates the loop's own mask and relies on the     *)
(* caller having updated that (ae_evport.c:213), which aeDeleteFileEvent   *)
(* has not (ae.c:161), so what was deleted is put back.                    *)
BackendInSync ==
    ae.api # "evport" => \A fd \in Fds : Interest(fd) = ae.mask[fd]

(* maxfd is the highest registered descriptor, -1 if there is none: select *)
(* only looks at 0..maxfd (ae_select.c:84-87) and aeProcessEvents only     *)
(* polls files when it is not -1 (ae.c:360).                               *)
MaxFdExact ==
    /\ ae.maxfd # -1 => ae.mask[ae.maxfd] # {}
    /\ \A fd \in Fds : fd > ae.maxfd => ae.mask[fd] = {}

(* Each evport association is EITHER in the kernel OR pending, and pending *)
(* ones only exist between two polls (ae_evport.c:60-64).                  *)
EitherKernelOrPending ==
    \A fd \in Fds : ~(ae.watch[fd] # {} /\ ae.pend[fd] # {})

(* A readiness the loop was asked to watch is not lost: an event that is   *)
(* registered and ready either stops being so or reaches a handler, also   *)
(* with evport, which must re-associate what it returned.  kqueue may have *)
(* two entries for each descriptor and lists setsize of them in one poll:  *)
(* which ones is the kernel's choice, so nothing is claimed for it.        *)
Served(fd, x) ==
    /\ step \in {"inR", "inW"}
    /\ Head(fired).fd = fd
    /\ \/ step = (IF x = "R" THEN "inR" ELSE "inW")
       \/ step = "inR" /\ ae.rproc[fd] = ae.wproc[fd]

NoLostReadiness ==
    \A fd \in Fds, x \in Ev :
        []<>(ae.api = "kqueue" \/ step = "aborted" \/ x \notin ae.mask[fd] \/ x \notin ready[fd] \/ Served(fd, x))
===========================================================================
