-------------------------------- MODULE Ae --------------------------------
(***************************************************************************)
(* The file-event half of wrk's event loop (wrk/src/ae.c) and its four     *)
(* kernel back ends (ae_epoll.c, ae_kqueue.c, ae_select.c, ae_evport.c),   *)
(* as operators on one record that holds the loop's tables together with   *)
(* what the kernel has been told:                                          *)
(*   api                        the back end the build includes             *)
(*   mask, rproc, wproc, data   events[fd].mask, .rfileProc, .wfileProc,   *)
(*                              .clientData                                *)
(*   maxfd                      eventLoop->maxfd                           *)
(*   watch                      what the kernel object watches on fd       *)
(*   pend                       evport only: pending_fds/pending_masks,    *)
(*                              {} when fd is not pending                  *)
(* A mask is the set of its bits.  The operators are pure, so that a       *)
(* handler that registers, deletes and closes several times is their       *)
(* composition.                                                            *)
(***************************************************************************)
EXTENDS Integers, FiniteSets, Sequences

CONSTANTS
    SetSize,    \* eventLoop->setsize: the tables have SetSize slots
    Backends,   \* the ae_*.c files a build may include (ae.c:46-61)
    Procs,      \* the aeFileProc functions the program registers
    Owners,     \* the clientData pointers it registers
    NoProc,     \* an uninitialised rfileProc or wfileProc
    NoOwner     \* an uninitialised clientData

ASSUME SetSizeAssumption == SetSize \in Nat \ {0}
ASSUME BackendAssumption == Backends \subseteq {"epoll", "kqueue", "select", "evport"}
ASSUME NoneAssumption    == NoProc \notin Procs /\ NoOwner \notin Owners

Fds   == 0 .. SetSize - 1
Ev    == {"R", "W"}             \* AE_READABLE, AE_WRITABLE
Masks == SUBSET Ev
Entry == [fd : Fds, mask : Masks]     \* aeFiredEvent

EventLoop ==
    [api   : Backends,
     mask  : [Fds -> Masks],
     rproc : [Fds -> Procs \cup {NoProc}],
     wproc : [Fds -> Procs \cup {NoProc}],
     data  : [Fds -> Owners \cup {NoOwner}],
     maxfd : -1 .. SetSize - 1,
     watch : [Fds -> Masks],
     pend  : [Fds -> Masks]]

CreateEventLoop(api) ==
    [api   |-> api,
     mask  |-> [fd \in Fds |-> {}],
     rproc |-> [fd \in Fds |-> NoProc],
     wproc |-> [fd \in Fds |-> NoProc],
     data  |-> [fd \in Fds |-> NoOwner],
     maxfd |-> -1,
     watch |-> [fd \in Fds |-> {}],
     pend  |-> [fd \in Fds |-> {}]]

---------------------------------------------------------------------------
(* aeApiAddEvent.  "live" is the set of open descriptors.  epoll picks ADD *)
(* or MOD from the loop's own mask, so the call fails when that mask and   *)
(* the kernel disagree; select never looks at the descriptor.              *)

ApiAddOk(ae, live, fd) ==
    CASE ae.api = "epoll"  -> fd \in live /\ (ae.mask[fd] = {} <=> ae.watch[fd] = {})
      [] ae.api = "kqueue" -> fd \in live
      [] ae.api = "select" -> TRUE
      [] ae.api = "evport" -> ae.pend[fd] # {} \/ fd \in live

EpollAddEvent(ae, fd, m)  == [ae EXCEPT !.watch[fd] = ae.mask[fd] \cup m]
KqueueAddEvent(ae, fd, m) == [ae EXCEPT !.watch[fd] = ae.watch[fd] \cup m]
SelectAddEvent(ae, fd, m) == [ae EXCEPT !.watch[fd] = ae.watch[fd] \cup m]

(* Mutant: evport associates a descriptor that is pending.                 *)
EvportAddEvent_NotPending(ae, fd, m) == [ae EXCEPT !.watch[fd] = ae.mask[fd] \cup m]

EvportAddEvent(ae, fd, m) ==
    IF ae.pend[fd] # {}
    THEN [ae EXCEPT !.pend[fd] = ae.pend[fd] \cup m \cup ae.mask[fd]]
    ELSE [ae EXCEPT !.watch[fd] = ae.mask[fd] \cup m]

ApiAddEvent(ae, fd, m) ==
    CASE ae.api = "epoll"  -> EpollAddEvent(ae, fd, m)
      [] ae.api = "kqueue" -> KqueueAddEvent(ae, fd, m)
      [] ae.api = "select" -> SelectAddEvent(ae, fd, m)
      [] ae.api = "evport" -> EvportAddEvent(ae, fd, m)

(* Mutant: an "else if" between the two bits of the mask.                  *)
ApiDelEvent_OneBit(ae, fd, m) ==
    [ae EXCEPT !.watch[fd] = ae.watch[fd] \ (IF "R" \in m THEN {"R"} ELSE m)]

(* aeApiDelEvent.  All back ends see the mask as it is BEFORE the caller   *)
(* removes m from it; evport re-associates that old mask.                  *)
EpollDelEvent(ae, fd, m) ==
    [ae EXCEPT !.watch[fd] = IF ae.watch[fd] = {} THEN {} ELSE ae.mask[fd] \ m]

KqueueDelEvent(ae, fd, m) == [ae EXCEPT !.watch[fd] = ae.watch[fd] \ m]
SelectDelEvent(ae, fd, m) == [ae EXCEPT !.watch[fd] = ae.watch[fd] \ m]

EvportDelEvent(ae, fd, m) ==
    IF ae.pend[fd] # {}
    THEN [ae EXCEPT !.pend[fd] = ae.pend[fd] \ m]
    ELSE [ae EXCEPT !.watch[fd] = ae.mask[fd]]

ApiDelEvent(ae, fd, m) ==
    CASE ae.api = "epoll"  -> EpollDelEvent(ae, fd, m)
      [] ae.api = "kqueue" -> KqueueDelEvent(ae, fd, m)
      [] ae.api = "select" -> SelectDelEvent(ae, fd, m)
      [] ae.api = "evport" -> EvportDelEvent(ae, fd, m)

---------------------------------------------------------------------------
CanCreate(ae, live, fd) == fd < SetSize /\ ApiAddOk(ae, live, fd)

CreateFileEvent(ae, live, fd, m, proc, owner) ==
    IF ~CanCreate(ae, live, fd) THEN ae
    ELSE LET a == ApiAddEvent(ae, fd, m) IN
         [a EXCEPT !.mask[fd]  = ae.mask[fd] \cup m,
                   !.rproc[fd] = IF "R" \in m THEN proc ELSE ae.rproc[fd],
                   !.wproc[fd] = IF "W" \in m THEN proc ELSE ae.wproc[fd],
                   !.data[fd]  = owner,
                   !.maxfd     = IF fd > ae.maxfd THEN fd ELSE ae.maxfd]

(* The downward scan of aeDeleteFileEvent: the last armed slot below top,  *)
(* or -1.                                                                  *)
LastArmed(mask, top) ==
    CHOOSE j \in -1 .. top - 1 :
        /\ j = -1 \/ mask[j] # {}
        /\ \A k \in j + 1 .. top - 1 : mask[k] = {}

(* Mutant: maxfd is lowered although a bit of the mask is left.            *)
DeleteFileEvent_LowersAlways(ae, fd, m) ==
    IF fd >= SetSize \/ ae.mask[fd] = {} THEN ae
    ELSE LET a    == ApiDelEvent(ae, fd, m)
             mask == [ae.mask EXCEPT ![fd] = ae.mask[fd] \ m]
         IN  [a EXCEPT !.mask  = mask,
                       !.maxfd = IF fd = ae.maxfd THEN LastArmed(mask, ae.maxfd)
                                 ELSE ae.maxfd]

DeleteFileEvent(ae, fd, m) ==
    IF fd >= SetSize \/ ae.mask[fd] = {} THEN ae
    ELSE LET a    == ApiDelEvent(ae, fd, m)
             mask == [ae.mask EXCEPT ![fd] = ae.mask[fd] \ m]
         IN  [a EXCEPT !.mask  = mask,
                       !.maxfd = IF fd = ae.maxfd /\ mask[fd] = {}
                                 THEN LastArmed(mask, ae.maxfd)
                                 ELSE ae.maxfd]

(* What close(fd) does to the kernel object: it forgets the descriptor,    *)
(* except for the user-space fd_set of select.                             *)
CloseFd(ae, fd) ==
    IF ae.api = "select" THEN ae ELSE [ae EXCEPT !.watch[fd] = {}]

---------------------------------------------------------------------------
(* aeApiPoll.  "ready[fd]" is what the descriptor could do now: R, W, and  *)
(* H for an error or hang-up, which epoll reports as AE_WRITABLE whatever  *)
(* was asked for.                                                          *)

(* Mutant: the pending descriptors are forgotten.                          *)
Rearmed_Forgets(ae) == [ae EXCEPT !.pend = [fd \in Fds |-> {}]]

Rearmed(ae) ==      \* evport puts the pending descriptors back first
    [ae EXCEPT !.watch = [fd \in Fds |-> IF ae.pend[fd] # {} THEN ae.pend[fd] ELSE ae.watch[fd]],
               !.pend  = [fd \in Fds |-> {}]]

(* It aborts the process when one of them has been closed.  (So does       *)
(* aeApiDelEvent of a descriptor that is closed and still registered.)     *)
Aborts(ae, live) == ae.api = "evport" /\ \E fd \in Fds \ live : ae.pend[fd] # {}

Hangup(ready, fd) == IF "H" \in ready[fd] THEN {"W"} ELSE {}

EpollFired(ae, ready) ==
    {e \in Entry : /\ e.mask # {}
                   /\ ae.watch[e.fd] # {}
                   /\ e.mask = (ae.watch[e.fd] \cap ready[e.fd]) \cup Hangup(ready, e.fd)}

KqueueFired(ae, ready) ==       \* an entry for each filter
    {e \in Entry : \E x \in ae.watch[e.fd] \cap ready[e.fd] : e.mask = {x}}

SelectFired(ae, ready) ==       \* every registered slot, once any is ready
    IF \A fd \in Fds : fd > ae.maxfd \/ ae.watch[fd] \cap ready[fd] = {} THEN {}
    ELSE {e \in Entry : /\ e.fd <= ae.maxfd
                        /\ ae.mask[e.fd] # {}
                        /\ e.mask = ae.mask[e.fd] \cap ae.watch[e.fd] \cap ready[e.fd]}

EvportFired(ae, ready) ==       \* an error alone makes an entry without a bit
    {e \in Entry : LET watched == Rearmed(ae).watch[e.fd] IN
        /\ watched # {}
        /\ watched \cap ready[e.fd] # {} \/ "H" \in ready[e.fd]
        /\ e.mask = watched \cap ready[e.fd]}

Fired(ae, ready) ==
    CASE ae.api = "epoll"  -> EpollFired(ae, ready)
      [] ae.api = "kqueue" -> KqueueFired(ae, ready)
      [] ae.api = "select" -> SelectFired(ae, ready)
      [] ae.api = "evport" -> EvportFired(ae, ready)

(* The orders in which the kernel may list them, at most SetSize in one    *)
(* poll (the size of eventLoop->fired); select scans upwards.              *)
Listed(S) == IF Cardinality(S) <= SetSize THEN Cardinality(S) ELSE SetSize

Orders(ae, S) ==
    {s \in [1 .. Listed(S) -> S] :
        /\ \A i, j \in DOMAIN s : s[i] = s[j] => i = j
        /\ ae.api = "select" => \A i, j \in DOMAIN s : i < j => s[i].fd < s[j].fd}

(* The loop's tables once the poll has returned the entries S: evport has  *)
(* dissociated them and remembers them as pending.                         *)
AfterPoll(ae, S) ==
    IF ae.api # "evport" THEN ae
    ELSE LET a  == Rearmed(ae)
             up == {e.fd : e \in S}
         IN  [a EXCEPT !.watch = [fd \in Fds |-> IF fd \in up THEN {} ELSE a.watch[fd]],
                       !.pend  = [fd \in Fds |-> IF fd \in up THEN a.watch[fd] ELSE {}]]

---------------------------------------------------------------------------
(* aeProcessEvents: which handlers the head entry e still has a claim to.  *)
CallsReadable(ae, e) == "R" \in ae.mask[e.fd] \cap e.mask

(* Mutant: the test that the handlers differ is dropped.                   *)
CallsWritable_Twice(ae, e, rfired) == "W" \in ae.mask[e.fd] \cap e.mask

CallsWritable(ae, e, rfired) ==
    /\ "W" \in ae.mask[e.fd] \cap e.mask
    /\ ~rfired \/ ae.wproc[e.fd] # ae.rproc[e.fd]
===========================================================================
