--------------------------- MODULE AeFileProofs ---------------------------
(***************************************************************************)
(* What holds of the event loop for every table size, every set of         *)
(* handlers and every readiness: the types, that the tables and the kernel *)
(* agree (all back ends but evport), and that maxfd is exact.              *)
(***************************************************************************)
EXTENDS AeFile, AeProofs

(* The types are kept by every interleaving of the loop and the callbacks. *)

LEMMA TypeInit == Init => TypeOK
<1> SUFFICES ASSUME Init PROVE TypeOK
  OBVIOUS
<1>1. ae \in EventLoop
  BY InitialLoop DEF Init
<1>2. ready \in [Fds -> ReadySets]
  BY ReadySetsAssumption DEF Init
<1>3. fired \in Seq(Entry)
  BY DEF Init
<1> QED BY <1>1, <1>2, <1>3 DEF Init, TypeOK, Steps

LEMMA TypeNext == TypeOK /\ [Next]_vars => TypeOK'
<1> SUFFICES ASSUME TypeOK, [Next]_vars PROVE TypeOK'
  OBVIOUS
<1> USE DEF TypeOK, Steps
<1>1. CASE Poll
  <2> DEFINE S == Fired(ae, ready)
  <2>1. S \subseteq Entry /\ IsFiniteSet(S)
    BY FiredTyped
  <2>2. fired' \in Seq(Entry) /\ (S # {} => fired' # <<>>)
    BY <1>1, <2>1, OrdersTyped DEF Poll
  <2>3. ae' \in EventLoop
    BY <1>1, PollTyped DEF Poll
  <2> QED BY <1>1, <2>2, <2>3 DEF Poll
<1>2. CASE CheckReadable
  BY <1>2 DEF CheckReadable, CallsReadable
<1>3. CASE CheckWritable
  <2>1. Tail(fired) \in Seq(Entry)
    BY <1>3 DEF CheckWritable
  <2> QED BY <1>3, <2>1 DEF CheckWritable
<1>4. CASE ReadableReturns
  BY <1>4 DEF ReadableReturns
<1>5. CASE WritableReturns
  <2>1. Tail(fired) \in Seq(Entry)
    BY <1>5 DEF WritableReturns
  <2> QED BY <1>5, <2>1 DEF WritableReturns
<1>6. CASE TimersReturn
  BY <1>6 DEF TimersReturn
<1>7. ASSUME NEW fd \in Fds, NEW m \in Masks \ {{}}, NEW p \in Procs, NEW o \in Owners,
             Create(fd, m, p, o)
      PROVE  TypeOK'
  BY <1>7, CreateTyped DEF Create
<1>8. ASSUME NEW fd \in Fds, NEW m \in Masks \ {{}}, Delete(fd, m)
      PROVE  TypeOK'
  BY <1>8, DeleteTyped DEF Delete
<1>9. ASSUME NEW fd \in Fds, Close(fd)
      PROVE  TypeOK'
  BY <1>9, CloseTyped, ReadySetsAssumption DEF Close
<1>10. ASSUME NEW fd \in Fds, Open(fd)
       PROVE  TypeOK'
  BY <1>10 DEF Open
<1>11. ASSUME NEW fd \in Fds, NEW r \in ReadySets, Readiness(fd, r)
       PROVE  TypeOK'
  BY <1>11 DEF Readiness
<1>12. CASE UNCHANGED vars
  BY <1>12 DEF vars
<1>13. CASE PollAborts
  BY <1>13 DEF PollAborts
<1> QED BY <1>1, <1>2, <1>3, <1>4, <1>5, <1>6, <1>7, <1>8, <1>9, <1>10, <1>11, <1>12,
          <1>13
        DEF Next, LoopStep, AppStep, EnvStep, Ended

(* The tables keep their types for every table size, back end and program; *)
(* no step indexes them outside of 0..setsize-1 or runs past the last of   *)
(* the fired entries (ae.c:349-426).                                       *)
THEOREM TypeCorrect == Spec => []TypeOK
<1>1. Init => TypeOK
  BY TypeInit
<1>2. TypeOK /\ [Next]_vars => TypeOK'
  BY TypeNext
<1> QED BY <1>1, <1>2, PTL DEF Spec

---------------------------------------------------------------------------
(* The kernel and the tables.  BackendInSync is not inductive: it does not *)
(* say that nothing is pending when the back end has no pending table.     *)

InSync(a) == \A fd \in Fds : a.pend[fd] = {} /\ a.watch[fd] = a.mask[fd]

TopExact(a) ==
    /\ a.maxfd # -1 => a.mask[a.maxfd] # {}
    /\ \A fd \in Fds : fd > a.maxfd => a.mask[fd] = {}

Apart(a) == \A fd \in Fds : ~(a.watch[fd] # {} /\ a.pend[fd] # {})

SyncInv == ae.api # "evport" => InSync(ae)

LEMMA ApiAddSync ==
    ASSUME NEW a \in EventLoop, NEW fd \in Fds, NEW m \in Masks,
           a.api # "evport", InSync(a)
    PROVE  /\ ApiAddEvent(a, fd, m).watch = [a.watch EXCEPT ![fd] = a.mask[fd] \cup m]
           /\ ApiAddEvent(a, fd, m).pend = a.pend
<1>1. a.watch[fd] = a.mask[fd]
  BY DEF InSync
<1> QED BY <1>1, BackendAssumption
        DEF EventLoop, ApiAddEvent, EpollAddEvent, KqueueAddEvent,
        SelectAddEvent, EvportAddEvent

LEMMA ApiDelSync ==
    ASSUME NEW a \in EventLoop, NEW fd \in Fds, NEW m \in Masks,
           a.api # "evport", InSync(a)
    PROVE  /\ ApiDelEvent(a, fd, m).watch = [a.watch EXCEPT ![fd] = a.mask[fd] \ m]
           /\ ApiDelEvent(a, fd, m).pend = a.pend
<1>1. a.watch[fd] = a.mask[fd]
  BY DEF InSync
<1> QED BY <1>1, BackendAssumption
        DEF EventLoop, ApiDelEvent, EpollDelEvent, KqueueDelEvent,
        SelectDelEvent, EvportDelEvent

LEMMA ApiApart ==
    ASSUME NEW a \in EventLoop, NEW fd \in Fds, NEW m \in Masks,
           a.api = "evport", Apart(a)
    PROVE  Apart(ApiAddEvent(a, fd, m)) /\ Apart(ApiDelEvent(a, fd, m))
BY DEF Apart, ApiAddEvent, ApiDelEvent, EvportAddEvent, EvportDelEvent, EventLoop

LEMMA CreateKeeps ==
    ASSUME NEW a \in EventLoop, NEW open, NEW fd \in Fds, NEW m \in Masks, m # {},
           NEW proc, NEW owner
    PROVE  LET c == CreateFileEvent(a, open, fd, m, proc, owner) IN
           /\ a.api # "evport" /\ InSync(a) => InSync(c)
           /\ TopExact(a) => TopExact(c)
           /\ a.api = "evport" /\ Apart(a) => Apart(c)
<1>1. CASE ~CanCreate(a, open, fd)
  BY <1>1 DEF CreateFileEvent
<1>2. CASE CanCreate(a, open, fd)
  <2> DEFINE b == ApiAddEvent(a, fd, m)
             c == CreateFileEvent(a, open, fd, m, proc, owner)
  <2>1. b \in EventLoop /\ b.maxfd = a.maxfd /\ b.mask = a.mask
    BY ApiAddTyped
  <2>2. a.api # "evport" /\ InSync(a) =>
           b.watch = [a.watch EXCEPT ![fd] = a.mask[fd] \cup m] /\ b.pend = a.pend
    BY ApiAddSync, Zenon
  <2>3. c = [b EXCEPT !.mask[fd]  = a.mask[fd] \cup m,
                      !.rproc[fd] = IF "R" \in m THEN proc ELSE a.rproc[fd],
                      !.wproc[fd] = IF "W" \in m THEN proc ELSE a.wproc[fd],
                      !.data[fd]  = owner,
                      !.maxfd     = IF fd > a.maxfd THEN fd ELSE a.maxfd]
    BY <1>2 DEF CreateFileEvent
  <2> HIDE DEF b, c
  <2>4. /\ c.mask = [a.mask EXCEPT ![fd] = a.mask[fd] \cup m]
        /\ c.maxfd = IF fd > a.maxfd THEN fd ELSE a.maxfd
        /\ c.watch = b.watch /\ c.pend = b.pend
    BY <2>1, <2>3 DEF EventLoop
  <2>5. a.api # "evport" /\ InSync(a) => InSync(c)
    <3> SUFFICES ASSUME a.api # "evport", InSync(a) PROVE InSync(c)
      OBVIOUS
    <3>1. /\ c.watch = [a.watch EXCEPT ![fd] = a.mask[fd] \cup m]
          /\ c.pend = a.pend
      BY <2>2, <2>4
    <3> QED BY <2>4, <3>1 DEF InSync, EventLoop
  <2>6. a.maxfd \in -1 .. SetSize - 1 /\ a.mask \in [Fds -> Masks]
    BY DEF EventLoop
  <2>7. TopExact(a) => TopExact(c)
    BY <2>4, <2>6, SetSizeAssumption DEF TopExact, Fds
  <2>8. a.api = "evport" /\ Apart(a) => Apart(b)
    BY ApiApart DEF b
  <2>9. a.api = "evport" /\ Apart(a) => Apart(c)
    BY <2>4, <2>8 DEF Apart
  <2> QED BY <2>5, <2>7, <2>9 DEF c
<1> QED BY <1>1, <1>2

LEMMA DeleteFields ==
    ASSUME NEW a \in EventLoop, NEW fd \in Fds, NEW m \in Masks, a.mask[fd] # {}
    PROVE  LET b    == DeleteFileEvent(a, fd, m)
               mask == [a.mask EXCEPT ![fd] = a.mask[fd] \ m]
           IN  /\ b.mask = mask
               /\ b.maxfd = IF fd = a.maxfd /\ mask[fd] = {}
                            THEN LastArmed(mask, a.maxfd) ELSE a.maxfd
               /\ b.watch = ApiDelEvent(a, fd, m).watch
               /\ b.pend = ApiDelEvent(a, fd, m).pend
<1> DEFINE b    == ApiDelEvent(a, fd, m)
           mask == [a.mask EXCEPT ![fd] = a.mask[fd] \ m]
           top  == IF fd = a.maxfd /\ mask[fd] = {} THEN LastArmed(mask, a.maxfd)
                   ELSE a.maxfd
<1>1. b \in EventLoop
  BY ApiDelTyped
<1>2. ~(fd >= SetSize)
  BY SetSizeAssumption DEF Fds
<1>3. DeleteFileEvent(a, fd, m) = [b EXCEPT !.mask = mask, !.maxfd = top]
  BY <1>2 DEF DeleteFileEvent
<1> HIDE DEF b, mask, top
<1>4. LET d == [b EXCEPT !.mask = mask, !.maxfd = top] IN
      d.mask = mask /\ d.maxfd = top /\ d.watch = b.watch /\ d.pend = b.pend
  BY <1>1 DEF EventLoop
<1> QED BY <1>3, <1>4 DEF b, mask, top

LEMMA DeleteNothing ==
    ASSUME NEW a, NEW fd, NEW m, a.mask[fd] = {}
    PROVE  DeleteFileEvent(a, fd, m) = a
BY DEF DeleteFileEvent

LEMMA DeleteSync ==
    ASSUME NEW a \in EventLoop, NEW fd \in Fds, NEW m \in Masks,
           a.api # "evport", InSync(a)
    PROVE  InSync(DeleteFileEvent(a, fd, m))
<1>1. CASE a.mask[fd] = {}
  BY <1>1, DeleteNothing
<1>2. CASE a.mask[fd] # {}
  <2> DEFINE b == DeleteFileEvent(a, fd, m)
  <2>1. b.mask = [a.mask EXCEPT ![fd] = a.mask[fd] \ m]
    BY <1>2, DeleteFields
  <2>2. b.watch = ApiDelEvent(a, fd, m).watch /\ b.pend = ApiDelEvent(a, fd, m).pend
    BY <1>2, DeleteFields
  <2>3. /\ ApiDelEvent(a, fd, m).watch = [a.watch EXCEPT ![fd] = a.mask[fd] \ m]
        /\ ApiDelEvent(a, fd, m).pend = a.pend
    BY ApiDelSync, Zenon
  <2> HIDE DEF b
  <2>4. InSync(b)
    BY <2>1, <2>2, <2>3 DEF InSync, EventLoop
  <2> QED BY <2>4 DEF b
<1> QED BY <1>1, <1>2

LEMMA CloseSync ==
    ASSUME NEW a \in EventLoop, NEW fd \in Fds, a.mask[fd] = {}, InSync(a)
    PROVE  InSync(CloseFd(a, fd))
BY DEF CloseFd, InSync, EventLoop

LEMMA ApiFixed == TypeOK /\ [Next]_vars => ae'.api = ae.api
<1> SUFFICES ASSUME TypeOK, [Next]_vars PROVE ae'.api = ae.api
  OBVIOUS
<1> USE DEF TypeOK
<1>1. CASE Poll
  BY <1>1, PollTyped DEF Poll
<1>2. CASE UNCHANGED ae
  BY <1>2
<1>3. ASSUME NEW fd \in Fds, NEW m \in Masks \ {{}}, NEW p \in Procs, NEW o \in Owners,
             Create(fd, m, p, o)
      PROVE  ae'.api = ae.api
  BY <1>3, CreateTyped DEF Create
<1>4. ASSUME NEW fd \in Fds, NEW m \in Masks \ {{}}, Delete(fd, m)
      PROVE  ae'.api = ae.api
  BY <1>4, DeleteTyped DEF Delete
<1>5. ASSUME NEW fd \in Fds, Close(fd)
      PROVE  ae'.api = ae.api
  BY <1>5, CloseTyped DEF Close
<1> QED BY <1>1, <1>2, <1>3, <1>4, <1>5
        DEF Next, LoopStep, AppStep, EnvStep, Ended, vars, PollAborts, CheckReadable, CheckWritable,
            ReadableReturns, WritableReturns, TimersReturn, Open, Readiness

LEMMA SyncNext == TypeOK /\ SyncInv /\ [Next]_vars => SyncInv'
<1> SUFFICES ASSUME TypeOK, InSync(ae), [Next]_vars, ae.api # "evport"
             PROVE  InSync(ae')
  BY ApiFixed DEF SyncInv
<1> USE DEF TypeOK
<1>1. CASE Poll
  BY <1>1 DEF Poll, AfterPoll
<1>2. CASE UNCHANGED ae
  BY <1>2
<1>3. ASSUME NEW fd \in Fds, NEW m \in Masks \ {{}}, NEW p \in Procs, NEW o \in Owners,
             Create(fd, m, p, o)
      PROVE  InSync(ae')
  BY <1>3, CreateKeeps DEF Create
<1>4. ASSUME NEW fd \in Fds, NEW m \in Masks \ {{}}, Delete(fd, m)
      PROVE  InSync(ae')
  BY <1>4, DeleteSync DEF Delete
<1>5. ASSUME NEW fd \in Fds, Close(fd)
      PROVE  InSync(ae')
  BY <1>5, CloseSync DEF Close
<1> QED BY <1>1, <1>2, <1>3, <1>4, <1>5
        DEF Next, LoopStep, AppStep, EnvStep, Ended, vars, PollAborts, CheckReadable, CheckWritable,
            ReadableReturns, WritableReturns, TimersReturn, Open, Readiness

LEMMA LoopInit == Init => SyncInv /\ MaxFdExact /\ EitherKernelOrPending
<1> SUFFICES ASSUME Init PROVE SyncInv /\ MaxFdExact /\ EitherKernelOrPending
  OBVIOUS
<1>1. PICK api \in Backends : ae = CreateEventLoop(api)
  BY DEF Init
<1> QED BY <1>1 DEF SyncInv, InSync, MaxFdExact, EitherKernelOrPending, CreateEventLoop

LEMMA SyncAlways == Spec => [](TypeOK /\ SyncInv)
BY LoopInit, TypeInit, TypeNext, SyncNext, PTL DEF Spec

(* With epoll, kqueue and select the kernel watches exactly the events the *)
(* tables hold, whatever the program registers, deletes and closes, from   *)
(* whichever callbacks (ae_epoll.c:73-106, ae_kqueue.c:75-102,             *)
(* ae_select.c:62-75).                                                     *)
THEOREM TablesMatchKernel == Spec => []BackendInSync
<1>1. TypeOK /\ SyncInv => BackendInSync
  <2> SUFFICES ASSUME TypeOK, InSync(ae) PROVE BackendInSync
    BY DEF SyncInv, BackendInSync
  <2> QED BY DEF InSync, BackendInSync, Interest, Rearmed, TypeOK, EventLoop
<1> QED BY <1>1, SyncAlways, PTL

---------------------------------------------------------------------------
(* maxfd                                                                   *)

LEMMA DeleteTop ==
    ASSUME NEW a \in EventLoop, NEW fd \in Fds, NEW m \in Masks, TopExact(a)
    PROVE  TopExact(DeleteFileEvent(a, fd, m))
<1>1. CASE a.mask[fd] = {}
  BY <1>1, DeleteNothing
<1>2. CASE a.mask[fd] # {}
  <2> DEFINE b    == DeleteFileEvent(a, fd, m)
             mask == [a.mask EXCEPT ![fd] = a.mask[fd] \ m]
  <2>1. /\ b.mask = mask
        /\ b.maxfd = IF fd = a.maxfd /\ mask[fd] = {}
                     THEN LastArmed(mask, a.maxfd) ELSE a.maxfd
    BY <1>2, DeleteFields
  <2>2. a.maxfd \in -1 .. SetSize - 1 /\ a.mask \in [Fds -> Masks]
    BY DEF EventLoop
  <2>3. \A k \in Fds : k # fd => mask[k] = a.mask[k]
    BY <2>2
  <2>4. CASE fd = a.maxfd /\ mask[fd] = {}
    <3>1. a.maxfd \in Nat
      BY <2>4, SetSizeAssumption DEF Fds
    <3> HIDE DEF mask
    <3>2. /\ b.maxfd \in -1 .. a.maxfd - 1
          /\ b.maxfd = -1 \/ mask[b.maxfd] # {}
          /\ \A k \in b.maxfd + 1 .. a.maxfd - 1 : mask[k] = {}
      BY <2>1, <2>4, <3>1, LastArmedSpec
    <3>3. ASSUME NEW k \in Fds, k > b.maxfd
          PROVE  mask[k] = {}
      <4>1. CASE k = fd
        BY <4>1, <2>4
      <4>2. CASE k > a.maxfd
        BY <4>2, <2>3, <2>4, <2>2, SetSizeAssumption DEF TopExact, Fds
      <4>3. CASE k < a.maxfd
        BY <4>3, <3>1, <3>2, <3>3, SetSizeAssumption DEF Fds
      <4> QED BY <4>1, <4>2, <4>3, <2>2, <2>4, SetSizeAssumption DEF Fds
    <3> QED BY <2>1, <3>2, <3>3 DEF TopExact
  <2>5. CASE ~(fd = a.maxfd /\ mask[fd] = {})
    <3>1. b.maxfd = a.maxfd
      BY <2>1, <2>5
    <3>2. a.maxfd # -1 => a.maxfd \in Fds
      BY <2>2, SetSizeAssumption DEF Fds
    <3>3. a.maxfd # -1 => mask[a.maxfd] # {}
      BY <2>3, <2>5, <3>2 DEF TopExact
    <3>4. ~(fd > a.maxfd)
      BY <1>2 DEF TopExact
    <3>5. b.mask = mask
      BY <2>1
    <3> HIDE DEF b, mask
    <3>6. ASSUME NEW k \in Fds, k > b.maxfd
          PROVE  mask[k] = {}
      BY <3>6, <2>3, <3>1, <3>4 DEF TopExact
    <3>7. TopExact(b)
      BY <3>1, <3>3, <3>5, <3>6 DEF TopExact
    <3> QED BY <3>7 DEF b
  <2> QED BY <2>4, <2>5
<1> QED BY <1>1, <1>2

LEMMA TopNext == TypeOK /\ MaxFdExact /\ [Next]_vars => MaxFdExact'
<1> SUFFICES ASSUME TypeOK, TopExact(ae), [Next]_vars
             PROVE  TopExact(ae')
  BY DEF MaxFdExact, TopExact
<1> USE DEF TypeOK
<1>1. CASE ae'.mask = ae.mask /\ ae'.maxfd = ae.maxfd
  BY <1>1 DEF TopExact
<1>2. ASSUME Poll \/ (\E fd \in Fds : Close(fd))
      PROVE  ae'.mask = ae.mask /\ ae'.maxfd = ae.maxfd
  BY <1>2 DEF Poll, AfterPoll, Rearmed, Close, CloseFd, EventLoop
<1>3. ASSUME NEW fd \in Fds, NEW m \in Masks \ {{}}, NEW p \in Procs, NEW o \in Owners,
             Create(fd, m, p, o)
      PROVE  TopExact(ae')
  BY <1>3, CreateKeeps DEF Create
<1>4. ASSUME NEW fd \in Fds, NEW m \in Masks \ {{}}, Delete(fd, m)
      PROVE  TopExact(ae')
  BY <1>4, DeleteTop DEF Delete
<1> QED BY <1>1, <1>2, <1>3, <1>4
        DEF Next, LoopStep, AppStep, EnvStep, Ended, vars, PollAborts, CheckReadable, CheckWritable,
            ReadableReturns, WritableReturns, TimersReturn, Open, Readiness

(* maxfd is the highest registered descriptor, with every back end: the    *)
(* downward scan of aeDeleteFileEvent (ae.c:163-170) never stops short and *)
(* never goes past one.                                                    *)
THEOREM MaxFdCorrect == Spec => []MaxFdExact
BY LoopInit, TypeInit, TypeNext, TopNext, PTL DEF Spec

---------------------------------------------------------------------------
(* evport                                                                  *)

LEMMA DeleteApart ==
    ASSUME NEW a \in EventLoop, NEW fd \in Fds, NEW m \in Masks,
           a.api = "evport", Apart(a)
    PROVE  Apart(DeleteFileEvent(a, fd, m))
<1>1. CASE a.mask[fd] = {}
  BY <1>1, DeleteNothing
<1>2. CASE a.mask[fd] # {}
  <2> DEFINE b == DeleteFileEvent(a, fd, m)
             c == ApiDelEvent(a, fd, m)
  <2>1. b.watch = c.watch /\ b.pend = c.pend
    BY <1>2, DeleteFields
  <2>2. Apart(c)
    BY ApiApart
  <2> HIDE DEF b, c
  <2>3. Apart(b)
    BY <2>1, <2>2 DEF Apart
  <2> QED BY <2>3 DEF b
<1> QED BY <1>1, <1>2

LEMMA ApartNext ==
    TypeOK /\ SyncInv /\ EitherKernelOrPending /\ [Next]_vars => EitherKernelOrPending'
<1>0. CASE ae.api # "evport"
  <2>1. TypeOK /\ SyncInv /\ [Next]_vars => InSync(ae')
    BY <1>0, ApiFixed, SyncNext DEF SyncInv
  <2> QED BY <2>1 DEF InSync, EitherKernelOrPending
<1> SUFFICES ASSUME TypeOK, Apart(ae), [Next]_vars, ae.api = "evport"
             PROVE  Apart(ae')
  BY <1>0 DEF EitherKernelOrPending, Apart
<1> USE DEF TypeOK
<1>1. CASE Poll
  BY <1>1 DEF Poll, AfterPoll, Rearmed, Apart, EventLoop
<1>2. CASE UNCHANGED ae
  BY <1>2 DEF Apart
<1>3. ASSUME NEW fd \in Fds, NEW m \in Masks \ {{}}, NEW p \in Procs, NEW o \in Owners,
             Create(fd, m, p, o)
      PROVE  Apart(ae')
  BY <1>3, CreateKeeps DEF Create
<1>4. ASSUME NEW fd \in Fds, NEW m \in Masks \ {{}}, Delete(fd, m)
      PROVE  Apart(ae')
  BY <1>4, DeleteApart DEF Delete
<1>5. ASSUME NEW fd \in Fds, Close(fd)
      PROVE  Apart(ae')
  BY <1>5 DEF Close, CloseFd, Apart, EventLoop
<1> QED BY <1>1, <1>2, <1>3, <1>4, <1>5
        DEF Next, LoopStep, AppStep, EnvStep, Ended, vars, PollAborts, CheckReadable, CheckWritable,
            ReadableReturns, WritableReturns, TimersReturn, Open, Readiness

(* An evport association is either in the kernel or pending, never both,   *)
(* so it is never associated twice or dissociated when it is not there     *)
(* (ae_evport.c:60-64).  The other back ends keep nothing pending.         *)
THEOREM KernelOrPending == Spec => []EitherKernelOrPending
BY LoopInit, TypeInit, TypeNext, SyncNext, ApartNext, PTL DEF Spec
===========================================================================
