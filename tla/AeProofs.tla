----------------------------- MODULE AeProofs -----------------------------
(***************************************************************************)
(* What the calls of module Ae do to the tables and to the kernel, for     *)
(* every table size and every handler: the types they keep, the slots they *)
(* leave alone, and what a poll may return.                                *)
(***************************************************************************)
EXTENDS Ae, FiniteSetTheorems, WellFoundedInduction, TLAPS

(* Among the slots below top there is a last armed one, unless none is.    *)
LEMMA LastArmedExists ==
    ASSUME NEW mask, NEW top \in Nat
    PROVE  \E j \in -1 .. top - 1 :
              /\ j = -1 \/ mask[j] # {}
              /\ \A k \in j + 1 .. top - 1 : mask[k] = {}
<1> DEFINE Below(i) == i \in Nat /\ i <= top /\ (i = top \/ mask[top - 1 - i] # {})
           S == {i \in Nat : Below(i)}
<1>1. top \in S
  OBVIOUS
<1>2. PICK i \in S : \A k \in 0 .. i - 1 : k \notin S
  <2> DEFINE Before == OpToRel(<, Nat)
  <2>1. IsWellFoundedOn(Before, Nat)
    BY NatLessThanWellFounded
  <2>2. \A k, i \in Nat : k < i => <<k, i>> \in Before
    BY DEF OpToRel
  <2> HIDE DEF Before
  <2>3. S \subseteq Nat /\ S # {}
    BY <1>1
  <2> HIDE DEF S
  <2>4. PICK i \in S : \A k \in S : ~(<<k, i>> \in Before)
    BY <2>1, <2>3, WFMin
  <2>5. ASSUME NEW k \in 0 .. i - 1, k \in S
        PROVE  FALSE
    <3>1. k \in Nat /\ i \in Nat /\ k < i
      BY <2>3
    <3> QED BY <3>1, <2>2, <2>4, <2>5
  <2> QED BY <2>5
<1>3. top - 1 - i \in -1 .. top - 1
  OBVIOUS
<1>4. top - 1 - i = -1 \/ mask[top - 1 - i] # {}
  OBVIOUS
<1>5. ASSUME NEW k \in top - i .. top - 1
      PROVE  mask[k] = {}
  <2>1. top - 1 - k \in 0 .. i - 1
    OBVIOUS
  <2>2. ~Below(top - 1 - k)
    BY <2>1, <1>2
  <2> QED BY <2>1, <2>2
<1> QED BY <1>3, <1>4, <1>5

---------------------------------------------------------------------------
(* The types the calls of module Ae keep.                                  *)

LEMMA InitialLoop == \A api \in Backends : CreateEventLoop(api) \in EventLoop
BY SetSizeAssumption DEF CreateEventLoop, EventLoop, Fds, Masks

LEMMA ApiAddTyped ==
    ASSUME NEW a \in EventLoop, NEW fd \in Fds, NEW m \in Masks
    PROVE  /\ ApiAddEvent(a, fd, m) \in EventLoop
           /\ ApiAddEvent(a, fd, m).maxfd = a.maxfd
           /\ ApiAddEvent(a, fd, m).api = a.api
           /\ ApiAddEvent(a, fd, m).mask = a.mask
BY BackendAssumption DEF EventLoop, Masks, ApiAddEvent, EpollAddEvent, KqueueAddEvent,
   SelectAddEvent, EvportAddEvent

LEMMA ApiDelTyped ==
    ASSUME NEW a \in EventLoop, NEW fd \in Fds, NEW m \in Masks
    PROVE  /\ ApiDelEvent(a, fd, m) \in EventLoop
           /\ ApiDelEvent(a, fd, m).maxfd = a.maxfd
           /\ ApiDelEvent(a, fd, m).api = a.api
           /\ ApiDelEvent(a, fd, m).mask = a.mask
BY BackendAssumption DEF EventLoop, Masks, ApiDelEvent, EpollDelEvent, KqueueDelEvent,
   SelectDelEvent, EvportDelEvent

LEMMA CreateTyped ==
    ASSUME NEW a \in EventLoop, NEW open, NEW fd \in Fds, NEW m \in Masks,
           NEW proc \in Procs, NEW owner \in Owners
    PROVE  /\ CreateFileEvent(a, open, fd, m, proc, owner) \in EventLoop
           /\ CreateFileEvent(a, open, fd, m, proc, owner).api = a.api
<1> DEFINE b == ApiAddEvent(a, fd, m)
<1>1. b \in EventLoop /\ b.api = a.api
  BY ApiAddTyped
<1>2. fd \in -1 .. SetSize - 1
  BY SetSizeAssumption DEF Fds
<1> HIDE DEF b
<1>3. [b EXCEPT !.mask[fd]  = a.mask[fd] \cup m,
                !.rproc[fd] = IF "R" \in m THEN proc ELSE a.rproc[fd],
                !.wproc[fd] = IF "W" \in m THEN proc ELSE a.wproc[fd],
                !.data[fd]  = owner,
                !.maxfd     = IF fd > a.maxfd THEN fd ELSE a.maxfd] \in EventLoop
  BY <1>1, <1>2 DEF EventLoop, Masks
<1>4. [b EXCEPT !.mask[fd]  = a.mask[fd] \cup m,
                !.rproc[fd] = IF "R" \in m THEN proc ELSE a.rproc[fd],
                !.wproc[fd] = IF "W" \in m THEN proc ELSE a.wproc[fd],
                !.data[fd]  = owner,
                !.maxfd     = IF fd > a.maxfd THEN fd ELSE a.maxfd].api = b.api
  BY <1>1 DEF EventLoop
<1> QED BY <1>1, <1>3, <1>4 DEF CreateFileEvent, b

LEMMA LastArmedSpec ==
    ASSUME NEW mask, NEW top \in Nat
    PROVE  /\ LastArmed(mask, top) \in -1 .. top - 1
           /\ LastArmed(mask, top) = -1 \/ mask[LastArmed(mask, top)] # {}
           /\ \A k \in LastArmed(mask, top) + 1 .. top - 1 : mask[k] = {}
BY LastArmedExists DEF LastArmed

LEMMA DeleteTyped ==
    ASSUME NEW a \in EventLoop, NEW fd \in Fds, NEW m \in Masks
    PROVE  /\ DeleteFileEvent(a, fd, m) \in EventLoop
           /\ DeleteFileEvent(a, fd, m).api = a.api
<1> DEFINE b == ApiDelEvent(a, fd, m)
           mask == [a.mask EXCEPT ![fd] = a.mask[fd] \ m]
           top  == IF fd = a.maxfd /\ mask[fd] = {} THEN LastArmed(mask, a.maxfd)
                   ELSE a.maxfd
<1>1. b \in EventLoop /\ b.api = a.api
  BY ApiDelTyped
<1>2. mask \in [Fds -> Masks]
  BY DEF EventLoop, Masks
<1>3. top \in -1 .. SetSize - 1
  <2>1. a.maxfd \in -1 .. SetSize - 1
    BY DEF EventLoop
  <2>2. ASSUME fd = a.maxfd
        PROVE  LastArmed(mask, a.maxfd) \in -1 .. SetSize - 1
    <3>1. a.maxfd \in Nat
      BY <2>2, SetSizeAssumption DEF Fds
    <3> HIDE DEF mask
    <3>2. LastArmed(mask, a.maxfd) \in -1 .. a.maxfd - 1
      BY <3>1, LastArmedSpec
    <3> QED BY <2>1, <3>1, <3>2, SetSizeAssumption
  <2> QED BY <2>1, <2>2
<1>4. DeleteFileEvent(a, fd, m) =
         IF fd >= SetSize \/ a.mask[fd] = {} THEN a
         ELSE [b EXCEPT !.mask = mask, !.maxfd = top]
  BY DEF DeleteFileEvent
<1> HIDE DEF b, mask, top
<1>5. LET d == [b EXCEPT !.mask = mask, !.maxfd = top] IN
      d \in EventLoop /\ d.api = b.api
  BY <1>1, <1>2, <1>3 DEF EventLoop
<1> QED BY <1>1, <1>4, <1>5

LEMMA CloseTyped ==
    ASSUME NEW a \in EventLoop, NEW fd \in Fds
    PROVE  CloseFd(a, fd) \in EventLoop /\ CloseFd(a, fd).api = a.api
BY DEF CloseFd, EventLoop, Masks

LEMMA PollTyped ==
    ASSUME NEW a \in EventLoop, NEW S
    PROVE  AfterPoll(a, S) \in EventLoop /\ AfterPoll(a, S).api = a.api
<1>1. Rearmed(a) \in EventLoop /\ Rearmed(a).api = a.api
  BY DEF Rearmed, EventLoop, Masks
<1> QED BY <1>1 DEF AfterPoll, EventLoop, Masks

---------------------------------------------------------------------------
(* What a poll returns                                                     *)

LEMMA EntryFinite == IsFiniteSet(Entry)
<1> DEFINE pair == [e \in Entry |-> <<e.fd, e.mask>>]
<1>1. IsFiniteSet(Fds)
  BY SetSizeAssumption, FS_Interval DEF Fds
<1>2. IsFiniteSet(Masks)
  <2>1. IsFiniteSet({"R"})
    BY FS_Singleton
  <2>2. IsFiniteSet({"R"} \cup {"W"})
    BY <2>1, FS_AddElement
  <2>3. Ev = {"R"} \cup {"W"}
    BY DEF Ev
  <2> QED BY <2>2, <2>3, FS_SUBSET DEF Masks
<1>3. IsFiniteSet(Fds \X Masks)
  BY <1>1, <1>2, FS_Product
<1>4. pair \in Injection(Entry, Fds \X Masks)
  BY DEF Entry, Injection, IsInjective
<1> QED BY <1>3, <1>4, FS_Injection

LEMMA FiredTyped ==
    ASSUME NEW a \in EventLoop, NEW r
    PROVE  Fired(a, r) \subseteq Entry /\ IsFiniteSet(Fired(a, r))
<1>0. a.api \in {"epoll", "kqueue", "select", "evport"}
  BY BackendAssumption DEF EventLoop
<1>1. Fired(a, r) \subseteq Entry
  BY <1>0 DEF Fired, EpollFired, KqueueFired, SelectFired, EvportFired
<1> QED BY <1>1, EntryFinite, FS_Subset

LEMMA OrdersTyped ==
    ASSUME NEW a, NEW S, S \subseteq Entry, IsFiniteSet(S), NEW s \in Orders(a, S)
    PROVE  /\ s \in Seq(Entry) /\ (S # {} <=> s # <<>>)
           /\ \A i \in DOMAIN s : s[i] \in S
           /\ \A i, j \in DOMAIN s : s[i] = s[j] => i = j
<1>1. Cardinality(S) \in Nat /\ Listed(S) \in Nat
  BY FS_CardinalityType, SetSizeAssumption DEF Listed
<1>2. s \in [1 .. Listed(S) -> S]
  BY DEF Orders
<1>3. s \in Seq(Entry) /\ Len(s) = Listed(S)
  BY <1>1, <1>2
<1>4. S # {} => Listed(S) # 0
  BY FS_EmptySet, SetSizeAssumption DEF Listed
<1>5. s # <<>> => S # {}
  BY <1>1, <1>2, <1>3
<1>6. \A i, j \in DOMAIN s : s[i] = s[j] => i = j
  BY DEF Orders
<1> QED BY <1>2, <1>3, <1>4, <1>5, <1>6

---------------------------------------------------------------------------
(* What the calls change: one slot.                                        *)

Created(a, b, open, fd, m, proc, owner) ==
    /\ \A x \in Fds \ {fd} :
         /\ b.mask[x] = a.mask[x] /\ b.watch[x] = a.watch[x] /\ b.data[x] = a.data[x]
         /\ b.rproc[x] = a.rproc[x] /\ b.wproc[x] = a.wproc[x]
    /\ IF CanCreate(a, open, fd)
       THEN /\ b.mask[fd] = a.mask[fd] \cup m /\ b.data[fd] = owner
            /\ b.rproc[fd] = IF "R" \in m THEN proc ELSE a.rproc[fd]
            /\ b.wproc[fd] = IF "W" \in m THEN proc ELSE a.wproc[fd]
            /\ a.api = "epoll" => b.watch[fd] = a.mask[fd] \cup m
       ELSE b = a

LEMMA CreateEffect ==
    ASSUME NEW a \in EventLoop, NEW open, NEW fd \in Fds, NEW m \in Masks,
           NEW proc \in Procs, NEW owner \in Owners
    PROVE  Created(a, CreateFileEvent(a, open, fd, m, proc, owner), open, fd, m, proc, owner)
<1> DEFINE e == ApiAddEvent(a, fd, m)
           b == CreateFileEvent(a, open, fd, m, proc, owner)
<1>1. /\ e \in EventLoop /\ e.mask = a.mask
      /\ \A x \in Fds \ {fd} : e.watch[x] = a.watch[x]
      /\ e.data = a.data /\ e.rproc = a.rproc /\ e.wproc = a.wproc
      /\ a.api = "epoll" => e.watch[fd] = a.mask[fd] \cup m
  <2>1. a.api \in {"epoll", "kqueue", "select", "evport"}
    BY BackendAssumption DEF EventLoop
  <2>2. e \in EventLoop /\ e.mask = a.mask
    BY ApiAddTyped
  <2> QED BY <2>1, <2>2 DEF EventLoop, ApiAddEvent, EpollAddEvent, KqueueAddEvent,
             SelectAddEvent, EvportAddEvent
<1> HIDE DEF e
<1>2. CASE CanCreate(a, open, fd)
  <2>1. b = [e EXCEPT !.mask[fd]  = a.mask[fd] \cup m,
                      !.rproc[fd] = IF "R" \in m THEN proc ELSE a.rproc[fd],
                      !.wproc[fd] = IF "W" \in m THEN proc ELSE a.wproc[fd],
                      !.data[fd]  = owner,
                      !.maxfd     = IF fd > a.maxfd THEN fd ELSE a.maxfd]
    BY <1>2 DEF CreateFileEvent, e
  <2> HIDE DEF b
  <2>2. /\ b.mask = [e.mask EXCEPT ![fd] = a.mask[fd] \cup m]
        /\ b.rproc = [e.rproc EXCEPT ![fd] = IF "R" \in m THEN proc ELSE a.rproc[fd]]
        /\ b.wproc = [e.wproc EXCEPT ![fd] = IF "W" \in m THEN proc ELSE a.wproc[fd]]
        /\ b.data = [e.data EXCEPT ![fd] = owner]
        /\ b.watch = e.watch
    BY <1>1, <2>1 DEF EventLoop
  <2>3. \A x \in Fds \ {fd} :
          /\ b.mask[x] = a.mask[x] /\ b.watch[x] = a.watch[x] /\ b.data[x] = a.data[x]
          /\ b.rproc[x] = a.rproc[x] /\ b.wproc[x] = a.wproc[x]
    BY <1>1, <2>2 DEF EventLoop
  <2>4. /\ b.mask[fd] = a.mask[fd] \cup m /\ b.data[fd] = owner
        /\ b.rproc[fd] = IF "R" \in m THEN proc ELSE a.rproc[fd]
        /\ b.wproc[fd] = IF "W" \in m THEN proc ELSE a.wproc[fd]
        /\ a.api = "epoll" => b.watch[fd] = a.mask[fd] \cup m
    BY <1>1, <2>2 DEF EventLoop
  <2> QED BY <1>2, <2>3, <2>4 DEF b, Created
<1>3. CASE ~CanCreate(a, open, fd)
  BY <1>3 DEF CreateFileEvent, Created
<1> QED BY <1>2, <1>3

Deleted(a, d, fd, m) ==
    /\ d.rproc = a.rproc /\ d.wproc = a.wproc /\ d.data = a.data
    /\ d.mask = [a.mask EXCEPT ![fd] = a.mask[fd] \ m]
    /\ \A x \in Fds \ {fd} : d.watch[x] = a.watch[x]
    /\ a.api = "epoll" =>
         d.watch[fd] = IF a.mask[fd] = {} THEN a.watch[fd]
                       ELSE IF a.watch[fd] = {} THEN {} ELSE a.mask[fd] \ m

LEMMA DeleteEffect ==
    ASSUME NEW a \in EventLoop, NEW fd \in Fds, NEW m \in Masks
    PROVE  Deleted(a, DeleteFileEvent(a, fd, m), fd, m)
<1> DEFINE e == ApiDelEvent(a, fd, m)
           mask == [a.mask EXCEPT ![fd] = a.mask[fd] \ m]
           top  == IF fd = a.maxfd /\ mask[fd] = {} THEN LastArmed(mask, a.maxfd)
                   ELSE a.maxfd
           d == DeleteFileEvent(a, fd, m)
<1>1. /\ e \in EventLoop /\ \A x \in Fds \ {fd} : e.watch[x] = a.watch[x]
      /\ e.data = a.data /\ e.rproc = a.rproc /\ e.wproc = a.wproc
      /\ a.api = "epoll" => e.watch[fd] = IF a.watch[fd] = {} THEN {} ELSE a.mask[fd] \ m
  <2>1. a.api \in {"epoll", "kqueue", "select", "evport"}
    BY BackendAssumption DEF EventLoop
  <2>2. e \in EventLoop
    BY ApiDelTyped
  <2> QED BY <2>1, <2>2 DEF EventLoop, ApiDelEvent, EpollDelEvent, KqueueDelEvent,
             SelectDelEvent, EvportDelEvent
<1>2. d = IF fd >= SetSize \/ a.mask[fd] = {} THEN a
          ELSE [e EXCEPT !.mask = mask, !.maxfd = top]
  BY DEF DeleteFileEvent
<1>3. ~(fd >= SetSize)
  BY SetSizeAssumption DEF Fds
<1> HIDE DEF e, top, d
<1>4. CASE a.mask[fd] = {}
  <2>1. d = a
    BY <1>2, <1>4
  <2>2. mask = a.mask
    BY <1>4 DEF EventLoop
  <2> QED BY <1>4, <2>1, <2>2 DEF d, Deleted
<1>5. CASE a.mask[fd] # {}
  <2>1. d = [e EXCEPT !.mask = mask, !.maxfd = top]
    BY <1>2, <1>3, <1>5
  <2>2. /\ d.rproc = e.rproc /\ d.wproc = e.wproc /\ d.data = e.data
        /\ d.watch = e.watch /\ d.mask = mask
    BY <1>1, <2>1 DEF EventLoop
  <2> QED BY <1>1, <1>5, <2>2 DEF d, Deleted
<1> QED BY <1>4, <1>5

LEMMA PollEffect ==
    ASSUME NEW a \in EventLoop, NEW S
    PROVE  LET b == AfterPoll(a, S) IN
           /\ b.mask = a.mask /\ b.data = a.data /\ b.rproc = a.rproc /\ b.wproc = a.wproc
           /\ a.api # "evport" => b = a
BY DEF AfterPoll, Rearmed, EventLoop

(* But for kqueue a poll returns one entry for a descriptor; and whatever  *)
(* it says of a descriptor, that one is ready for.                         *)
LEMMA OneEntry ==
    ASSUME NEW a \in EventLoop, NEW r, NEW e \in Fired(a, r)
    PROVE  /\ a.api # "kqueue" => \A f \in Fired(a, r) : e.fd = f.fd => e = f
           /\ e.mask # {} => r[e.fd] # {}
<1>1. a.api \in {"epoll", "kqueue", "select", "evport"} /\ e \in Entry
  BY BackendAssumption, FiredTyped DEF EventLoop
<1>2. e.mask # {} => r[e.fd] # {}
  BY <1>1 DEF Fired, EpollFired, KqueueFired, SelectFired, EvportFired, Hangup
<1>3. ASSUME a.api # "kqueue", NEW f \in Fired(a, r), e.fd = f.fd
      PROVE  e = f
  <2>1. f \in Entry
    BY FiredTyped
  <2>2. e.mask = f.mask
    BY <1>1, <1>3, <2>1 DEF Fired, EpollFired, SelectFired, EvportFired
  <2> QED BY <1>1, <1>3, <2>1, <2>2 DEF Entry
<1> QED BY <1>2, <1>3
=============================================================================
