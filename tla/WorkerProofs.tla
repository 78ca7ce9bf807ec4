---------------------------- MODULE WorkerProofs ----------------------------
(***************************************************************************)
(* What holds of a worker thread for every set of connections, table size, *)
(* back end and configuration: no socket is leaked, no registration is     *)
(* refused, and no handler runs for a descriptor that has been closed and  *)
(* opened again since the poll.                                            *)
(*                                                                         *)
(* And, where the server answers in turn and no delay timer can outlive    *)
(* its socket (Orderly): c->pending counts what is still to come, a        *)
(* response only completes when one is expected, batches alternate with    *)
(* responses, no socket that works is dropped, and the thread implements   *)
(* RequestCycle.                                                           *)
(***************************************************************************)
EXTENDS Worker, AeProofs

Live == cfg.conns \ todo        \* connections thread_main has connected

Part ==             \* where the states the handlers' operators work on lie
    [ae : EventLoop, net : [Sockets -> Socket], conn : [Conns -> Connection],
     errors : [ErrorKinds -> 0 .. CounterMod - 1], stale : SUBSET (0 .. SetSize)]

(* An open socket is watched for reading, for the connection that has it.  *)
Held(s, fd) ==
    /\ fd \in Fds /\ "R" \in s.ae.mask[fd]
    /\ s.ae.api = "epoll" => "R" \in s.ae.watch[fd]
    /\ s.ae.data[fd] \in Conns /\ s.conn[s.ae.data[fd]].fd = fd

Sound(s, live) ==
    /\ \A fd \in Sockets : s.net[fd].state = "closed" => s.net[fd] = Closed
    /\ \A fd \in Open(s) : Held(s, fd)
    /\ \A fd \in Fds : s.ae.data[fd] \in live \cup {NoOwner}

(* A readiness of fd is still about the socket that had it; and, where it  *)
(* is not, the writable handler of fd is not called after the readable one.*)
Good(s, fd)  == fd \in Open(s) /\ fd \notin s.stale /\ s.net[fd].state # "connecting"
Quiet(s, fd) == "W" \notin s.ae.mask[fd] \/ s.ae.wproc[fd] = s.ae.rproc[fd]

Control ==
    /\ todo \subseteq cfg.conns
    /\ step \in {"R", "inR", "W"} <=> fired # <<>>
    /\ step = "inR" => rfired /\ reader \in Live
    /\ \A c \in Conns : timers[c] > 0 => c \in Live

(* The entry whose handlers are being called, and those that come after.   *)
HeadFresh(e) ==
    /\ step = "R" => Good(Here, e.fd)
    /\ step = "inR" => \/ Good(Here, e.fd) /\ conn[reader].fd = e.fd
                       \/ conn[reader].parser = "dead" /\ Quiet(Here, e.fd)
    /\ step = "W" => Good(Here, e.fd) \/ (rfired /\ Quiet(Here, e.fd))

LaterFresh(e) == Good(Here, e.fd) /\ (step = "inR" => conn[reader].fd # e.fd)

FiredFresh == ae.api # "kqueue" =>
    /\ \A i, j \in DOMAIN fired : fired[i].fd = fired[j].fd => i = j
    /\ \A i \in DOMAIN fired : fired[i].mask # {} =>
         IF i = 1 THEN HeadFresh(fired[i]) ELSE LaterFresh(fired[i])

IInv == TypeOK /\ Sound(Here, Live) /\ Control /\ FiredFresh

---------------------------------------------------------------------------
(* What the operators the handlers share do to the part.                   *)

LEMMA FdsAreSlots == Fds = 0 .. SetSize - 1 /\ SetSize \in Nat \ {0} /\ Sockets \subseteq 0 .. SetSize
BY SetSizeAssumption, WorkerAssumption DEF Fds, Sockets

LEMMA CountEffect ==
    ASSUME NEW s \in Part, NEW e \in ErrorKinds
    PROVE  LET r == Count(s, e) IN
           r \in Part /\ r.ae = s.ae /\ r.net = s.net /\ r.conn = s.conn /\ r.stale = s.stale
<1> DEFINE n == (s.errors[e] + 1) % CounterMod
<1>1. n \in 0 .. CounterMod - 1
  <2>1. s.errors[e] \in Nat /\ CounterMod \in Nat \ {0}
    BY WorkerAssumption DEF Part
  <2> QED BY <2>1
<1> HIDE DEF n
<1>2. Count(s, e) = [s EXCEPT !.errors[e] = n]
  BY DEF Count, n
<1> QED BY <1>1, <1>2 DEF Part

LEMMA RegisterEffect ==
    ASSUME NEW s \in Part, NEW fd \in Fds, NEW m \in Masks, NEW p \in Procs, NEW c \in Conns
    PROVE  LET r == Register(s, fd, m, p, c) IN
           /\ r \in Part /\ r.net = s.net /\ r.conn = s.conn /\ r.stale = s.stale
           /\ r.ae = CreateFileEvent(s.ae, Open(s), fd, m, p, c)
<1> DEFINE a == CreateFileEvent(s.ae, Open(s), fd, m, p, c)
<1>1. a \in EventLoop
  BY CreateTyped DEF Part, Conns
<1> HIDE DEF a
<1>2. Register(s, fd, m, p, c) = [s EXCEPT !.ae = a]
  BY DEF Register, a
<1>3. LET r == [s EXCEPT !.ae = a] IN
      r \in Part /\ r.net = s.net /\ r.conn = s.conn /\ r.stale = s.stale /\ r.ae = a
  BY <1>1 DEF Part
<1> QED BY <1>2, <1>3 DEF a

LEMMA UnregisterEffect ==
    ASSUME NEW s \in Part, NEW fd \in Fds, NEW m \in Masks
    PROVE  LET r == Unregister(s, fd, m) IN
           /\ r \in Part /\ r.net = s.net /\ r.conn = s.conn /\ r.stale = s.stale
           /\ r.ae = DeleteFileEvent(s.ae, fd, m)
<1> DEFINE a == DeleteFileEvent(s.ae, fd, m)
<1>1. a \in EventLoop
  BY DeleteTyped DEF Part
<1> HIDE DEF a
<1>2. Unregister(s, fd, m) = [s EXCEPT !.ae = a]
  BY DEF Unregister, a
<1>3. LET r == [s EXCEPT !.ae = a] IN
      r \in Part /\ r.net = s.net /\ r.conn = s.conn /\ r.stale = s.stale /\ r.ae = a
  BY <1>1 DEF Part
<1> QED BY <1>2, <1>3 DEF a

(* What a call that keeps the sockets keeps.                               *)
Same(s, r) ==
    /\ r.ae = s.ae /\ r.stale = s.stale
    /\ \A fd \in Sockets :
         /\ r.net[fd].state = "closed" <=> s.net[fd].state = "closed"
         /\ r.net[fd].state = "closed" => r.net[fd] = s.net[fd]
         /\ r.net[fd].state = "connecting" => s.net[fd].state = "connecting"
    /\ \A c \in Conns : r.conn[c].fd = s.conn[c].fd

LEMMA SameSound ==
    ASSUME NEW s, NEW r, NEW live, Sound(s, live), Same(s, r)
    PROVE  /\ Sound(r, live)
           /\ \A x \in Fds : (Good(s, x) => Good(r, x)) /\ (Quiet(s, x) => Quiet(r, x))
<1>1. Open(r) = Open(s)
  BY DEF Open, Same
<1>2. \A fd \in Open(r) : Held(r, fd)
  BY <1>1 DEF Sound, Same, Held
<1>3. \A fd \in Sockets : r.net[fd].state = "closed" => r.net[fd] = Closed
  BY DEF Sound, Same
<1>4. \A x \in Fds : Good(s, x) => Good(r, x)
  BY <1>1 DEF Good, Same, Open
<1>5. \A x \in Fds : Quiet(s, x) => Quiet(r, x)
  BY DEF Quiet, Same
<1>6. \A fd \in Fds : r.ae.data[fd] \in live \cup {NoOwner}
  BY DEF Sound, Same
<1> QED BY <1>2, <1>3, <1>4, <1>5, <1>6 DEF Sound

LEMMA RegisterSound ==
    ASSUME NEW s \in Part, NEW live, Sound(s, live), NEW fd \in Fds, NEW m \in Masks,
           NEW p \in Procs, NEW c \in Conns, c \in live,
           fd \in Open(s) => s.conn[c].fd = fd
    PROVE  LET r == Register(s, fd, m, p, c) IN
           /\ r \in Part /\ Sound(r, live) /\ r.ae.api = s.ae.api
           /\ r.net = s.net /\ r.conn = s.conn /\ r.stale = s.stale
           /\ \A x \in Fds : Good(s, x) => Good(r, x)
<1> DEFINE r == Register(s, fd, m, p, c)
           a == CreateFileEvent(s.ae, Open(s), fd, m, p, c)
<1>1. /\ r \in Part /\ r.net = s.net /\ r.conn = s.conn /\ r.stale = s.stale /\ r.ae = a
  BY RegisterEffect
<1>2. s.ae \in EventLoop
  BY DEF Part
<1>3. /\ a.api = s.ae.api
      /\ \A x \in Fds \ {fd} : /\ a.mask[x] = s.ae.mask[x] /\ a.watch[x] = s.ae.watch[x]
                               /\ a.data[x] = s.ae.data[x]
      /\ a = s.ae \/ /\ a.mask[fd] = s.ae.mask[fd] \cup m /\ a.data[fd] = c
                     /\ s.ae.api = "epoll" => a.watch[fd] = s.ae.mask[fd] \cup m
  <2>1. c \in Owners
    BY DEF Conns
  <2>2. a.api = s.ae.api
    BY <1>2, <2>1, CreateTyped
  <2>3. Created(s.ae, a, Open(s), fd, m, p, c)
    BY <1>2, <2>1, CreateEffect
  <2> QED BY <2>2, <2>3 DEF Created
<1> HIDE DEF r, a
<1>4. Open(r) = Open(s)
  BY <1>1 DEF Open
<1>5. ASSUME NEW x \in Open(s)
      PROVE  Held(r, x)
  <2>1. Held(s, x)
    BY DEF Sound
  <2>2. CASE x # fd \/ a = s.ae
    BY <1>1, <1>3, <2>1, <2>2 DEF Held
  <2>3. CASE x = fd /\ a # s.ae
    BY <1>1, <1>3, <2>1, <2>3 DEF Held
  <2> QED BY <2>2, <2>3
<1>6. \A x \in Fds : r.ae.data[x] \in live \cup {NoOwner}
  BY <1>1, <1>3 DEF Sound
<1>7. Sound(r, live)
  BY <1>1, <1>4, <1>5, <1>6 DEF Sound
<1>8. \A x \in Fds : Good(s, x) => Good(r, x)
  BY <1>1, <1>4 DEF Good
<1> QED BY <1>1, <1>3, <1>7, <1>8 DEF r

LEMMA UnregisterSound ==
    ASSUME NEW s \in Part, NEW live, Sound(s, live), NEW fd \in Fds
    PROVE  LET r == Unregister(s, fd, {"W"}) IN
           /\ r \in Part /\ Sound(r, live) /\ r.ae.api = s.ae.api
           /\ r.net = s.net /\ r.conn = s.conn /\ r.stale = s.stale
           /\ \A x \in Fds : Good(s, x) => Good(r, x)
<1> DEFINE r == Unregister(s, fd, {"W"})
           a == DeleteFileEvent(s.ae, fd, {"W"})
<1>0. {"W"} \in Masks
  BY DEF Masks, Ev
<1>1. /\ r \in Part /\ r.net = s.net /\ r.conn = s.conn /\ r.stale = s.stale /\ r.ae = a
  BY <1>0, UnregisterEffect
<1>2. s.ae \in EventLoop
  BY DEF Part
<1>3. /\ a.api = s.ae.api /\ a.data = s.ae.data
      /\ a.mask = [s.ae.mask EXCEPT ![fd] = s.ae.mask[fd] \ {"W"}]
      /\ \A x \in Fds \ {fd} : a.watch[x] = s.ae.watch[x]
      /\ s.ae.api = "epoll" =>
           a.watch[fd] = IF s.ae.mask[fd] = {} THEN s.ae.watch[fd]
                         ELSE IF s.ae.watch[fd] = {} THEN {} ELSE s.ae.mask[fd] \ {"W"}
  <2>1. a.api = s.ae.api
    BY <1>0, <1>2, DeleteTyped
  <2>2. Deleted(s.ae, a, fd, {"W"})
    BY <1>0, <1>2, DeleteEffect
  <2> QED BY <2>1, <2>2 DEF Deleted
<1>4. \A x \in Fds : s.ae.mask[x] \in Masks /\ a.mask[x] = IF x = fd THEN s.ae.mask[x] \ {"W"} ELSE s.ae.mask[x]
  BY <1>2, <1>3 DEF EventLoop
<1> HIDE DEF r, a
<1>5. Open(r) = Open(s)
  BY <1>1 DEF Open
<1>6. ASSUME NEW x \in Open(s)
      PROVE  Held(r, x)
  <2>1. Held(s, x)
    BY DEF Sound
  <2>2. "R" \in a.mask[x]
    BY <1>4, <2>1 DEF Held
  <2>3. s.ae.api = "epoll" => "R" \in a.watch[x]
    BY <1>3, <2>1 DEF Held
  <2> QED BY <1>1, <1>3, <2>1, <2>2, <2>3 DEF Held
<1>7. Sound(r, live)
  BY <1>1, <1>3, <1>5, <1>6 DEF Sound
<1>8. \A x \in Fds : Good(s, x) => Good(r, x)
  BY <1>1, <1>5 DEF Good
<1> QED BY <1>1, <1>3, <1>7, <1>8 DEF r

(* A set of natural numbers that is not empty has a smallest.              *)
LEMMA SmallestExists ==
    ASSUME NEW S, S \subseteq Nat, S # {}
    PROVE  \E n \in S : \A m \in S : n <= m
<1> DEFINE Below == OpToRel(<, Nat)
<1>1. IsWellFoundedOn(Below, Nat)
  BY NatLessThanWellFounded
<1>2. \A k, i \in Nat : k < i => <<k, i>> \in Below
  BY DEF OpToRel
<1> HIDE DEF Below
<1>3. PICK n \in S : \A m \in S : ~(<<m, n>> \in Below)
  BY <1>1, WFMin
<1>4. ASSUME NEW m \in S
      PROVE  n <= m
  <2>1. m \in Nat /\ n \in Nat /\ ~(m < n)
    BY <1>2, <1>3, Zenon
  <2> QED BY <2>1
<1> QED BY <1>4

LEMMA FreshTyped == Closed \in Socket /\ Fresh \in Socket
<1>1. <<>> \in Seq(Tokens)
  OBVIOUS
<1>2. Closed \in Socket
  BY <1>1 DEF Closed, Socket
<1>3. Fresh = [Closed EXCEPT !.state = "connecting"]
  BY DEF Fresh
<1>4. [Closed EXCEPT !.state = "connecting"] \in Socket
  <2> HIDE DEF Closed
  <2> QED BY <1>2 DEF Socket
<1> QED BY <1>2, <1>3, <1>4

(* What connecting, or closing first, keeps of the other connections.      *)
Keeps(s, r, c) ==
    /\ r \in Part /\ r.ae.api = s.ae.api
    /\ \A x \in Fds : Good(s, x) /\ x # s.conn[c].fd => Good(r, x) /\ x # r.conn[c].fd
    /\ \A x \in Fds : Quiet(s, x) => Quiet(r, x)
    /\ \A d \in Conns : r.conn[d].parser = s.conn[d].parser

(* The socket fd and what the loop's tables say of it.                     *)
SameAt(s, r, fd) ==
    /\ fd \in Sockets => r.net[fd] = s.net[fd]
    /\ r.ae.mask[fd] = s.ae.mask[fd] /\ r.ae.data[fd] = s.ae.data[fd]
    /\ r.ae.rproc[fd] = s.ae.rproc[fd] /\ r.ae.wproc[fd] = s.ae.wproc[fd]

(* c has a new socket fd, and all else is as before.                       *)
Taken(s, r, c, fd) ==
    /\ fd \in Fds /\ fd \in Sockets /\ fd \notin Open(s)
    /\ Open(r) = Open(s) \cup {fd}
    /\ r.conn = [s.conn EXCEPT ![c].fd = fd]
    /\ r.net[fd] = Fresh /\ r.ae.data[fd] = c
    /\ r.ae.rproc[fd] = "socket_connected" /\ r.ae.wproc[fd] = "socket_connected"
    /\ \A x \in Fds \ {fd} : SameAt(s, r, x)

Tried(s, r, c) ==       \* what connect_socket does
    /\ r.stale = s.stale
    /\ \/ r.ae = s.ae /\ r.net = s.net /\ r.conn = s.conn
       \/ \E fd \in Fds : Taken(s, r, c, fd)

Dropped(s, r, fd) ==    \* what the first half of reconnect_socket does
    /\ r.conn = s.conn /\ r.ae.mask[fd] = {}
    /\ Open(r) = Open(s) \ {fd}
    /\ r.stale = s.stale \cup (Open(s) \cap {fd})
    /\ \A x \in Fds \ {fd} : SameAt(s, r, x)

LEMMA ConnectSound ==
    ASSUME NEW s \in Part, NEW live, Sound(s, live), NEW c \in Conns, NEW ok,
           \A x \in Open(s) : s.ae.data[x] # c
    PROVE  LET r == connect_socket(s, c, ok) IN
           Keeps(s, r, c) /\ Sound(r, live \cup {c}) /\ Tried(s, r, c)
<1> DEFINE free == Sockets \ Open(s)
           fd   == CHOOSE n \in free : \A m \in free : n <= m
           sock == [s EXCEPT !.net[fd] = Fresh]
           a    == CreateFileEvent(s.ae, Open(sock), fd, Ev, "socket_connected", c)
           t    == Register(sock, fd, Ev, "socket_connected", c)
           r    == connect_socket(s, c, ok)
<1>1. r = IF ok /\ free # {} /\ CanCreate(s.ae, Open(sock), fd)
          THEN [t EXCEPT !.conn[c].fd = fd] ELSE Count(s, "connect")
  BY DEF connect_socket
<1>2. CASE ~(ok /\ free # {} /\ CanCreate(s.ae, Open(sock), fd))
  <2>1. r = Count(s, "connect") /\ "connect" \in ErrorKinds
    BY <1>1, <1>2 DEF ErrorKinds
  <2> HIDE DEF r
  <2>2. r \in Part /\ r.ae = s.ae /\ r.net = s.net /\ r.conn = s.conn /\ r.stale = s.stale
    BY <2>1, CountEffect
  <2>3. Same(s, r)
    BY <2>2 DEF Same
  <2>4. Sound(r, live) /\ \A x \in Fds : (Good(s, x) => Good(r, x)) /\ (Quiet(s, x) => Quiet(r, x))
    BY <2>3, SameSound
  <2>5. Keeps(s, r, c)
    BY <2>2, <2>4 DEF Keeps
  <2>6. Tried(s, r, c)
    BY <2>2 DEF Tried
  <2> QED BY <2>4, <2>5, <2>6 DEF Sound, r
<1>3. CASE ok /\ free # {} /\ CanCreate(s.ae, Open(sock), fd)
  <2>1. fd \in free
    <3>1. free \subseteq Nat /\ free # {}
      BY <1>3, FdsAreSlots
    <3> HIDE DEF free
    <3> QED BY <3>1, SmallestExists
  <2>2. fd \in Fds /\ fd \in Sockets /\ fd \notin Open(s)
    BY <1>3, <2>1, FdsAreSlots DEF CanCreate
  <2>3. r = [t EXCEPT !.conn[c].fd = fd]
    BY <1>1, <1>3
  <2> HIDE DEF free, fd, r
  <2>4. Fresh \in Socket
    BY FreshTyped
  <2>5. /\ sock \in Part /\ sock.ae = s.ae /\ sock.conn = s.conn /\ sock.stale = s.stale
        /\ sock.net = [s.net EXCEPT ![fd] = Fresh]
    BY <2>2, <2>4 DEF Part
  <2>6. Open(sock) = Open(s) \cup {fd}
    <3>1. Fresh.state = "connecting"
      BY DEF Fresh, Closed
    <3>2. \A x \in Sockets : sock.net[x] = IF x = fd THEN Fresh ELSE s.net[x]
      BY <2>2, <2>5 DEF Part
    <3> QED BY <2>2, <3>1, <3>2 DEF Open
  <2>7. Ev \in Masks /\ "socket_connected" \in Procs
    BY WorkerAssumption DEF Masks
  <2> HIDE DEF sock
  <2>8. t \in Part /\ t.net = sock.net /\ t.conn = s.conn /\ t.stale = s.stale /\ t.ae = a
    <3>1. /\ t \in Part /\ t.net = sock.net /\ t.conn = sock.conn /\ t.stale = sock.stale
          /\ t.ae = CreateFileEvent(sock.ae, Open(sock), fd, Ev, "socket_connected", c)
      BY <2>2, <2>5, <2>7, RegisterEffect
    <3> QED BY <2>5, <3>1
  <2>9. /\ a \in EventLoop /\ a.api = s.ae.api
        /\ Created(s.ae, a, Open(sock), fd, Ev, "socket_connected", c)
    BY <2>2, <2>7, CreateTyped, CreateEffect DEF Part, Conns
  <2> HIDE DEF t, a
  <2>10. /\ r \in Part /\ r.ae = a /\ r.net = sock.net /\ r.stale = s.stale
         /\ r.conn = [s.conn EXCEPT ![c].fd = fd]
    <3>1. [t.conn EXCEPT ![c].fd = fd] \in [Conns -> Connection]
      BY <2>2, <2>8, FdsAreSlots DEF Part, Connection
    <3> QED BY <2>3, <2>8, <3>1 DEF Part
  <2>11. \A d \in Conns : /\ r.conn[d].parser = s.conn[d].parser
                           /\ r.conn[d].fd = IF d = c THEN fd ELSE s.conn[d].fd
    BY <2>10 DEF Part, Connection
  <2>12. \A x \in Sockets : r.net[x] = IF x = fd THEN Fresh ELSE s.net[x]
    BY <2>2, <2>5, <2>10 DEF Part
  <2>13. Open(r) = Open(s) \cup {fd}
    BY <2>6, <2>10 DEF Open
  <2>14. /\ \A x \in Fds \ {fd} :
              /\ a.mask[x] = s.ae.mask[x] /\ a.watch[x] = s.ae.watch[x]
              /\ a.data[x] = s.ae.data[x]
              /\ a.rproc[x] = s.ae.rproc[x] /\ a.wproc[x] = s.ae.wproc[x]
         /\ "R" \in a.mask[fd] /\ a.data[fd] = c
         /\ s.ae.api = "epoll" => "R" \in a.watch[fd]
         /\ a.rproc[fd] = "socket_connected" /\ a.wproc[fd] = "socket_connected"
    <3>1. CanCreate(s.ae, Open(sock), fd)
      BY <1>3 DEF fd, sock
    <3> QED BY <2>9, <3>1 DEF Created, Ev
  <2>15. ASSUME NEW x \in Fds, Good(s, x)
         PROVE  Good(r, x) /\ x # fd
    <3>1. x # fd /\ x \in Sockets
      BY <2>2, <2>15 DEF Good, Open
    <3> QED BY <2>10, <2>12, <2>13, <2>15, <3>1 DEF Good
  <2>16. ASSUME NEW x \in Fds, Quiet(s, x)
         PROVE  Quiet(r, x)
    BY <2>10, <2>14, <2>16 DEF Quiet
  <2>17. Keeps(s, r, c)
    BY <2>9, <2>10, <2>11, <2>15, <2>16 DEF Keeps
  <2>18. ASSUME NEW x \in Open(r)
         PROVE  Held(r, x)
    <3>1. CASE x = fd
      BY <2>2, <2>9, <2>10, <2>11, <2>14, <3>1 DEF Held
    <3>2. CASE x # fd
      <4>1. x \in Open(s) /\ s.ae.data[x] # c
        BY <2>13, <3>2
      <4>2. Held(s, x)
        BY <4>1 DEF Sound
      <4> QED BY <2>9, <2>10, <2>11, <2>14, <3>2, <4>1, <4>2 DEF Held
    <3> QED BY <3>1, <3>2
  <2>19. \A x \in Sockets : r.net[x].state = "closed" => r.net[x] = Closed
    BY <2>12 DEF Sound, Fresh, Closed
  <2>20. \A x \in Fds : r.ae.data[x] \in live \cup {c} \cup {NoOwner}
    BY <2>10, <2>14 DEF Sound
  <2>21. \A x \in Fds \ {fd} : SameAt(s, r, x)
    BY <2>10, <2>12, <2>14 DEF SameAt
  <2>22. Tried(s, r, c)
    BY <2>2, <2>10, <2>12, <2>13, <2>14, <2>21 DEF Tried, Taken
  <2> QED BY <2>17, <2>18, <2>19, <2>20, <2>22 DEF Sound, r
<1> QED BY <1>2, <1>3

LEMMA KeepsTransitive ==
    ASSUME NEW s, NEW t, NEW r, NEW c, Keeps(s, t, c), Keeps(t, r, c)
    PROVE  Keeps(s, r, c)
BY DEF Keeps

LEMMA DropSound ==
    ASSUME NEW s \in Part, NEW live, Sound(s, live), NEW c \in Conns
    PROVE  LET fd == s.conn[c].fd
               r  == close_fd(Unregister(s, fd, Ev), fd)
           IN  /\ Keeps(s, r, c) /\ Sound(r, live)
               /\ fd \in Fds /\ Quiet(r, fd) /\ Dropped(s, r, fd)
               /\ \A x \in Open(r) : r.ae.data[x] # c
<1> DEFINE fd == s.conn[c].fd
           u  == Unregister(s, fd, Ev)
           a  == DeleteFileEvent(s.ae, fd, Ev)
           r  == close_fd(u, fd)
<1>1. fd \in Fds
  BY FdsAreSlots DEF Part, Connection
<1>2. Ev \in Masks /\ s.ae \in EventLoop
  BY DEF Masks, Part
<1> HIDE DEF fd
<1>3. u \in Part /\ u.net = s.net /\ u.conn = s.conn /\ u.stale = s.stale /\ u.ae = a
  BY <1>1, <1>2, UnregisterEffect
<1>4. a \in EventLoop /\ a.api = s.ae.api /\ Deleted(s.ae, a, fd, Ev)
  BY <1>1, <1>2, DeleteTyped, DeleteEffect
<1> HIDE DEF u, a
<1>5. Open(u) = Open(s)
  BY <1>3 DEF Open
<1>6. /\ r \in Part /\ r.conn = s.conn /\ r.ae.api = s.ae.api
      /\ r.ae.mask = a.mask /\ r.ae.data = a.data /\ r.ae.rproc = a.rproc /\ r.ae.wproc = a.wproc
      /\ \A x \in Fds \ {fd} : r.ae.watch[x] = a.watch[x]
      /\ \A x \in Sockets : x # fd => r.net[x] = s.net[x]
      /\ fd \in Sockets => r.net[fd] = Closed
      /\ r.stale = s.stale \cup (Open(s) \cap {fd})
  <2>1. CASE fd \notin Open(s)
    <3>1. r = u
      BY <1>5, <2>1 DEF close_fd
    <3>2. fd \in Sockets => s.net[fd] = Closed
      BY <2>1 DEF Open, Sound
    <3>3. Open(s) \cap {fd} = {}
      BY <2>1
    <3>4. r.stale = s.stale \cup (Open(s) \cap {fd})
      BY <1>3, <3>1, <3>3
    <3> QED BY <1>3, <1>4, <3>1, <3>2, <3>4
  <2>2. CASE fd \in Open(s)
    <3> DEFINE k == CloseFd(a, fd)
    <3>1. r = [u EXCEPT !.ae = k, !.net[fd] = Closed, !.stale = u.stale \cup {fd}]
      BY <1>3, <1>5, <2>2 DEF close_fd
    <3>2. k \in EventLoop /\ k.api = a.api
      BY <1>1, <1>4, CloseTyped
    <3>3. /\ k.mask = a.mask /\ k.data = a.data /\ k.rproc = a.rproc /\ k.wproc = a.wproc
          /\ \A x \in Fds \ {fd} : k.watch[x] = a.watch[x]
      BY <1>4 DEF CloseFd, EventLoop
    <3> HIDE DEF k, r
    <3>4. fd \in Sockets /\ fd \in 0 .. SetSize
      BY <2>2, FdsAreSlots DEF Open
    <3>5. /\ r \in Part /\ r.ae = k /\ r.conn = u.conn /\ r.stale = u.stale \cup {fd}
          /\ r.net = [u.net EXCEPT ![fd] = Closed]
      BY <1>3, <3>1, <3>2, <3>4, FreshTyped DEF Part
    <3>6. /\ \A x \in Sockets : x # fd => r.net[x] = s.net[x]
          /\ r.net[fd] = Closed
      BY <1>3, <3>4, <3>5 DEF Part
    <3>7. Open(s) \cap {fd} = {fd}
      BY <2>2
    <3>8. r.stale = s.stale \cup (Open(s) \cap {fd})
      BY <1>3, <3>5, <3>7
    <3> QED BY <1>3, <1>4, <3>2, <3>3, <3>5, <3>6, <3>8
  <2> QED BY <2>1, <2>2
<1> HIDE DEF r
<1>7. Open(r) = Open(s) \ {fd}
  <2>1. Closed.state = "closed"
    BY DEF Closed
  <2> QED BY <1>6, <2>1 DEF Open
<1>8. /\ \A x \in Fds \ {fd} : r.ae.mask[x] = s.ae.mask[x]
      /\ r.ae.mask[fd] = {}
  <2>1. r.ae.mask = [s.ae.mask EXCEPT ![fd] = s.ae.mask[fd] \ Ev]
    BY <1>4, <1>6 DEF Deleted
  <2>2. s.ae.mask \in [Fds -> Masks]
    BY <1>2 DEF EventLoop
  <2> QED BY <1>1, <2>1, <2>2 DEF Masks
<1>9. ASSUME NEW x \in Open(r)
      PROVE  Held(r, x)
  <2>1. x # fd /\ Held(s, x)
    BY <1>7 DEF Sound
  <2> QED BY <1>4, <1>6, <1>8, <2>1 DEF Held, Deleted
<1>10. \A x \in Sockets : r.net[x].state = "closed" => r.net[x] = Closed
  BY <1>6 DEF Sound
<1>11. \A x \in Fds : r.ae.data[x] \in live \cup {NoOwner}
  BY <1>4, <1>6 DEF Sound, Deleted
<1>12. \A x \in Open(r) : r.ae.data[x] # c
  <2> SUFFICES ASSUME NEW x \in Open(r), r.ae.data[x] = c
               PROVE  FALSE
    OBVIOUS
  <2>1. x # fd /\ r.conn[c].fd = x
    BY <1>7, <1>9 DEF Held
  <2> QED BY <1>6, <2>1 DEF fd
<1>13. ASSUME NEW x \in Fds, Good(s, x), x # fd
       PROVE  Good(r, x)
  <2>1. x \in Open(r) /\ x \in Sockets
    BY <1>7, <1>13 DEF Good, Open
  <2> QED BY <1>6, <1>13, <2>1 DEF Good
<1>14. ASSUME NEW x \in Fds, Quiet(s, x)
       PROVE  Quiet(r, x)
  BY <1>4, <1>6, <1>8, <1>14 DEF Quiet, Deleted
<1>15. Keeps(s, r, c)
  BY <1>6, <1>13, <1>14 DEF Keeps, fd
<1>16. Quiet(r, fd)
  BY <1>8 DEF Quiet
<1>17. Dropped(s, r, fd)
  <2>1. \A x \in Fds \ {fd} : SameAt(s, r, x)
    BY <1>4, <1>6, <1>8 DEF SameAt, Deleted
  <2> QED BY <1>6, <1>7, <1>8, <2>1 DEF Dropped
<1> QED BY <1>1, <1>9, <1>10, <1>11, <1>12, <1>15, <1>16, <1>17 DEF Sound, r, u, fd

LEMMA ReconnectSound ==
    ASSUME NEW s \in Part, NEW live, Sound(s, live), NEW c \in Conns, c \in live, NEW ok
    PROVE  LET r == reconnect_socket(s, c, ok) IN
           Keeps(s, r, c) /\ Sound(r, live) /\ Quiet(r, s.conn[c].fd)
<1> DEFINE fd == s.conn[c].fd
           t  == close_fd(Unregister(s, fd, Ev), fd)
           r  == connect_socket(t, c, ok)
<1>1. /\ Keeps(s, t, c) /\ Sound(t, live) /\ fd \in Fds /\ Quiet(t, fd)
      /\ \A x \in Open(t) : t.ae.data[x] # c
  BY DropSound
<1>2. reconnect_socket(s, c, ok) = r
  BY DEF reconnect_socket
<1> HIDE DEF t
<1>3. t \in Part
  BY <1>1 DEF Keeps
<1>4. Keeps(t, r, c) /\ Sound(r, live \cup {c})
  BY <1>1, <1>3, ConnectSound
<1>5. live \cup {c} = live
  OBVIOUS
<1> HIDE DEF r
<1>6. Keeps(s, r, c)
  BY <1>1, <1>4, KeepsTransitive
<1>7. Quiet(r, fd)
  BY <1>1, <1>4 DEF Keeps
<1> QED BY <1>2, <1>4, <1>5, <1>6, <1>7

---------------------------------------------------------------------------
(* What a handler does to the state, and the steps that call one.          *)

LEMMA HereInPart == TypeOK => Here \in Part
BY DEF TypeOK, Here, Part

(* The handler of c leaves the other sockets that are ready as they are,   *)
(* and its own one too, or closed.                                         *)
Handled(s, r, c) ==
    /\ r \in Part /\ Sound(r, Live) /\ r.ae.api = s.ae.api
    /\ \A x \in Fds : Good(s, x) /\ x # s.conn[c].fd => Good(r, x)
    /\ Good(s, s.conn[c].fd) => Good(r, s.conn[c].fd) \/ Quiet(r, s.conn[c].fd)

Steady(s, r, c) ==
    /\ r \in Part /\ Sound(r, Live) /\ r.ae.api = s.ae.api
    /\ \A x \in Fds : Good(s, x) => Good(r, x)
    /\ r.conn[c].fd = s.conn[c].fd

LEMMA SteadyTransitive ==
    ASSUME NEW s, NEW t, NEW r, NEW c, Steady(s, t, c), Steady(t, r, c)
    PROVE  Steady(s, r, c)
BY DEF Steady

LEMMA HandledSteady ==
    ASSUME NEW s \in Part, NEW r, NEW c \in Conns, Steady(s, r, c)
    PROVE  Handled(s, r, c)
<1>1. s.conn[c].fd \in Fds
  BY FdsAreSlots DEF Part, Connection
<1> QED BY <1>1 DEF Steady, Handled

LEMMA HandledCut ==
    ASSUME NEW s, NEW t, NEW c \in Conns, c \in Live, Steady(s, t, c), NEW ok
    PROVE  Handled(s, reconnect_socket(t, c, ok), c)
<1> DEFINE r == reconnect_socket(t, c, ok)
<1>1. t \in Part /\ Sound(t, Live)
  BY DEF Steady
<1>2. Keeps(t, r, c) /\ Sound(r, Live) /\ Quiet(r, t.conn[c].fd)
  BY <1>1, ReconnectSound
<1> HIDE DEF r
<1>3. Handled(s, r, c)
  BY <1>2 DEF Keeps, Steady, Handled
<1> QED BY <1>3 DEF r

LEMMA SameSteady ==
    ASSUME NEW s, Sound(s, Live), NEW r \in Part, Same(s, r), NEW c \in Conns
    PROVE  Steady(s, r, c)
<1>1. Sound(r, Live) /\ \A x \in Fds : Good(s, x) => Good(r, x)
  BY SameSound
<1> QED BY <1>1 DEF Same, Steady

LEMMA CountSteady ==
    ASSUME NEW s \in Part, Sound(s, Live), NEW e \in ErrorKinds, NEW c \in Conns
    PROVE  Steady(s, Count(s, e), c)
<1> DEFINE r == Count(s, e)
<1>1. r \in Part /\ r.ae = s.ae /\ r.net = s.net /\ r.conn = s.conn /\ r.stale = s.stale
  BY CountEffect
<1> HIDE DEF r
<1>2. Same(s, r)
  BY <1>1 DEF Same
<1>3. Steady(s, r, c)
  BY <1>1, <1>2, SameSteady
<1> QED BY <1>3 DEF r

LEMMA RegisterSteady ==
    ASSUME NEW s \in Part, Sound(s, Live), NEW c \in Conns, c \in Live, NEW fd \in Fds,
           fd \in Open(s) => s.conn[c].fd = fd, NEW m \in Masks, NEW p \in Procs
    PROVE  /\ Steady(s, Register(s, fd, m, p, c), c)
           /\ Open(Register(s, fd, m, p, c)) = Open(s)
<1> DEFINE r == Register(s, fd, m, p, c)
<1>1. /\ r \in Part /\ Sound(r, Live) /\ r.ae.api = s.ae.api
      /\ r.net = s.net /\ r.conn = s.conn /\ r.stale = s.stale
      /\ \A x \in Fds : Good(s, x) => Good(r, x)
  BY RegisterSound
<1> HIDE DEF r
<1>2. Steady(s, r, c) /\ Open(r) = Open(s)
  BY <1>1 DEF Steady, Open
<1> QED BY <1>2 DEF r

LEMMA UnregisterSteady ==
    ASSUME NEW s \in Part, Sound(s, Live), NEW c \in Conns, NEW fd \in Fds
    PROVE  Steady(s, Unregister(s, fd, {"W"}), c)
<1> DEFINE r == Unregister(s, fd, {"W"})
<1>1. /\ r \in Part /\ Sound(r, Live) /\ r.ae.api = s.ae.api
      /\ r.conn = s.conn
      /\ \A x \in Fds : Good(s, x) => Good(r, x)
  BY UnregisterSound
<1> HIDE DEF r
<1>2. Steady(s, r, c)
  BY <1>1 DEF Steady
<1> QED BY <1>2 DEF r

(* A handler is called for a connection that thread_main has connected, on *)
(* the socket the connection has.                                          *)
LEMMA Entering ==
    ASSUME IInv, NEW proc, NEW c \in Conns, CallReadable(proc, c) \/ CallWritable(proc, c)
    PROVE  /\ c \in Live /\ fired # <<>> /\ Head(fired) \in Entry
           /\ Head(fired).fd \in Fds /\ Head(fired).mask # {}
           /\ Head(fired).fd \in Open(Here) => conn[c].fd = Head(fired).fd
           /\ ae.api # "kqueue" => Good(Here, Head(fired).fd) /\ conn[c].fd = Head(fired).fd
<1> DEFINE h == Head(fired)
<1>1. step \in {"R", "W"} /\ fired # <<>> /\ fired \in Seq(Entry)
  BY DEF CallReadable, CallWritable, IInv, Control, TypeOK
<1>2. h \in Entry /\ h = fired[1] /\ 1 \in DOMAIN fired
  BY <1>1
<1> HIDE DEF h
<1>3. h.fd \in Fds /\ h.mask \in Masks
  BY <1>2 DEF Entry
<1>4. /\ ae.data[h.fd] = c
      /\ step = "R" => CallsReadable(ae, h)
      /\ step = "W" => CallsWritable(ae, h, rfired)
  BY DEF CallReadable, CallWritable, h
<1>5. h.mask # {}
  BY <1>1, <1>4 DEF CallsReadable, CallsWritable
<1>6. c \in Live
  <2>1. c \in Live \cup {NoOwner}
    BY <1>3, <1>4 DEF IInv, Sound, Here
  <2> QED BY <2>1, NoneAssumption DEF Conns
<1>7. h.fd \in Open(Here) => conn[c].fd = h.fd
  BY <1>4 DEF IInv, Sound, Held, Here
<1>8. ae.api # "kqueue" => Good(Here, h.fd)
  <2> SUFFICES ASSUME ae.api # "kqueue" PROVE Good(Here, h.fd)
    OBVIOUS
  <2>1. HeadFresh(h)
    BY <1>2, <1>5 DEF IInv, FiredFresh
  <2>2. CASE step = "R"
    BY <2>1, <2>2 DEF HeadFresh
  <2>3. CASE step = "W"
    <3>1. Good(Here, h.fd) \/ (rfired /\ Quiet(Here, h.fd))
      BY <2>1, <2>3 DEF HeadFresh
    <3>2. ~(rfired /\ Quiet(Here, h.fd))
      BY <1>4, <2>3 DEF CallsWritable, Quiet, Here
    <3> QED BY <3>1, <3>2
  <2> QED BY <1>1, <2>2, <2>3
<1>9. ae.api # "kqueue" => h.fd \in Open(Here)
  BY <1>8 DEF Good
<1> QED BY <1>1, <1>2, <1>3, <1>5, <1>6, <1>7, <1>8, <1>9 DEF h

LEMMA Calling ==
    ASSUME IInv, NEW proc, NEW c \in Conns, Called(proc, c)
    PROVE  /\ c \in Live /\ fired # <<>> /\ Head(fired) \in Entry
           /\ Head(fired).fd \in Fds /\ Head(fired).mask # {}
           /\ Head(fired).fd \in Open(Here) => conn[c].fd = Head(fired).fd
           /\ ae.api # "kqueue" => Good(Here, Head(fired).fd) /\ conn[c].fd = Head(fired).fd
BY Entering DEF Called

LEMMA Becomes ==
    ASSUME NEW r \in Part, Become(r), Sound(r, Live), cfg' = cfg, todo' = todo
    PROVE  /\ Here' = r /\ Sound(Here, Live)'
           /\ \A x : Good(Here', x) <=> Good(r, x)
<1>1. Here' = r
  BY DEF Here, Become, Part
<1>2. Live' = Live
  BY DEF Live
<1>3. Sound(Here, Live)'
  BY <1>1, <1>2
<1>4. \A x : Good(Here', x) <=> Good(r, x)
  BY <1>1
<1> QED BY <1>1, <1>3, <1>4

(* The parts of the types that the operators keep.                         *)
LEMMA PartTyped ==
    ASSUME TypeOK, NEW r \in Part, Become(r), NEW live, Sound(r, live), cfg' = cfg
    PROVE  /\ (cfg \in Configs)' /\ ae' \in EventLoop /\ net' \in [Sockets -> Socket]
           /\ \A fd \in Sockets : net'[fd].state = "closed" => net'[fd] = Closed
           /\ (conn \in [Conns -> Connection])'
           /\ errors' \in [ErrorKinds -> 0 .. CounterMod - 1]
           /\ stale' \subseteq 0 .. SetSize
BY DEF TypeOK, Become, Part, Sound, Connection, BatchLen

LEMMA EntriesTyped ==
    ASSUME TypeOK
    PROVE  \A i \in DOMAIN fired : fired[i] \in Entry /\ fired[i].fd \in Fds
<1>1. \A i \in DOMAIN fired : fired[i] \in Entry
  BY DEF TypeOK
<1> QED BY <1>1 DEF Entry

(* The loop goes on to the next entry.                                     *)
LEMMA NextEntryFresh ==
    ASSUME IInv, fired # <<>>, NextEntry, ae'.api = ae.api,
           \A i \in DOMAIN fired : ae.api # "kqueue" /\ i # 1 /\ fired[i].mask # {}
              => Good(Here', fired[i].fd)
    PROVE  /\ FiredFresh' /\ fired' \in Seq(Entry)
           /\ step' \in {"R", "timers"} /\ (step' = "R" <=> fired' # <<>>)
           /\ rfired' = FALSE
<1>1. fired \in Seq(Entry)
  BY DEF IInv, TypeOK
<1>2. /\ fired' \in Seq(Entry)
      /\ \A i \in DOMAIN fired' : i + 1 \in DOMAIN fired /\ fired'[i] = fired[i + 1] /\ i + 1 # 1
      /\ \A i, j \in DOMAIN fired' : i + 1 = j + 1 => i = j
  BY <1>1 DEF NextEntry
<1>3. step' \in {"R", "timers"} /\ (step' = "R" <=> fired' # <<>>) /\ rfired' = FALSE
  BY DEF NextEntry
<1>4. ASSUME ae'.api # "kqueue"
      PROVE  /\ \A i, j \in DOMAIN fired' : fired'[i].fd = fired'[j].fd => i = j
             /\ \A i \in DOMAIN fired' : fired'[i].mask # {} => Good(Here', fired'[i].fd)
  <2>1. \A i, j \in DOMAIN fired : fired[i].fd = fired[j].fd => i = j
    BY <1>4 DEF IInv, FiredFresh
  <2>2. ASSUME NEW i \in DOMAIN fired', NEW j \in DOMAIN fired', fired'[i].fd = fired'[j].fd
        PROVE  i = j
    BY <1>2, <2>1, <2>2
  <2>3. ASSUME NEW i \in DOMAIN fired', fired'[i].mask # {}
        PROVE  Good(Here', fired'[i].fd)
    <3>1. i + 1 \in DOMAIN fired /\ i + 1 # 1 /\ fired'[i] = fired[i + 1]
      BY <1>2
    <3>2. Good(Here', fired[i + 1].fd)
      BY <1>4, <2>3, <3>1
    <3> QED BY <3>1, <3>2
  <2> QED BY <2>2, <2>3
<1>5. FiredFresh'
  <2> SUFFICES ASSUME ae'.api # "kqueue", NEW i \in DOMAIN fired', fired'[i].mask # {}
               PROVE  (HeadFresh(fired[i]) /\ LaterFresh(fired[i]))'
    BY <1>4 DEF FiredFresh
  <2>1. Good(Here', fired'[i].fd)
    BY <1>4
  <2> QED BY <1>3, <2>1 DEF HeadFresh, LaterFresh
<1> QED BY <1>2, <1>3, <1>5

LEMMA HandlerDone ==
    ASSUME IInv, NEW proc, NEW c \in Conns, Called(proc, c),
           NEW r, Handled(Here, r, c), Become(r),
           timers' \in [Conns -> Nat], \A d \in Conns : timers'[d] > 0 => d \in Live,
           UNCHANGED <<cfg, todo, reader, buf, stop, loopStop>>
    PROVE  IInv'
<1> DEFINE h == Head(fired)
<1>0. r \in Part /\ Sound(r, Live) /\ r.ae.api = ae.api
  BY DEF Handled, Here
<1>1. /\ c \in Live /\ fired # <<>> /\ h \in Entry /\ h.fd \in Fds /\ h.mask # {}
      /\ ae.api # "kqueue" => Good(Here, h.fd) /\ conn[c].fd = h.fd
  BY Calling
<1>2. /\ Here' = r /\ Sound(Here, Live)' /\ \A x : Good(Here', x) <=> Good(r, x)
  BY <1>0, Becomes
<1>3. ae'.api = ae.api /\ Live' = Live
  BY <1>0 DEF Become, Live
<1>4. fired \in Seq(Entry) /\ h = fired[1] /\ 1 \in DOMAIN fired
  BY <1>1 DEF IInv, TypeOK
<1>5. ASSUME ae.api # "kqueue", NEW i \in DOMAIN fired, i # 1, fired[i].mask # {}
      PROVE  Good(Here', fired[i].fd)
  <2>1. fired[i].fd # h.fd /\ Good(Here, fired[i].fd)
    BY <1>4, <1>5 DEF IInv, FiredFresh, LaterFresh
  <2>2. fired[i].fd # Here.conn[c].fd
    BY <1>1, <1>5, <2>1 DEF Here
  <2>3. fired[i].fd \in Fds
    BY EntriesTyped DEF IInv
  <2> QED BY <1>2, <2>1, <2>2, <2>3 DEF Handled
<1>6. ASSUME ae.api # "kqueue"
      PROVE  Good(Here', h.fd) \/ Quiet(Here', h.fd)
  <2>1. Here.conn[c].fd = h.fd /\ Good(Here, h.fd)
    BY <1>1, <1>6 DEF Here
  <2>2. Good(r, h.fd) \/ Quiet(r, h.fd)
    BY <2>1 DEF Handled
  <2> QED BY <1>2, <2>2
<1>7. /\ FiredFresh' /\ fired' \in Seq(Entry) /\ rfired' \in BOOLEAN
      /\ step' \in {"R", "W", "timers"} /\ (step' \in {"R", "W"} <=> fired' # <<>>)
  <2>1. CASE CallReadable(proc, c) /\ step' = "W"
    <3>1. fired' = fired /\ rfired' = TRUE /\ step' = "W"
      BY <2>1 DEF CallReadable
    <3>2. ASSUME ae'.api # "kqueue"
          PROVE  /\ \A i, j \in DOMAIN fired : fired[i].fd = fired[j].fd => i = j
                 /\ \A i \in DOMAIN fired : fired[i].mask # {} /\ i # 1
                       => Good(Here', fired[i].fd)
                 /\ Good(Here', fired[1].fd) \/ Quiet(Here', fired[1].fd)
      BY <1>3, <1>4, <1>5, <1>6, <3>2 DEF IInv, FiredFresh
    <3>3. FiredFresh'
      <4> SUFFICES ASSUME ae'.api # "kqueue", NEW i \in DOMAIN fired, fired[i].mask # {}
                   PROVE  (IF i = 1 THEN HeadFresh(fired[i]) ELSE LaterFresh(fired[i]))'
        BY <3>1, <3>2 DEF FiredFresh
      <4>1. CASE i = 1
        BY <3>1, <3>2, <4>1 DEF HeadFresh
      <4>2. CASE i # 1
        BY <3>1, <3>2, <4>2 DEF LaterFresh
      <4> QED BY <4>1, <4>2
    <3> QED BY <1>1, <1>4, <3>1, <3>3
  <2>2. CASE CallWritable(proc, c)
    <3>1. NextEntry
      BY <2>2 DEF CallWritable
    <3>2. /\ FiredFresh' /\ fired' \in Seq(Entry)
          /\ step' \in {"R", "timers"} /\ (step' = "R" <=> fired' # <<>>)
          /\ rfired' = FALSE
      BY <1>1, <1>3, <1>5, <3>1, NextEntryFresh
    <3> QED BY <3>2
  <2> QED BY <2>1, <2>2 DEF Called
<1>8. TypeOK'
  <2>1. /\ (cfg \in Configs)' /\ ae' \in EventLoop /\ net' \in [Sockets -> Socket]
        /\ \A fd \in Sockets : net'[fd].state = "closed" => net'[fd] = Closed
        /\ (conn \in [Conns -> Connection])'
        /\ errors' \in [ErrorKinds -> 0 .. CounterMod - 1]
        /\ stale' \subseteq 0 .. SetSize
    BY <1>0, PartTyped DEF IInv
  <2>2. step # "inR"
    BY DEF Called, CallReadable, CallWritable
  <2>3. reader' = NoOwner /\ buf' = <<>> /\ todo' \subseteq Conns
        /\ stop' \in BOOLEAN /\ loopStop' \in BOOLEAN
    BY <2>2 DEF IInv, TypeOK
  <2> QED BY <1>7, <2>1, <2>3 DEF TypeOK
<1>9. Control'
  BY <1>3, <1>7 DEF IInv, Control
<1> QED BY <1>2, <1>7, <1>8, <1>9 DEF IInv

---------------------------------------------------------------------------
(* The steps of the handlers                                               *)

LEMMA ConfigTyped ==
    ASSUME TypeOK
    PROVE  /\ cfg.pipeline \in 1 .. PendingMod - 1 /\ PendingMod \in Nat \ {0, 1}
           /\ BatchLen \in Nat /\ 0 \in 0 .. BatchLen - 1 /\ 0 \in 0 .. PendingMod - 1
           /\ cfg.delay \in BOOLEAN /\ cfg.conns \subseteq Conns
<1>1. cfg \in Configurations /\ PendingMod \in Nat \ {0, 1}
  BY WorkerAssumption DEF TypeOK
<1>2. cfg.pipeline \in 1 .. PendingMod - 1
  BY <1>1 DEF Configurations
<1>3. BatchLen \in Nat /\ 0 \in 0 .. BatchLen - 1
  BY <1>1, <1>2 DEF BatchLen
<1> QED BY <1>1, <1>2, <1>3 DEF Configurations

(* A step that changes the struct of c and not its descriptor.             *)
LEMMA AlterSteady ==
    ASSUME NEW s \in Part, Sound(s, Live), NEW c \in Conns, NEW k \in Connection,
           k.fd = s.conn[c].fd
    PROVE  LET r == [s EXCEPT !.conn[c] = k] IN
           /\ r \in Part /\ Sound(r, Live) /\ Steady(s, r, c) /\ Open(r) = Open(s)
           /\ r.conn[c] = k /\ r.ae = s.ae /\ r.net = s.net
<1> DEFINE r == [s EXCEPT !.conn[c] = k]
<1>1. /\ r \in Part /\ r.ae = s.ae /\ r.net = s.net /\ r.stale = s.stale
      /\ r.conn = [s.conn EXCEPT ![c] = k]
  BY DEF Part
<1> HIDE DEF r
<1>2. \A d \in Conns : r.conn[d].fd = s.conn[d].fd
  BY <1>1 DEF Part
<1>3. Same(s, r)
  BY <1>1, <1>2 DEF Same
<1>4. Sound(r, Live) /\ Steady(s, r, c)
  BY <1>1, <1>3, SameSteady DEF Steady
<1>5. Open(r) = Open(s) /\ r.conn[c] = k
  BY <1>1 DEF Open, Part
<1> QED BY <1>1, <1>4, <1>5 DEF r

LEMMA CompletedSteady ==
    ASSUME TypeOK, NEW s \in Part, Sound(s, Live), NEW c \in Conns, c \in Live
    PROVE  Steady(s, Completed(s, c), c)
<1> DEFINE left == (s.conn[c].pending - 1) % PendingMod
           k    == [s.conn[c] EXCEPT !.pending = left]
           t    == [s EXCEPT !.conn[c].pending = left]
           u    == IF s.conn[c].late THEN Count(t, "timeout") ELSE t
           j    == [u.conn[c] EXCEPT !.delayed = cfg.delay, !.timed = FALSE, !.late = FALSE]
           v    == [u EXCEPT !.conn[c].delayed = cfg.delay,
                             !.conn[c].timed = FALSE, !.conn[c].late = FALSE]
           r    == Register(v, v.conn[c].fd, {"W"}, "socket_writeable", c)
<1>1. Completed(s, c) = IF left # 0 THEN t ELSE r
  BY DEF Completed
<1>2. left \in 0 .. PendingMod - 1
  <2>1. s.conn[c].pending \in Int
    BY DEF Part, Connection
  <2> QED BY <2>1, ConfigTyped
<1> HIDE DEF left
<1>3. k \in Connection /\ k.fd = s.conn[c].fd /\ t = [s EXCEPT !.conn[c] = k]
  BY <1>2 DEF Part, Connection
<1> HIDE DEF k, t
<1>4. t \in Part /\ Sound(t, Live) /\ Steady(s, t, c)
  BY <1>3, AlterSteady
<1>5. u \in Part /\ Sound(u, Live) /\ Steady(s, u, c)
  <2>1. "timeout" \in ErrorKinds
    BY DEF ErrorKinds
  <2>2. Steady(t, Count(t, "timeout"), c)
    BY <1>4, <2>1, CountSteady
  <2>3. Steady(s, Count(t, "timeout"), c)
    BY <1>4, <2>2, SteadyTransitive
  <2> QED BY <1>4, <2>3 DEF Steady
<1> HIDE DEF u
<1>6. j \in Connection /\ j.fd = u.conn[c].fd /\ v = [u EXCEPT !.conn[c] = j]
  <2>1. u.conn[c] \in Connection
    BY <1>5 DEF Part
  <2>2. cfg.delay \in BOOLEAN
    BY ConfigTyped
  <2>3. j \in Connection /\ j.fd = u.conn[c].fd
    BY <2>1, <2>2 DEF Connection
  <2>4. v = [u EXCEPT !.conn[c] = j]
    BY <1>5, <2>1 DEF Part, Connection
  <2> QED BY <2>3, <2>4
<1> HIDE DEF j, v
<1>7. v \in Part /\ Sound(v, Live) /\ Steady(u, v, c)
  BY <1>5, <1>6, AlterSteady
<1>8. Steady(v, r, c)
  <2>1. v.conn[c].fd \in Fds
    BY <1>7, FdsAreSlots DEF Part, Connection
  <2>2. {"W"} \in Masks /\ "socket_writeable" \in Procs
    BY WorkerAssumption DEF Masks, Ev
  <2> QED BY <1>7, <2>1, <2>2, RegisterSteady
<1> HIDE DEF r
<1>9. Steady(s, r, c)
  BY <1>5, <1>7, <1>8, SteadyTransitive
<1> QED BY <1>1, <1>4, <1>9

LEMMA QuietTimers ==
    ASSUME IInv, timers' = timers
    PROVE  timers' \in [Conns -> Nat] /\ \A d \in Conns : timers'[d] > 0 => d \in Live
BY DEF IInv, TypeOK, Control

(* A handler that changes no timer, as HandlerDone.                        *)
LEMMA QuietHandlerDone ==
    ASSUME IInv, NEW proc, NEW c \in Conns, Called(proc, c),
           NEW r, Handled(Here, r, c), Become(r), UNCHANGED quietVars
    PROVE  IInv'
<1>1. timers' = timers /\ UNCHANGED <<cfg, todo, reader, buf, stop, loopStop>>
  BY DEF quietVars
<1> QED BY <1>1, QuietTimers, HandlerDone

LEMMA ConnectedKeeps ==
    ASSUME IInv, NEW c \in Conns, SocketConnected(c)
    PROVE  IInv'
<1> DEFINE h == Head(fired)
<1>1. Called("socket_connected", c) /\ UNCHANGED quietVars
  BY DEF SocketConnected
<1>2. /\ c \in Live /\ h.fd \in Fds
      /\ h.fd \in Open(Here) => conn[c].fd = h.fd
  BY <1>1, Calling
<1>3. Here \in Part /\ Sound(Here, Live) /\ Here.conn = conn
  BY HereInPart DEF IInv, Here
<1>4. PICK q \in ConnectResults, ok \in Connecting :
        CASE q = "RETRY" -> Become(Here)
          [] q = "ERROR" -> Become(reconnect_socket(Count(Here, "connect"), c, ok))
          [] q = "OK"    -> Become(Connected(h.fd, c))
  BY DEF SocketConnected
<1>5. CASE q = "RETRY"
  <2>1. Handled(Here, Here, c)
    BY <1>3, SameSteady, HandledSteady DEF Same
  <2> QED BY <1>1, <1>4, <1>5, <2>1, QuietHandlerDone
<1>6. CASE q = "ERROR"
  <2>1. Steady(Here, Count(Here, "connect"), c)
    BY <1>3, CountSteady DEF ErrorKinds
  <2>2. Handled(Here, reconnect_socket(Count(Here, "connect"), c, ok), c)
    BY <1>2, <2>1, HandledCut
  <2>3. Become(reconnect_socket(Count(Here, "connect"), c, ok))
    BY <1>4, <1>6
  <2> QED BY <1>1, <2>2, <2>3, QuietHandlerDone
<1>7. CASE q = "OK"
  <2> DEFINE k == [conn[c] EXCEPT !.parser = "start", !.written = 0]
             s == [Here EXCEPT !.conn[c].parser = "start", !.conn[c].written = 0]
             t == Register(s, h.fd, {"R"}, "socket_readable", c)
             r == Register(t, h.fd, {"W"}, "socket_writeable", c)
  <2>1. Become(r)
    BY <1>4, <1>7 DEF Connected, Armed
  <2>2. k \in Connection /\ k.fd = Here.conn[c].fd /\ s = [Here EXCEPT !.conn[c] = k]
    <3>1. conn[c] \in Connection /\ 0 \in 0 .. BatchLen - 1
      BY ConfigTyped DEF IInv, TypeOK
    <3> QED BY <1>3, <3>1 DEF Connection, Part
  <2>3. {"R"} \in Masks /\ {"W"} \in Masks
        /\ {"socket_readable", "socket_writeable"} \subseteq Procs
    BY WorkerAssumption DEF Masks, Ev
  <2> HIDE DEF h, k, s
  <2>4. s \in Part /\ Sound(s, Live) /\ Steady(Here, s, c) /\ Open(s) = Open(Here)
    BY <1>3, <2>2, AlterSteady
  <2>5. h.fd \in Open(s) => s.conn[c].fd = h.fd
    BY <1>2, <1>3, <2>4 DEF Steady
  <2>6. Steady(s, t, c) /\ Open(t) = Open(s)
    BY <1>2, <2>3, <2>4, <2>5, RegisterSteady DEF h
  <2> HIDE DEF t
  <2>7. t \in Part /\ Sound(t, Live) /\ (h.fd \in Open(t) => t.conn[c].fd = h.fd)
    BY <2>5, <2>6 DEF Steady
  <2>8. Steady(t, r, c)
    BY <1>2, <2>3, <2>7, RegisterSteady DEF h
  <2> HIDE DEF r
  <2>9. Steady(Here, r, c)
    BY <2>4, <2>6, <2>8, SteadyTransitive
  <2>10. Handled(Here, r, c)
    BY <1>3, <2>9, HandledSteady
  <2> QED BY <1>1, <2>1, <2>10, QuietHandlerDone
<1>8. q \in {"RETRY", "ERROR", "OK"}
  BY DEF ConnectResults
<1> QED BY <1>5, <1>6, <1>7, <1>8

LEMMA HoldKeeps ==
    ASSUME IInv, NEW c \in Conns, HoldRequest(c)
    PROVE  IInv'
<1> DEFINE h == Head(fired)
           r == Unregister(Here, h.fd, {"W"})
<1>1. /\ Called("socket_writeable", c) /\ UNCHANGED <<cfg, todo, reader, buf, stop, loopStop>>
      /\ timers' = [timers EXCEPT ![c] = timers[c] + 1] /\ Become(r)
  BY DEF HoldRequest
<1>2. c \in Live /\ h.fd \in Fds
  BY <1>1, Calling
<1>3. Here \in Part /\ Sound(Here, Live)
  BY HereInPart DEF IInv
<1>4. Handled(Here, r, c)
  BY <1>2, <1>3, UnregisterSteady, HandledSteady
<1>5. timers' \in [Conns -> Nat] /\ \A d \in Conns : timers'[d] > 0 => d \in Live
  <2>1. timers \in [Conns -> Nat] /\ \A d \in Conns : timers[d] > 0 => d \in Live
    BY DEF IInv, TypeOK, Control
  <2> QED BY <1>1, <1>2, <2>1
<1> QED BY <1>1, <1>4, <1>5, HandlerDone

LEMMA SendKeeps ==
    ASSUME IInv, NEW c \in Conns, SendRequest(c)
    PROVE  IInv'
<1> DEFINE h     == Head(fired)
           fd    == conn[c].fd
           w     == conn[c].written
           begun == IF w # 0 THEN Here ELSE Begun(c)
           whole(n) == w + n = BatchLen
           got(n) == (w + n) \div 2 - w \div 2
           s(n)  == [begun EXCEPT
                        !.conn[c].written = IF whole(n) THEN 0 ELSE w + n,
                        !.net[fd].owed = IF net[fd].eof THEN @ ELSE @ + got(n)]
           r(n)  == IF whole(n) THEN Unregister(s(n), h.fd, {"W"}) ELSE s(n)
<1>1. Called("socket_writeable", c) /\ UNCHANGED quietVars
  BY DEF SendRequest
<1>2. c \in Live /\ h.fd \in Fds
  BY <1>1, Calling
<1>3. Here \in Part /\ Sound(Here, Live) /\ Here.conn = conn /\ Here.net = net
  BY HereInPart DEF IInv, Here
<1>4. PICK n \in WriteResults(fd, BatchLen - w), ok \in Connecting :
        CASE n = -1 -> Become(reconnect_socket(Count(begun, "write"), c, ok))
          [] n = 0  -> Become(begun)
          [] OTHER  -> Become(r(n))
  BY DEF SendRequest
<1>5. conn[c] \in Connection /\ w \in 0 .. BatchLen - 1 /\ BatchLen \in Nat
  BY <1>3, ConfigTyped DEF Part, Connection, IInv
<1>6. begun \in Part /\ Sound(begun, Live) /\ Steady(Here, begun, c) /\ begun.net = net
  <2> DEFINE k == [conn[c] EXCEPT !.pending = cfg.pipeline, !.timed = TRUE, !.late = FALSE]
  <2>1. k \in Connection /\ k.fd = Here.conn[c].fd
    <3>1. cfg.pipeline \in 0 .. PendingMod - 1
      BY ConfigTyped DEF IInv
    <3> QED BY <1>3, <1>5, <3>1 DEF Connection
  <2>2. Begun(c) = [Here EXCEPT !.conn[c] = k]
    BY <1>3, <1>5 DEF Begun, Part, Connection
  <2> HIDE DEF k
  <2>3. /\ Begun(c) \in Part /\ Sound(Begun(c), Live) /\ Steady(Here, Begun(c), c)
        /\ Begun(c).net = Here.net
    BY <1>3, <2>1, <2>2, AlterSteady
  <2>4. Steady(Here, Here, c)
    BY <1>3, SameSteady DEF Same
  <2> QED BY <1>3, <2>3, <2>4
<1> HIDE DEF begun
<1>7. CASE n = -1
  <2>1. Steady(begun, Count(begun, "write"), c)
    BY <1>6, CountSteady DEF ErrorKinds
  <2>2. Steady(Here, Count(begun, "write"), c)
    BY <1>6, <2>1, SteadyTransitive
  <2>3. Handled(Here, reconnect_socket(Count(begun, "write"), c, ok), c)
    BY <1>2, <2>2, HandledCut
  <2> QED BY <1>1, <1>4, <1>7, <2>3, QuietHandlerDone
<1>8. CASE n = 0
  <2>1. Handled(Here, begun, c)
    BY <1>3, <1>6, HandledSteady
  <2>2. Become(begun)
    BY <1>4, <1>8
  <2> QED BY <1>1, <2>1, <2>2, QuietHandlerDone
<1>9. CASE n # -1 /\ n # 0
  <2>1. /\ fd \in Open(Here) /\ fd \in Sockets /\ net[fd].state = "up"
        /\ n \in 0 .. BatchLen - w
    <3>1. fd \in Open(Here)
      BY <1>4, <1>9 DEF WriteResults
    <3>2. fd \in Sockets /\ net[fd] \in Socket /\ net[fd].state # "closed"
      BY <1>3, <3>1 DEF Open, Part
    <3>3. net[fd].state = "up"
      BY <1>4, <1>9, <3>1, <3>2 DEF WriteResults, Socket
    <3>4. BatchLen - w \in 0 .. BatchLen - w
      BY <1>5
    <3>5. n \in 0 .. BatchLen - w
      BY <1>4, <1>9, <3>1, <3>3, <3>4 DEF WriteResults
    <3> QED BY <3>1, <3>2, <3>3, <3>5
  <2>2. (IF whole(n) THEN 0 ELSE w + n) \in 0 .. BatchLen - 1 /\ got(n) \in Int
    BY <1>5, <2>1
  <2> DEFINE wn == IF whole(n) THEN 0 ELSE w + n
             k  == [begun.conn[c] EXCEPT !.written = wn]
             o  == IF net[fd].eof THEN net[fd].owed ELSE net[fd].owed + got(n)
             q  == [net[fd] EXCEPT !.owed = o]
             sn == [begun EXCEPT !.conn[c].written = wn,
                        !.net[fd].owed = IF net[fd].eof THEN @ ELSE @ + got(n)]
  <2> HIDE DEF got
  <2>3. net[fd] \in Socket /\ o \in Int
    <3>1. net[fd] \in Socket
      BY <1>3, <2>1 DEF Part
    <3>2. net[fd].owed \in Int
      BY <3>1 DEF Socket
    <3> QED BY <2>2, <3>1, <3>2
  <2>4. wn \in 0 .. BatchLen - 1
    BY <2>2
  <2>5. sn = s(n)
    OBVIOUS
  <2> HIDE DEF wn, fd
  <2>6. sn = [begun EXCEPT !.conn = [begun.conn EXCEPT ![c] = k],
                           !.net = [net EXCEPT ![fd] = q]]
    BY <1>6, <2>1 DEF Part, Socket
  <2>7. q \in Socket /\ q.state = "up" /\ k \in Connection /\ k.fd = begun.conn[c].fd
    BY <1>6, <2>1, <2>3, <2>4 DEF Part, Socket, Connection
  <2> HIDE DEF k, q, sn, s
  <2>8. /\ sn \in Part /\ sn.ae = begun.ae /\ sn.stale = begun.stale
        /\ sn.conn = [begun.conn EXCEPT ![c] = k] /\ sn.net = [net EXCEPT ![fd] = q]
    BY <1>3, <1>6, <2>6, <2>7 DEF Part
  <2>9. Same(begun, sn)
    BY <1>3, <1>6, <2>1, <2>7, <2>8 DEF Same, Part
  <2>10. Steady(begun, sn, c) /\ Sound(sn, Live)
    BY <1>6, <2>8, <2>9, SameSteady DEF Steady
  <2>11. Steady(sn, r(n), c)
    <3>1. Steady(sn, sn, c)
      BY <2>8, <2>10, SameSteady DEF Same
    <3>2. Steady(sn, Unregister(sn, h.fd, {"W"}), c)
      BY <1>2, <2>8, <2>10, UnregisterSteady
    <3> QED BY <2>5, <3>1, <3>2
  <2> HIDE DEF r
  <2>12. Handled(Here, r(n), c)
    BY <1>3, <1>6, <2>10, <2>11, SteadyTransitive, HandledSteady
  <2>13. Become(r(n))
    BY <1>4, <1>9
  <2> QED BY <1>1, <2>12, <2>13, QuietHandlerDone
<1> QED BY <1>7, <1>8, <1>9

LEMMA CountKeeps ==
    ASSUME NEW s \in Part, Sound(s, Live), NEW e \in ErrorKinds, NEW c \in Conns
    PROVE  Keeps(s, Count(s, e), c) /\ Sound(Count(s, e), Live)
<1> DEFINE r == Count(s, e)
<1>1. r \in Part /\ r.ae = s.ae /\ r.net = s.net /\ r.conn = s.conn /\ r.stale = s.stale
  BY CountEffect
<1> HIDE DEF r
<1>2. Same(s, r)
  BY <1>1 DEF Same
<1>3. Sound(r, Live) /\ \A x \in Fds : (Good(s, x) => Good(r, x)) /\ (Quiet(s, x) => Quiet(r, x))
  BY <1>2, SameSound
<1>4. Keeps(s, r, c)
  BY <1>1, <1>3 DEF Keeps
<1> QED BY <1>3, <1>4 DEF r

(* reconnect_socket after an error that is counted.                        *)
LEMMA ErrorKeeps ==
    ASSUME NEW s \in Part, Sound(s, Live), NEW e \in ErrorKinds, NEW c \in Conns, c \in Live,
           NEW ok
    PROVE  LET r == reconnect_socket(Count(s, e), c, ok) IN
           Keeps(s, r, c) /\ Sound(r, Live) /\ Quiet(r, s.conn[c].fd)
<1> DEFINE t == Count(s, e)
           r == reconnect_socket(t, c, ok)
<1>1. Keeps(s, t, c) /\ Sound(t, Live)
  BY CountKeeps
<1>2. t.conn = s.conn
  BY CountEffect
<1> HIDE DEF t
<1>3. t \in Part
  BY <1>1 DEF Keeps
<1>4. Keeps(t, r, c) /\ Sound(r, Live) /\ Quiet(r, t.conn[c].fd)
  BY <1>1, <1>3, ReconnectSound
<1> HIDE DEF r
<1>5. Keeps(s, r, c)
  BY <1>1, <1>4, KeepsTransitive
<1> QED BY <1>2, <1>4, <1>5 DEF r, t

LEMMA HandledKeeps ==
    ASSUME NEW s, NEW t, NEW r, NEW c, Steady(s, t, c), Keeps(t, r, c), Sound(r, Live),
           Quiet(r, t.conn[c].fd)
    PROVE  Handled(s, r, c)
BY DEF Steady, Keeps, Handled

LEMMA ReadErrorDone ==
    ASSUME IInv, NEW proc, NEW c \in Conns, Called(proc, c), ReadError(c), UNCHANGED quietVars
    PROVE  IInv'
<1>1. c \in Live
  BY Calling
<1>2. Here \in Part /\ Sound(Here, Live) /\ "read" \in ErrorKinds
  BY HereInPart DEF IInv, ErrorKinds
<1>3. PICK ok \in Connecting : Become(reconnect_socket(Count(Here, "read"), c, ok))
  BY DEF ReadError
<1>4. Steady(Here, Here, c)
  BY <1>2, SameSteady DEF Same
<1>5. Handled(Here, reconnect_socket(Count(Here, "read"), c, ok), c)
  BY <1>1, <1>2, <1>4, ErrorKeeps, HandledKeeps
<1> QED BY <1>3, <1>5, QuietHandlerDone

LEMMA ReadFailsKeeps ==
    ASSUME IInv, NEW c \in Conns, ReadFails(c)
    PROVE  IInv'
<1>1. Called("socket_readable", c) /\ UNCHANGED quietVars
  BY DEF ReadFails
<1>2. Become(Here) \/ ReadError(c)
  BY DEF ReadFails
<1>3. CASE Become(Here)
  <2>1. Here \in Part /\ Sound(Here, Live)
    BY HereInPart DEF IInv
  <2>2. Handled(Here, Here, c)
    BY <2>1, SameSteady, HandledSteady DEF Same
  <2> QED BY <1>1, <1>3, <2>2, QuietHandlerDone
<1>4. CASE ReadError(c)
  BY <1>1, <1>4, ReadErrorDone
<1> QED BY <1>2, <1>3, <1>4

LEMMA ReadEofKeeps ==
    ASSUME IInv, NEW c \in Conns, ReadEof(c)
    PROVE  IInv'
<1>1. Called("socket_readable", c) /\ UNCHANGED quietVars
  BY DEF ReadEof
<1>2. c \in Live
  BY <1>1, Calling
<1>3. Here \in Part /\ Sound(Here, Live) /\ TypeOK /\ "read" \in ErrorKinds
  BY HereInPart DEF IInv, ErrorKinds
<1>4. CASE conn[c].parser # "toeof"
  <2>1. ReadError(c)
    BY <1>4 DEF ReadEof, ReadError
  <2> QED BY <1>1, <2>1, ReadErrorDone
<1>5. CASE conn[c].parser = "toeof"
  <2>1. PICK ok1 \in Connecting, ok2 \in Connecting :
          Become(reconnect_socket(Count(reconnect_socket(Completed(Here, c), c, ok1), "read"),
                                  c, ok2))
    BY <1>5 DEF ReadEof
  <2> DEFINE t == Completed(Here, c)
             s == reconnect_socket(t, c, ok1)
             r == reconnect_socket(Count(s, "read"), c, ok2)
  <2>2. Steady(Here, t, c)
    BY <1>2, <1>3, CompletedSteady
  <2> HIDE DEF t
  <2>3. t \in Part /\ Sound(t, Live)
    BY <2>2 DEF Steady
  <2>4. Keeps(t, s, c) /\ Sound(s, Live) /\ Quiet(s, t.conn[c].fd)
    BY <1>2, <2>3, ReconnectSound
  <2> HIDE DEF s
  <2>5. s \in Part
    BY <2>4 DEF Keeps
  <2>6. Keeps(s, r, c) /\ Sound(r, Live)
    BY <1>2, <1>3, <2>4, <2>5, ErrorKeeps
  <2>7. Become(r)
    BY <2>1 DEF s, t
  <2> HIDE DEF r
  <2>8. t.conn[c].fd \in Fds
    BY <2>3, FdsAreSlots DEF Part, Connection
  <2>9. Quiet(r, t.conn[c].fd)
    BY <2>4, <2>6, <2>8 DEF Keeps
  <2>10. Keeps(t, r, c)
    BY <2>4, <2>6, KeepsTransitive
  <2>11. Handled(Here, r, c)
    BY <2>2, <2>6, <2>9, <2>10, HandledKeeps
  <2> QED BY <1>1, <2>7, <2>11, QuietHandlerDone
<1> QED BY <1>4, <1>5

LEMMA ReadBytesKeeps ==
    ASSUME IInv, NEW c \in Conns, ReadBytes(c)
    PROVE  IInv'
<1> DEFINE h  == Head(fired)
           fd == conn[c].fd
<1>1. CallReadable("socket_readable", c) /\ fd \in Open(Here)
  BY DEF ReadBytes
<1>2. PICK n \in 1 .. Len(net[fd].in) :
        /\ buf' = SubSeq(net[fd].in, 1, n)
        /\ net' = [net EXCEPT ![fd].in = SubSeq(@, n + 1, Len(@))]
  BY DEF ReadBytes
<1>3. /\ reader' = c /\ step' = "inR" /\ rfired' = TRUE /\ fired' = fired
      /\ UNCHANGED <<cfg, ae, conn, errors, timers, todo, stop, loopStop, stale>>
  BY <1>1 DEF ReadBytes, CallReadable
<1>4. /\ c \in Live /\ fired # <<>> /\ h.fd \in Fds
      /\ ae.api # "kqueue" => Good(Here, h.fd) /\ conn[c].fd = h.fd
  BY <1>1, Entering
<1>5. fired \in Seq(Entry) /\ h = fired[1] /\ 1 \in DOMAIN fired
  BY <1>4 DEF IInv, TypeOK
<1>6. Here \in Part /\ Sound(Here, Live) /\ TypeOK /\ fd \in Sockets
  BY <1>1, HereInPart DEF IInv, Open
<1> DEFINE in == net[fd].in
           q  == [net[fd] EXCEPT !.in = SubSeq(in, n + 1, Len(in))]
           r  == [Here EXCEPT !.net = [net EXCEPT ![fd] = q]]
<1>7. in \in Seq(Tokens) /\ n \in 1 .. Len(in) /\ net[fd] \in Socket
  <2>1. net[fd] \in Socket
    BY <1>6 DEF TypeOK
  <2> QED BY <1>2, <2>1 DEF Socket
<1>8. buf' \in Seq(Tokens) /\ buf' # <<>> /\ SubSeq(in, n + 1, Len(in)) \in Seq(Tokens)
  <2> HIDE DEF in
  <2>1. buf' = SubSeq(in, 1, n)
    BY <1>2 DEF in
  <2>2. /\ SubSeq(in, 1, n) \in Seq(Tokens) /\ Len(SubSeq(in, 1, n)) = n
        /\ SubSeq(in, n + 1, Len(in)) \in Seq(Tokens)
    BY <1>7
  <2>3. Len(buf') # 0
    BY <1>7, <2>1, <2>2
  <2> QED BY <2>1, <2>2, <2>3
<1>9. q \in Socket /\ q.state = net[fd].state
  BY <1>7, <1>8 DEF Socket
<1>10. net' = [net EXCEPT ![fd] = q]
  BY <1>2, <1>6 DEF TypeOK, Socket
<1> HIDE DEF q, fd
<1>11. /\ r \in Part /\ r.ae = ae /\ r.conn = conn /\ r.stale = stale /\ r.errors = errors
       /\ r.net = net'
  BY <1>6, <1>9, <1>10 DEF Here, Part
<1>12. Become(r)
  BY <1>3, <1>11 DEF Become
<1>13. Same(Here, r)
  <2>1. net[fd].state # "closed"
    BY <1>1 DEF Open, Here
  <2> QED BY <1>6, <1>9, <1>10, <1>11, <2>1 DEF Same, Here, TypeOK
<1> HIDE DEF r
<1>14. Sound(r, Live) /\ \A x \in Fds : Good(Here, x) => Good(r, x)
  BY <1>6, <1>13, SameSound
<1>15. Here' = r /\ Sound(Here, Live)' /\ Live' = Live
  BY <1>3, <1>11, <1>12, <1>14, Becomes DEF Live
<1>16. TypeOK'
  <2>1. /\ (cfg \in Configs)' /\ ae' \in EventLoop /\ net' \in [Sockets -> Socket]
        /\ \A x \in Sockets : net'[x].state = "closed" => net'[x] = Closed
        /\ (conn \in [Conns -> Connection])'
        /\ errors' \in [ErrorKinds -> 0 .. CounterMod - 1]
        /\ stale' \subseteq 0 .. SetSize
    BY <1>3, <1>6, <1>11, <1>12, <1>14, PartTyped
  <2> QED BY <1>3, <1>4, <1>6, <1>8, <2>1 DEF TypeOK
<1>17. Control'
  BY <1>3, <1>4, <1>15 DEF IInv, Control
<1>18. FiredFresh'
  <2> SUFFICES ASSUME ae.api # "kqueue"
               PROVE  /\ \A i, j \in DOMAIN fired : fired[i].fd = fired[j].fd => i = j
                      /\ \A i \in DOMAIN fired : fired[i].mask # {} =>
                           IF i = 1 THEN HeadFresh(fired[i])' ELSE LaterFresh(fired[i])'
    BY <1>3 DEF FiredFresh
  <2>1. \A i, j \in DOMAIN fired : fired[i].fd = fired[j].fd => i = j
    BY DEF IInv, FiredFresh
  <2>2. h.fd = conn[c].fd /\ Good(Here, h.fd)
    BY <1>4
  <2>5. HeadFresh(fired[1])'
    <3>1. Good(r, fired[1].fd) /\ conn[c].fd = fired[1].fd
      BY <1>4, <1>5, <1>14, <2>2
    <3> QED BY <1>3, <1>15, <3>1 DEF HeadFresh
  <2>6. ASSUME NEW i \in DOMAIN fired, i # 1, fired[i].mask # {}
        PROVE  LaterFresh(fired[i])'
    <3>1. Good(Here, fired[i].fd) /\ fired[i].fd \in Fds
      BY <2>6, EntriesTyped DEF IInv, FiredFresh, LaterFresh
    <3>2. fired[i].fd # conn[c].fd
      BY <1>5, <2>1, <2>2, <2>6
    <3>3. Good(r, fired[i].fd)
      BY <1>14, <3>1
    <3> QED BY <1>3, <1>15, <3>2, <3>3 DEF LaterFresh
  <2> QED BY <2>1, <2>5, <2>6
<1> QED BY <1>15, <1>16, <1>17, <1>18 DEF IInv

LEMMA ParseDone ==
    ASSUME IInv, NEW c \in Conns, step = "inR", reader = c, ParseOn \/ ParseFails,
           UNCHANGED parseQuietVars, NEW r \in Part, Become(r), Sound(r, Live),
           r.ae.api = ae.api,
           \A x \in Fds : Good(Here, x) /\ x # conn[c].fd => Good(r, x) /\ x # r.conn[c].fd,
           \A x \in Fds :
              \/ Good(Here, x) /\ conn[c].fd = x
              \/ conn[c].parser = "dead" /\ Quiet(Here, x)
              => \/ Good(r, x) /\ r.conn[c].fd = x
                 \/ Quiet(r, x) /\ (step' = "W" \/ r.conn[c].parser = "dead")
    PROVE  IInv'
<1>1. /\ UNCHANGED <<cfg, timers, todo, fired, rfired, stop, loopStop>>
      /\ Live' = Live
  BY DEF parseQuietVars, Live
<1>2. Here' = r /\ Sound(Here, Live)'
  BY <1>1, Becomes
<1>3. /\ ae' = r.ae /\ conn' = r.conn
  BY DEF Become
<1>4. /\ c \in Live /\ rfired /\ fired # <<>> /\ fired \in Seq(Entry)
      /\ buf \in Seq(Tokens) /\ buf # <<>>
  BY DEF IInv, Control, TypeOK
<1>5. /\ step' \in {"inR", "W"} /\ buf' \in Seq(Tokens)
      /\ step' = "inR" => reader' = c /\ buf' # <<>>
      /\ step' = "W" => reader' = NoOwner /\ buf' = <<>>
  <2>1. Tail(buf) \in Seq(Tokens)
    BY <1>4
  <2>2. <<>> \in Seq(Tokens)
    OBVIOUS
  <2>3. CASE Tail(buf) = <<>> \/ ParseFails
    <3>1. buf' = <<>> /\ reader' = NoOwner /\ step' = "W"
      BY <2>3 DEF ParseOn, ParseFails
    <3> QED BY <2>2, <3>1
  <2>4. CASE Tail(buf) # <<>> /\ ~ParseFails
    <3>1. buf' = Tail(buf) /\ reader' = c /\ step' = "inR"
      BY <2>4 DEF ParseOn
    <3> QED BY <2>1, <2>4, <3>1
  <2> QED BY <2>3, <2>4
<1>6. TypeOK'
  <2>1. /\ (cfg \in Configs)' /\ ae' \in EventLoop /\ net' \in [Sockets -> Socket]
        /\ \A x \in Sockets : net'[x].state = "closed" => net'[x] = Closed
        /\ (conn \in [Conns -> Connection])'
        /\ errors' \in [ErrorKinds -> 0 .. CounterMod - 1]
        /\ stale' \subseteq 0 .. SetSize
    BY <1>1, PartTyped DEF IInv
  <2>2. /\ timers' \in [Conns -> Nat] /\ todo' \subseteq Conns /\ fired' = fired
        /\ stop' \in BOOLEAN /\ loopStop' \in BOOLEAN /\ rfired' \in BOOLEAN
    BY <1>1 DEF IInv, TypeOK
  <2> QED BY <1>4, <1>5, <2>1, <2>2 DEF TypeOK
<1>7. Control'
  BY <1>1, <1>4, <1>5 DEF IInv, Control
<1>8. FiredFresh'
  <2> SUFFICES ASSUME ae.api # "kqueue"
               PROVE  /\ \A i, j \in DOMAIN fired : fired[i].fd = fired[j].fd => i = j
                      /\ \A i \in DOMAIN fired : fired[i].mask # {} =>
                           IF i = 1 THEN HeadFresh(fired[i])' ELSE LaterFresh(fired[i])'
    BY <1>1, <1>3 DEF FiredFresh
  <2>1. \A i, j \in DOMAIN fired : fired[i].fd = fired[j].fd => i = j
    BY DEF IInv, FiredFresh
  <2>2. ASSUME NEW i \in DOMAIN fired, i = 1, fired[i].mask # {}
        PROVE  HeadFresh(fired[i])'
    <3>1. HeadFresh(fired[i]) /\ fired[i].fd \in Fds
      BY <2>2, EntriesTyped DEF IInv, FiredFresh
    <3>2. \/ Good(Here, fired[i].fd) /\ conn[c].fd = fired[i].fd
          \/ conn[c].parser = "dead" /\ Quiet(Here, fired[i].fd)
      BY <3>1 DEF HeadFresh
    <3>3. \/ Good(r, fired[i].fd) /\ r.conn[c].fd = fired[i].fd
          \/ Quiet(r, fired[i].fd) /\ (step' = "W" \/ r.conn[c].parser = "dead")
      BY <3>1, <3>2
    <3> QED BY <1>1, <1>2, <1>3, <1>4, <1>5, <3>3 DEF HeadFresh
  <2>3. ASSUME NEW i \in DOMAIN fired, i # 1, fired[i].mask # {}
        PROVE  LaterFresh(fired[i])'
    <3>1. LaterFresh(fired[i]) /\ fired[i].fd \in Fds
      BY <2>3, EntriesTyped DEF IInv, FiredFresh
    <3>2. Good(Here, fired[i].fd) /\ fired[i].fd # conn[c].fd
      BY <3>1 DEF LaterFresh
    <3>3. Good(r, fired[i].fd) /\ fired[i].fd # r.conn[c].fd
      BY <3>1, <3>2
    <3> QED BY <1>1, <1>2, <1>3, <1>5, <3>3 DEF LaterFresh
  <2> QED BY <2>1, <2>2, <2>3
<1> QED BY <1>2, <1>6, <1>7, <1>8 DEF IInv

LEMMA ParseBeginKeeps ==
    ASSUME IInv, NEW c \in Conns, ParseBegin(c)
    PROVE  IInv'
<1> DEFINE p == IF conn[c].parser = "start" /\ Head(buf) = "H" THEN "mid" ELSE "toeof"
           k == [conn[c] EXCEPT !.parser = p]
           r == [Here EXCEPT !.conn[c] = k]
<1>1. /\ step = "inR" /\ reader = c /\ ParseOn /\ conn[c].parser # "dead"
      /\ conn' = [conn EXCEPT ![c].parser = p]
      /\ UNCHANGED <<ae, net, errors, stale>> /\ UNCHANGED parseQuietVars
  BY DEF ParseBegin
<1>2. Here \in Part /\ Sound(Here, Live) /\ Here.conn = conn /\ conn \in [Conns -> Connection]
  BY HereInPart DEF IInv, Here, TypeOK
<1>3. k \in Connection /\ k.fd = Here.conn[c].fd
  BY <1>2 DEF Connection
<1>4. conn' = [conn EXCEPT ![c] = k]
  BY <1>1, <1>2 DEF Connection
<1> HIDE DEF k
<1>5. Become(r)
  BY <1>1, <1>4 DEF Become, Here
<1>6. r \in Part /\ Sound(r, Live) /\ Steady(Here, r, c)
  BY <1>2, <1>3, AlterSteady
<1> HIDE DEF r
<1>7. /\ r.ae.api = ae.api
      /\ \A x \in Fds : Good(Here, x) => Good(r, x)
      /\ r.conn[c].fd = conn[c].fd
  BY <1>2, <1>6 DEF Steady, Here
<1> QED BY <1>1, <1>5, <1>6, <1>7, ParseDone

LEMMA ParseCompleteKeeps ==
    ASSUME IInv, NEW c \in Conns, ParseComplete(c)
    PROVE  IInv'
<1> DEFINE done == Completed(Here, c)
           K    == [done EXCEPT !.conn[c].parser = "start"]
           C    == [done EXCEPT !.conn[c].parser = "dead"]
<1>1. /\ step = "inR" /\ reader = c /\ ParseOn /\ conn[c].parser = "mid"
      /\ UNCHANGED parseQuietVars
      /\ Become(K) \/ \E ok \in Connecting : Become(reconnect_socket(C, c, ok))
  BY DEF ParseComplete
<1>2. /\ Here \in Part /\ Sound(Here, Live) /\ TypeOK /\ Here.conn = conn /\ Here.ae = ae
      /\ c \in Live
  BY <1>1, HereInPart DEF IInv, Here, Control
<1>3. Steady(Here, done, c)
  BY <1>2, CompletedSteady
<1> HIDE DEF done
<1>4. done \in Part /\ Sound(done, Live)
  BY <1>3 DEF Steady
<1>5. ASSUME NEW p \in {"start", "dead"}
      PROVE  LET r == [done EXCEPT !.conn[c].parser = p] IN
             r \in Part /\ Sound(r, Live) /\ Steady(Here, r, c) /\ r.conn[c].parser = p
  <2> DEFINE k == [done.conn[c] EXCEPT !.parser = p]
             r == [done EXCEPT !.conn[c] = k]
  <2>1. k \in Connection /\ k.fd = done.conn[c].fd /\ k.parser = p
    BY <1>4 DEF Part, Connection
  <2>2. [done EXCEPT !.conn[c].parser = p] = r
    BY <1>4 DEF Part, Connection
  <2> HIDE DEF k
  <2>3. r \in Part /\ Sound(r, Live) /\ Steady(done, r, c) /\ r.conn[c] = k
    BY <1>4, <2>1, AlterSteady
  <2>4. Steady(Here, r, c)
    BY <1>3, <2>3, SteadyTransitive
  <2> QED BY <2>1, <2>2, <2>3, <2>4
<1>6. CASE Become(K)
  <2>1. K \in Part /\ Sound(K, Live) /\ Steady(Here, K, c)
    BY <1>5
  <2> HIDE DEF K
  <2>2. /\ K.ae.api = ae.api
        /\ \A x \in Fds : Good(Here, x) => Good(K, x)
        /\ K.conn[c].fd = conn[c].fd
    BY <1>2, <2>1 DEF Steady
  <2> QED BY <1>1, <1>6, <2>1, <2>2, ParseDone
<1>7. ASSUME NEW ok \in Connecting, Become(reconnect_socket(C, c, ok))
      PROVE  IInv'
  <2> DEFINE r == reconnect_socket(C, c, ok)
  <2>1. C \in Part /\ Sound(C, Live) /\ Steady(Here, C, c) /\ C.conn[c].parser = "dead"
    BY <1>5
  <2> HIDE DEF C
  <2>2. Keeps(C, r, c) /\ Sound(r, Live) /\ Quiet(r, C.conn[c].fd)
    BY <1>2, <2>1, ReconnectSound
  <2>3. Become(r)
    BY <1>7
  <2> HIDE DEF r
  <2>4. r \in Part /\ r.ae.api = ae.api /\ r.conn[c].parser = "dead"
    BY <1>2, <2>1, <2>2 DEF Keeps, Steady
  <2>5. C.conn[c].fd = conn[c].fd /\ \A x \in Fds : Good(Here, x) => Good(C, x)
    BY <1>2, <2>1 DEF Steady
  <2>6. \A x \in Fds : Good(Here, x) /\ x # conn[c].fd => Good(r, x) /\ x # r.conn[c].fd
    BY <2>2, <2>5 DEF Keeps
  <2>7. Quiet(r, conn[c].fd)
    BY <2>2, <2>5
  <2> QED BY <1>1, <2>2, <2>3, <2>4, <2>6, <2>7, ParseDone
<1> QED BY <1>1, <1>6, <1>7

LEMMA ParseErrorKeeps ==
    ASSUME IInv, NEW c \in Conns, ParseError(c)
    PROVE  IInv'
<1>1. /\ step = "inR" /\ reader = c /\ ParseFails /\ ReadError(c) /\ UNCHANGED parseQuietVars
      /\ step' = "W"
  BY DEF ParseError, ParseFails
<1>2. /\ Here \in Part /\ Sound(Here, Live) /\ Here.conn = conn /\ Here.ae = ae
      /\ c \in Live /\ "read" \in ErrorKinds
  BY <1>1, HereInPart DEF IInv, Here, Control, ErrorKinds
<1>3. PICK ok \in Connecting : Become(reconnect_socket(Count(Here, "read"), c, ok))
  BY <1>1 DEF ReadError
<1> DEFINE r == reconnect_socket(Count(Here, "read"), c, ok)
<1>4. Keeps(Here, r, c) /\ Sound(r, Live) /\ Quiet(r, Here.conn[c].fd)
  BY <1>2, ErrorKeeps
<1>5. Become(r)
  BY <1>3
<1> HIDE DEF r
<1>6. /\ r \in Part /\ r.ae.api = ae.api
      /\ \A x \in Fds : Good(Here, x) /\ x # conn[c].fd => Good(r, x) /\ x # r.conn[c].fd
      /\ \A x \in Fds : Quiet(Here, x) => Quiet(r, x)
      /\ Quiet(r, conn[c].fd)
  BY <1>2, <1>4 DEF Keeps
<1> QED BY <1>1, <1>4, <1>5, <1>6, ParseDone

---------------------------------------------------------------------------
(* The other steps                                                         *)

LEMMA ConnectNextKeeps ==
    ASSUME IInv, NEW c \in Conns, ConnectNext(c)
    PROVE  IInv'
<1>1. /\ step = "setup" /\ c \in todo /\ todo' = todo \ {c}
      /\ UNCHANGED <<cfg, timers, fired, rfired, step, reader, buf, stop, loopStop>>
  BY DEF ConnectNext, loopVars
<1>2. PICK ok \in Connecting : Become(connect_socket(Here, c, ok))
  BY DEF ConnectNext
<1> DEFINE r == connect_socket(Here, c, ok)
<1>3. Here \in Part /\ Sound(Here, Live) /\ TypeOK /\ Here.ae = ae /\ todo \subseteq cfg.conns
  BY HereInPart DEF IInv, Here, Control
<1>4. Live' = Live \cup {c}
  BY <1>1, <1>3 DEF Live
<1>5. \A x \in Open(Here) : ae.data[x] # c
  <2>1. ASSUME NEW x \in Open(Here)
        PROVE  ae.data[x] \in Live \cup {NoOwner}
    BY <1>3 DEF Sound, Held
  <2> QED BY <1>1, <2>1, NoneAssumption DEF Live, Conns
<1>6. Keeps(Here, r, c) /\ Sound(r, Live \cup {c})
  BY <1>3, <1>5, ConnectSound
<1>7. Become(r)
  BY <1>2
<1> HIDE DEF r
<1>8. r \in Part
  BY <1>6 DEF Keeps
<1>9. Here' = r
  BY <1>7, <1>8 DEF Here, Become, Part
<1>10. Sound(Here, Live)'
  BY <1>4, <1>6, <1>9
<1>11. fired = <<>>
  BY <1>1 DEF IInv, Control
<1>12. TypeOK'
  <2>1. /\ (cfg \in Configs)' /\ ae' \in EventLoop /\ net' \in [Sockets -> Socket]
        /\ \A x \in Sockets : net'[x].state = "closed" => net'[x] = Closed
        /\ (conn \in [Conns -> Connection])'
        /\ errors' \in [ErrorKinds -> 0 .. CounterMod - 1]
        /\ stale' \subseteq 0 .. SetSize
    BY <1>1, <1>3, <1>6, <1>7, <1>8, PartTyped
  <2> QED BY <1>1, <1>3, <2>1 DEF TypeOK
<1>13. Control'
  BY <1>1, <1>4 DEF IInv, Control
<1>14. FiredFresh'
  BY <1>1, <1>11 DEF FiredFresh
<1> QED BY <1>10, <1>12, <1>13, <1>14 DEF IInv

LEMMA PollKeeps ==
    ASSUME IInv, Poll
    PROVE  IInv'
<1> DEFINE S == Fired(ae, Readiness)
<1>1. /\ step = "poll" /\ fired' \in Orders(ae, S) /\ ae' = AfterPoll(ae, S)
      /\ step' = (IF S = {} THEN "timers" ELSE "R") /\ rfired' = FALSE /\ stale' = {}
      /\ UNCHANGED <<cfg, net, conn, errors, timers, todo, reader, buf, stop, loopStop>>
  BY DEF Poll
<1>2. ae \in EventLoop /\ TypeOK /\ Sound(Here, Live)
  BY DEF IInv, TypeOK
<1>3. S \subseteq Entry /\ IsFiniteSet(S)
  BY <1>2, FiredTyped
<1>4. /\ fired' \in Seq(Entry) /\ (S # {} <=> fired' # <<>>)
      /\ \A i \in DOMAIN fired' : fired'[i] \in S
      /\ \A i, j \in DOMAIN fired' : fired'[i] = fired'[j] => i = j
  BY <1>1, <1>3, OrdersTyped
<1>5. \A e \in S : /\ e.mask # {} => Readiness[e.fd] # {}
                   /\ ae.api # "kqueue" => \A f \in S : e.fd = f.fd => e = f
  BY <1>2, OneEntry
<1>6. ae' \in EventLoop /\ ae'.api = ae.api
  BY <1>1, <1>2, PollTyped
<1>7. /\ ae'.mask = ae.mask /\ ae'.data = ae.data
      /\ ae.api # "evport" => ae' = ae
  BY <1>1, <1>2, PollEffect
<1>8. Open(Here)' = Open(Here)
  BY <1>1 DEF Open, Here
<1>9. Sound(Here, Live)'
  <2>1. ASSUME NEW x \in Open(Here)
        PROVE  Held(Here', x)
    <3>1. Held(Here, x)
      BY <1>2 DEF Sound
    <3> QED BY <1>1, <1>6, <1>7, <3>1 DEF Held, Here
  <2>2. /\ \A x \in Sockets : net'[x].state = "closed" => net'[x] = Closed
        /\ \A x \in Fds : ae'.data[x] \in Live' \cup {NoOwner}
    BY <1>1, <1>2, <1>7 DEF Sound, Here, Live
  <2> QED BY <1>8, <2>1, <2>2 DEF Sound, Here
<1>10. ASSUME NEW x \in Fds, Readiness[x] # {}
       PROVE  Good(Here', x)
  <2>1. x \in Open(Here) /\ net[x].state # "connecting"
    BY <1>10 DEF Readiness
  <2>2. x \in Open(Here)'
    BY <1>8, <2>1
  <2> QED BY <1>1, <2>1, <2>2 DEF Good, Here
<1>11. ASSUME NEW i \in DOMAIN fired', fired'[i].mask # {}
       PROVE  Good(Here', fired'[i].fd)
  <2>1. fired'[i].fd \in Fds /\ fired'[i] \in S
    BY <1>3, <1>4 DEF Entry
  <2> QED BY <1>5, <1>10, <1>11, <2>1
<1>12. step' # "inR" /\ step' # "setup"
  BY <1>1
<1> HIDE DEF S
<1>13. FiredFresh'
  <2> SUFFICES ASSUME ae'.api # "kqueue"
               PROVE  /\ \A i, j \in DOMAIN fired' : fired'[i].fd = fired'[j].fd => i = j
                      /\ \A i \in DOMAIN fired' : fired'[i].mask # {} =>
                           (HeadFresh(fired[i]) /\ LaterFresh(fired[i]))'
    BY DEF FiredFresh
  <2>1. ASSUME NEW i \in DOMAIN fired', NEW j \in DOMAIN fired', fired'[i].fd = fired'[j].fd
        PROVE  i = j
    <3>1. fired'[i] \in S /\ fired'[j] \in S
      BY <1>4
    <3>2. fired'[i] = fired'[j]
      BY <1>5, <1>6, <2>1, <3>1
    <3> QED BY <1>4, <3>2
  <2>2. ASSUME NEW i \in DOMAIN fired', fired'[i].mask # {}
        PROVE  (HeadFresh(fired[i]) /\ LaterFresh(fired[i]))'
    <3>1. Good(Here', fired'[i].fd)
      BY <1>11, <2>2
    <3> QED BY <1>12, <3>1 DEF HeadFresh, LaterFresh
  <2> QED BY <2>1, <2>2
<1>14. Control'
  BY <1>1, <1>4 DEF IInv, Control, Live
<1>15. TypeOK'
  <2>1. reader' = NoOwner /\ buf' = <<>> /\ buf' \in Seq(Tokens) /\ stale' \subseteq 0 .. SetSize
    BY <1>1, <1>2 DEF TypeOK
  <2>3. /\ step' \in {"timers", "R"} /\ (step' = "R" => fired' # <<>>) /\ rfired' \in BOOLEAN
    BY <1>1, <1>4
  <2>2. /\ cfg' \in Configs /\ net' \in [Sockets -> Socket] /\ (conn \in [Conns -> Connection])'
        /\ \A x \in Sockets : net'[x].state = "closed" => net'[x] = Closed
        /\ errors' \in [ErrorKinds -> 0 .. CounterMod - 1]
        /\ timers' \in [Conns -> Nat] /\ todo' \subseteq Conns
        /\ stop' \in BOOLEAN /\ loopStop' \in BOOLEAN
    BY <1>1, <1>2 DEF TypeOK, Connection, BatchLen
  <2> QED BY <1>4, <1>6, <2>1, <2>2, <2>3 DEF TypeOK
<1> QED BY <1>9, <1>13, <1>14, <1>15 DEF IInv

(* Steps of the loop that call no handler.                                 *)
LEMMA LoopKeeps ==
    ASSUME IInv, EnterMain \/ SkipReadable \/ SkipWritable \/ TimersDone \/ RecordRate
    PROVE  IInv'
<1>1. /\ UNCHANGED <<cfg, ae, net, conn, errors, timers, todo, reader, buf, stop, stale>>
      /\ loopStop' \in BOOLEAN
  BY DEF IInv, TypeOK, EnterMain, SkipReadable, SkipWritable, TimersDone, RecordRate
<1>2. Here' = Here /\ Live' = Live
  BY <1>1 DEF Here, Live
<1>3. Sound(Here, Live)'
  BY <1>2 DEF IInv
<1>4. TypeOK /\ Control
  BY DEF IInv
<1>5. /\ cfg' \in Configs /\ ae' \in EventLoop
      /\ net' \in [Sockets -> Socket] /\ (conn \in [Conns -> Connection])'
      /\ \A x \in Sockets : net'[x].state = "closed" => net'[x] = Closed
      /\ errors' \in [ErrorKinds -> 0 .. CounterMod - 1]
      /\ timers' \in [Conns -> Nat] /\ todo' \subseteq Conns
      /\ stop' \in BOOLEAN /\ loopStop' \in BOOLEAN /\ stale' \subseteq 0 .. SetSize
  BY <1>1, <1>4 DEF TypeOK, Connection, BatchLen
<1>6. /\ todo' \subseteq cfg'.conns /\ \A c \in Conns : timers'[c] > 0 => c \in Live'
  BY <1>1, <1>2, <1>4 DEF Control
<1>7. CASE EnterMain \/ TimersDone \/ RecordRate
  <2>1. /\ fired = <<>> /\ fired' = fired /\ rfired' = rfired
        /\ step \in {"setup", "timers"} /\ step' \in {"poll", "exit", "timers"}
    BY <1>4, <1>7 DEF EnterMain, TimersDone, RecordRate, loopVars, Control
  <2>2. reader = NoOwner /\ buf = <<>> /\ rfired \in BOOLEAN
    BY <1>4, <2>1 DEF TypeOK
  <2>3. TypeOK'
    BY <1>1, <1>4, <1>5, <2>1, <2>2 DEF TypeOK
  <2>4. Control'
    BY <1>6, <2>1 DEF Control
  <2>5. FiredFresh'
    BY <2>1 DEF FiredFresh
  <2> QED BY <1>3, <2>3, <2>4, <2>5 DEF IInv
<1>8. CASE SkipReadable
  <2>1. step = "R" /\ step' = "W" /\ rfired' = FALSE /\ fired' = fired
    BY <1>8 DEF SkipReadable
  <2>2. fired # <<>> /\ reader = NoOwner /\ buf = <<>>
    BY <1>4, <2>1 DEF TypeOK
  <2>3. TypeOK'
    BY <1>1, <1>4, <1>5, <2>1, <2>2 DEF TypeOK
  <2>4. Control'
    BY <1>6, <2>1, <2>2 DEF Control
  <2>5. FiredFresh'
    <3> SUFFICES ASSUME ae.api # "kqueue"
                 PROVE  /\ \A i, j \in DOMAIN fired : fired[i].fd = fired[j].fd => i = j
                        /\ \A i \in DOMAIN fired : fired[i].mask # {} =>
                             (IF i = 1 THEN HeadFresh(fired[i]) ELSE LaterFresh(fired[i]))'
      BY <1>1, <2>1 DEF FiredFresh
    <3>1. \A i \in DOMAIN fired : fired[i].mask # {} => Good(Here, fired[i].fd)
      BY <2>1 DEF IInv, FiredFresh, HeadFresh, LaterFresh
    <3>2. \A i \in DOMAIN fired : fired[i].mask # {} =>
             (HeadFresh(fired[i]) /\ LaterFresh(fired[i]))'
      BY <1>2, <2>1, <3>1 DEF HeadFresh, LaterFresh
    <3>3. \A i, j \in DOMAIN fired : fired[i].fd = fired[j].fd => i = j
      BY DEF IInv, FiredFresh
    <3> QED BY <3>2, <3>3
  <2> QED BY <1>3, <2>3, <2>4, <2>5 DEF IInv
<1>9. CASE SkipWritable
  <2>1. step = "W" /\ NextEntry
    BY <1>9 DEF SkipWritable
  <2>2. fired # <<>> /\ reader = NoOwner /\ buf = <<>>
    BY <1>4, <2>1 DEF TypeOK
  <2>3. \A i \in DOMAIN fired : ae.api # "kqueue" /\ i # 1 /\ fired[i].mask # {}
            => Good(Here', fired[i].fd)
    BY <1>2 DEF IInv, FiredFresh, LaterFresh
  <2>4. /\ FiredFresh' /\ fired' \in Seq(Entry)
        /\ step' \in {"R", "timers"} /\ (step' = "R" <=> fired' # <<>>)
        /\ rfired' = FALSE
    BY <1>1, <2>1, <2>2, <2>3, NextEntryFresh
  <2>5. TypeOK'
    BY <1>1, <1>4, <1>5, <2>2, <2>4 DEF TypeOK
  <2>6. Control'
    BY <1>6, <2>4 DEF Control
  <2> QED BY <1>3, <2>4, <2>5, <2>6 DEF IInv
<1> QED BY <1>7, <1>8, <1>9

LEMMA DelayKeeps ==
    ASSUME IInv, NEW c \in Conns, DelayRequest(c)
    PROVE  IInv'
<1> DEFINE k == [conn[c] EXCEPT !.delayed = FALSE]
           s == [Here EXCEPT !.conn[c].delayed = FALSE]
           r == Register(s, conn[c].fd, {"W"}, "socket_writeable", c)
<1>1. /\ step = "timers" /\ timers[c] > 0 /\ timers' = [timers EXCEPT ![c] = timers[c] - 1]
      /\ Become(r)
      /\ UNCHANGED <<cfg, todo, fired, rfired, step, reader, buf, stop, loopStop>>
  BY DEF DelayRequest, loopVars
<1>2. /\ Here \in Part /\ Sound(Here, Live) /\ TypeOK /\ Control /\ Here.conn = conn
      /\ conn[c] \in Connection
  BY HereInPart DEF IInv, Here, TypeOK
<1>3. c \in Live /\ fired = <<>>
  BY <1>1, <1>2 DEF Control
<1>4. k \in Connection /\ k.fd = Here.conn[c].fd
  BY <1>2 DEF Connection
<1>5. s = [Here EXCEPT !.conn[c] = k]
  BY <1>2 DEF Part, Connection
<1> HIDE DEF k, s
<1>6. s \in Part /\ Sound(s, Live) /\ s.conn[c] = k
  BY <1>2, <1>4, <1>5, AlterSteady
<1>7. conn[c].fd \in Fds /\ conn[c].fd = s.conn[c].fd
  BY <1>2, <1>4, <1>6, FdsAreSlots DEF Connection
<1>8. {"W"} \in Masks /\ "socket_writeable" \in Procs
  BY WorkerAssumption DEF Masks, Ev
<1>9. Steady(s, r, c)
  BY <1>3, <1>6, <1>7, <1>8, RegisterSteady
<1> HIDE DEF r
<1>10. r \in Part /\ Sound(r, Live)
  BY <1>9 DEF Steady
<1>11. Sound(Here, Live)'
  BY <1>1, <1>10, Becomes
<1>12. TypeOK'
  <2>1. /\ (cfg \in Configs)' /\ ae' \in EventLoop /\ net' \in [Sockets -> Socket]
        /\ \A x \in Sockets : net'[x].state = "closed" => net'[x] = Closed
        /\ (conn \in [Conns -> Connection])'
        /\ errors' \in [ErrorKinds -> 0 .. CounterMod - 1]
        /\ stale' \subseteq 0 .. SetSize
    BY <1>1, <1>2, <1>10, PartTyped
  <2>2. timers \in [Conns -> Nat]
    BY <1>2 DEF TypeOK
  <2>3. timers[c] - 1 \in Nat
    BY <1>1, <2>2
  <2>4. timers' \in [Conns -> Nat]
    BY <1>1, <2>2, <2>3
  <2> QED BY <1>1, <1>2, <2>1, <2>4 DEF TypeOK
<1>13. Control'
  <2>1. timers \in [Conns -> Nat]
    BY <1>2 DEF TypeOK
  <2>2. \A d \in Conns : timers'[d] > 0 => d \in Live
    BY <1>1, <1>2, <1>3, <2>1 DEF Control
  <2> QED BY <1>1, <1>2, <2>2 DEF Control, Live
<1>14. FiredFresh'
  BY <1>1, <1>3 DEF FiredFresh
<1> QED BY <1>11, <1>12, <1>13, <1>14 DEF IInv

(* The main thread, the clock and the server close and open no socket of   *)
(* ours, and take none back to connecting.                                 *)
LEMMA ExternalDone ==
    ASSUME IInv, UNCHANGED othersVars, stop' \in BOOLEAN,
           net' \in [Sockets -> Socket],
           \A x \in Sockets :
              net'[x] # net[x] => /\ net[x].state # "closed"
                                  /\ net'[x].state \notin {"closed", "connecting"},
           conn' \in [Conns -> Connection],
           \A d \in Conns : conn'[d].fd = conn[d].fd /\ conn'[d].parser = conn[d].parser
    PROVE  IInv'
<1> DEFINE r == [Here EXCEPT !.net = net', !.conn = conn']
<1>1. /\ UNCHANGED <<cfg, ae, errors, timers, todo, fired, rfired, step, reader, buf,
                      loopStop, stale>>
      /\ Live' = Live
  BY DEF othersVars, loopVars, Live
<1>2. Here \in Part /\ Sound(Here, Live) /\ TypeOK /\ Control
  BY HereInPart DEF IInv
<1>3. /\ r \in Part /\ r.ae = ae /\ r.net = net' /\ r.conn = conn' /\ r.stale = stale
      /\ r.errors = errors
  BY <1>2 DEF Part, Here
<1>4. Become(r)
  BY <1>1, <1>3 DEF Become
<1> HIDE DEF r
<1>5. Same(Here, r)
  BY <1>3 DEF Same, Here
<1>6. /\ Sound(r, Live)
      /\ \A x \in Fds : (Good(Here, x) => Good(r, x)) /\ (Quiet(Here, x) => Quiet(r, x))
  BY <1>2, <1>5, SameSound
<1>7. Here' = r /\ Sound(Here, Live)'
  BY <1>1, <1>3, <1>4, <1>6, Becomes
<1>8. TypeOK'
  <2>1. /\ (cfg \in Configs)' /\ ae' \in EventLoop /\ net' \in [Sockets -> Socket]
        /\ \A x \in Sockets : net'[x].state = "closed" => net'[x] = Closed
        /\ (conn \in [Conns -> Connection])'
        /\ errors' \in [ErrorKinds -> 0 .. CounterMod - 1]
        /\ stale' \subseteq 0 .. SetSize
    BY <1>1, <1>2, <1>3, <1>4, <1>6, PartTyped
  <2> QED BY <1>1, <1>2, <2>1 DEF TypeOK
<1>9. Control'
  BY <1>1, <1>2 DEF Control
<1>10. FiredFresh'
  <2> SUFFICES ASSUME ae.api # "kqueue"
               PROVE  /\ \A i, j \in DOMAIN fired : fired[i].fd = fired[j].fd => i = j
                      /\ \A i \in DOMAIN fired : fired[i].mask # {} =>
                           (IF i = 1 THEN HeadFresh(fired[i]) ELSE LaterFresh(fired[i]))'
    BY <1>1 DEF FiredFresh
  <2>1. /\ \A i, j \in DOMAIN fired : fired[i].fd = fired[j].fd => i = j
        /\ \A i \in DOMAIN fired : fired[i].mask # {} =>
             IF i = 1 THEN HeadFresh(fired[i]) ELSE LaterFresh(fired[i])
    BY DEF IInv, FiredFresh
  <2>2. ASSUME NEW i \in DOMAIN fired, fired[i].mask # {}
        PROVE  (IF i = 1 THEN HeadFresh(fired[i]) ELSE LaterFresh(fired[i]))'
    <3>1. fired[i].fd \in Fds
      BY <1>2, EntriesTyped
    <3>2. /\ Good(Here, fired[i].fd) => Good(Here', fired[i].fd)
          /\ Quiet(Here, fired[i].fd) => Quiet(Here', fired[i].fd)
      BY <1>6, <1>7, <3>1
    <3>3. step = "inR" => conn'[reader].fd = conn[reader].fd /\ conn'[reader].parser = conn[reader].parser
      BY <1>2 DEF TypeOK
    <3>4. CASE i = 1
      <4>1. HeadFresh(fired[i])
        BY <2>1, <2>2, <3>4
      <4>2. HeadFresh(fired[i])'
        BY <1>1, <3>2, <3>3, <4>1 DEF HeadFresh
      <4> QED BY <1>1, <3>4, <4>2
    <3>5. CASE i # 1
      <4>1. LaterFresh(fired[i])
        BY <2>1, <2>2, <3>5
      <4>2. LaterFresh(fired[i])'
        BY <1>1, <3>2, <3>3, <4>1 DEF LaterFresh
      <4> QED BY <1>1, <3>5, <4>2
    <3> QED BY <3>4, <3>5
  <2> QED BY <2>1, <2>2
<1> QED BY <1>7, <1>8, <1>9, <1>10 DEF IInv

LEMMA ExternalKeeps ==
    ASSUME IInv, SetStop \/ (\E c \in Conns : GrowOld(c)) \/ Server
    PROVE  IInv'
<1>1. /\ net \in [Sockets -> Socket] /\ conn \in [Conns -> Connection] /\ stop \in BOOLEAN
  BY DEF IInv, TypeOK
<1>2. CASE SetStop
  <2>1. stop' = TRUE /\ net' = net /\ conn' = conn /\ UNCHANGED othersVars
    BY <1>2 DEF SetStop
  <2> QED BY <1>1, <2>1, ExternalDone
<1>3. ASSUME NEW c \in Conns, GrowOld(c)
      PROVE  IInv'
  <2>1. /\ conn' = [conn EXCEPT ![c].late = TRUE]
        /\ net' = net /\ stop' = stop /\ UNCHANGED othersVars
    BY <1>3 DEF GrowOld
  <2>2. conn' \in [Conns -> Connection]
    BY <1>1, <2>1 DEF Connection
  <2>3. \A d \in Conns : conn'[d].fd = conn[d].fd /\ conn'[d].parser = conn[d].parser
    BY <1>1, <2>1 DEF Connection
  <2> QED BY <1>1, <2>1, <2>2, <2>3, ExternalDone
<1>4. ASSUME NEW fd \in Sockets, NEW q \in Socket, net' = [net EXCEPT ![fd] = q],
             net[fd].state # "closed", q.state \notin {"closed", "connecting"},
             conn' = conn, stop' = stop, UNCHANGED othersVars
      PROVE  IInv'
  <2>1. net' \in [Sockets -> Socket]
    BY <1>1, <1>4
  <2>2. \A x \in Sockets :
           net'[x] # net[x] => /\ net[x].state # "closed"
                               /\ net'[x].state \notin {"closed", "connecting"}
    BY <1>1, <1>4
  <2> QED BY <1>1, <1>4, <2>1, <2>2, ExternalDone
<1>5. ASSUME NEW fd \in Sockets, Accept(fd)
      PROVE  IInv'
  <2> DEFINE q == [net[fd] EXCEPT !.state = "up"]
  <2>1. q \in Socket /\ q.state = "up" /\ net' = [net EXCEPT ![fd] = q]
    BY <1>1, <1>5 DEF Accept, Socket
  <2>2. net[fd].state # "closed" /\ conn' = conn /\ stop' = stop /\ UNCHANGED othersVars
    BY <1>5 DEF Accept
  <2> HIDE DEF q
  <2> QED BY <1>4, <2>1, <2>2
<1>6. ASSUME NEW fd \in Sockets, RefuseOrReset(fd)
      PROVE  IInv'
  <2> DEFINE q == [Closed EXCEPT !.state = IF net[fd].state = "up" THEN "reset" ELSE "refused"]
  <2>1. q \in Socket /\ q.state \in {"reset", "refused"}
    <3>1. Closed \in Socket
      BY FreshTyped
    <3> HIDE DEF Closed
    <3> QED BY <3>1 DEF Socket
  <2>2. /\ net' = [net EXCEPT ![fd] = q] /\ net[fd].state # "closed"
        /\ conn' = conn /\ stop' = stop /\ UNCHANGED othersVars
    BY <1>6 DEF RefuseOrReset
  <2> HIDE DEF q
  <2> QED BY <1>4, <2>1, <2>2
<1>7. ASSUME NEW fd \in Sockets, NEW kind \in cfg.answers, Answer(fd, kind)
      PROVE  IInv'
  <2> DEFINE new == IF kind \in {"K", "C"} THEN <<"H", kind>> ELSE <<kind>>
             q   == [net[fd] EXCEPT !.in = net[fd].in \o new, !.eof = kind = "E",
                        !.owed = IF kind = "E" THEN 0 ELSE net[fd].owed - 1]
  <2>1. kind \in Tokens /\ "H" \in Tokens
    <3>1. cfg \in Configurations
      BY WorkerAssumption DEF IInv, TypeOK
    <3> QED BY <3>1 DEF Configurations, Tokens
  <2>2. new \in Seq(Tokens)
    BY <2>1
  <2>3. net[fd] \in Socket /\ net[fd].in \in Seq(Tokens) /\ net[fd].owed \in Int
    BY <1>1 DEF Socket
  <2>4. net[fd].in \o new \in Seq(Tokens)
    <3> HIDE DEF new
    <3> QED BY <2>2, <2>3
  <2> HIDE DEF new
  <2>5. net[fd].state = "up" /\ conn' = conn /\ stop' = stop /\ UNCHANGED othersVars
    BY <1>7 DEF Answer
  <2>6. q \in Socket /\ q.state = "up"
    <3> DEFINE w == IF kind = "E" THEN 0 ELSE net[fd].owed - 1
               e == kind = "E"
               s == net[fd].in \o new
    <3>1. w \in Int /\ e \in BOOLEAN /\ s \in Seq(Tokens)
      BY <2>3, <2>4
    <3>2. q = [net[fd] EXCEPT !.in = s, !.eof = e, !.owed = w]
      OBVIOUS
    <3> HIDE DEF w, e, s, q
    <3>3. q \in Socket
      BY <2>3, <3>1, <3>2 DEF Socket
    <3>4. q.state = net[fd].state
      BY <2>3, <3>2 DEF Socket
    <3> QED BY <2>5, <3>3, <3>4
  <2>7. net' = [net EXCEPT ![fd] = q]
    BY <1>1, <1>7, <2>3 DEF Answer, Socket, new
  <2> HIDE DEF q
  <2> QED BY <1>4, <2>5, <2>6, <2>7
<1>8. ASSUME NEW fd \in Sockets, HangUp(fd)
      PROVE  IInv'
  <2>1. PICK s \in {net[fd].in, IF net[fd].in = <<>> THEN <<>> ELSE Front(net[fd].in)} :
           net' = [net EXCEPT ![fd].eof = TRUE, ![fd].owed = 0, ![fd].in = s]
    BY <1>8 DEF HangUp
  <2> DEFINE q == [net[fd] EXCEPT !.eof = TRUE, !.owed = 0, !.in = s]
  <2>2. net[fd] \in Socket /\ net[fd].in \in Seq(Tokens)
    BY <1>1 DEF Socket
  <2>3. s \in Seq(Tokens)
    <3> DEFINE in == net[fd].in
    <3>1. in \in Seq(Tokens)
      BY <2>2
    <3> HIDE DEF in
    <3>2. in # <<>> => Front(in) \in Seq(Tokens)
      BY <3>1 DEF Front
    <3> QED BY <2>1, <3>1, <3>2 DEF in
  <2>4. net[fd].state = "up" /\ conn' = conn /\ stop' = stop /\ UNCHANGED othersVars
    BY <1>8 DEF HangUp
  <2>5. q \in Socket /\ q.state = "up"
    <3>1. q \in Socket
      <4> DEFINE w == 0
                 e == TRUE
      <4>1. w \in Int /\ e \in BOOLEAN
        OBVIOUS
      <4>2. q = [net[fd] EXCEPT !.in = s, !.eof = e, !.owed = w]
        BY <2>2 DEF Socket
      <4> HIDE DEF w, e, q
      <4> QED BY <2>2, <2>3, <4>1, <4>2 DEF Socket
    <3>2. q.state = net[fd].state
      BY <2>2 DEF Socket
    <3> QED BY <2>4, <3>1, <3>2
  <2>6. net' = [net EXCEPT ![fd] = q]
    BY <1>1, <2>1, <2>2 DEF Socket
  <2> HIDE DEF q
  <2> QED BY <1>4, <2>4, <2>5, <2>6
<1> QED BY <1>2, <1>3, <1>5, <1>6, <1>7, <1>8 DEF Server

---------------------------------------------------------------------------
LEMMA IInvInit == Init => IInv
<1> SUFFICES ASSUME Init PROVE IInv
  OBVIOUS
<1>1. cfg \in Configurations /\ cfg \in Configs
  BY WorkerAssumption DEF Init
<1>2. cfg.api \in Backends /\ cfg.delay \in BOOLEAN /\ cfg.conns \subseteq Conns
      /\ cfg.pipeline \in 1 .. PendingMod - 1
  BY <1>1 DEF Configurations
<1>3. ae \in EventLoop /\ ae.data = [fd \in Fds |-> NoOwner]
  BY <1>2, InitialLoop DEF Init, CreateEventLoop
<1>4. net \in [Sockets -> Socket] /\ \A fd \in Sockets : net[fd] = Closed
  BY FreshTyped DEF Init
<1>5. conn \in [Conns -> Connection]
  <2>1. 0 \in 0 .. SetSize - 1 /\ 0 \in 0 .. BatchLen - 1 /\ 0 \in 0 .. PendingMod - 1
    <3>1. PendingMod \in Nat \ {0, 1}
      BY WorkerAssumption
    <3> QED BY <1>2, <3>1, SetSizeAssumption DEF BatchLen
  <2> HIDE DEF BatchLen
  <2> QED BY <1>2, <2>1 DEF Init, Connection
<1>6. errors \in [ErrorKinds -> 0 .. CounterMod - 1]
  <2>1. 0 \in 0 .. CounterMod - 1
    BY WorkerAssumption
  <2> QED BY <2>1 DEF Init
<1>7. /\ timers = [c \in Conns |-> 0] /\ todo = cfg.conns
      /\ fired = <<>> /\ rfired = FALSE /\ step = "setup"
      /\ reader = NoOwner /\ buf = <<>>
      /\ stop = FALSE /\ loopStop = FALSE /\ stale = {}
  BY DEF Init
<1>8. TypeOK
  <2>1. timers \in [Conns -> Nat] /\ fired \in Seq(Entry) /\ buf \in Seq(Tokens)
    BY <1>7
  <2> QED BY <1>1, <1>2, <1>3, <1>4, <1>5, <1>6, <1>7, <2>1 DEF TypeOK
<1>9. Sound(Here, Live)
  <2>1. Closed.state = "closed"
    BY DEF Closed
  <2>2. Open(Here) = {}
    BY <1>4, <2>1 DEF Open, Here
  <2> QED BY <1>3, <1>4, <2>2 DEF Sound, Here
<1>10. Control
  BY <1>7 DEF Control
<1>11. FiredFresh
  BY <1>7 DEF FiredFresh
<1> QED BY <1>8, <1>9, <1>10, <1>11 DEF IInv

LEMMA IInvNext == IInv /\ [Next]_vars => IInv'
<1> SUFFICES ASSUME IInv, [Next]_vars PROVE IInv'
  OBVIOUS
<1>1. ASSUME NEW c \in Conns,
             \/ SocketConnected(c) \/ HoldRequest(c) \/ SendRequest(c)
             \/ ReadFails(c) \/ ReadEof(c) \/ ReadBytes(c)
             \/ ParseBegin(c) \/ ParseComplete(c) \/ ParseError(c)
      PROVE  IInv'
  BY <1>1, ConnectedKeeps, HoldKeeps, SendKeeps, ReadFailsKeeps, ReadEofKeeps, ReadBytesKeeps,
     ParseBeginKeeps, ParseCompleteKeeps, ParseErrorKeeps
<1>2. CASE Handler
  BY <1>1, <1>2 DEF Handler
<1>3. CASE EnterMain \/ SkipReadable \/ SkipWritable \/ TimersDone \/ RecordRate
  BY <1>3, LoopKeeps
<1>4. ASSUME NEW c \in Conns, ConnectNext(c)
      PROVE  IInv'
  BY <1>4, ConnectNextKeeps
<1>5. CASE Poll
  BY <1>5, PollKeeps
<1>6. ASSUME NEW c \in Conns, DelayRequest(c)
      PROVE  IInv'
  BY <1>6, DelayKeeps
<1>7. CASE SetStop \/ (\E c \in Conns : GrowOld(c)) \/ Server
  BY <1>7, ExternalKeeps
<1>8. CASE UNCHANGED vars
  <2>1. Here' = Here /\ Live' = Live
    BY <1>8 DEF vars, Here, Live
  <2>2. Sound(Here, Live)'
    BY <2>1 DEF IInv
  <2>3. TypeOK'
    BY <1>8 DEF IInv, TypeOK, vars, Connection, BatchLen
  <2>4. Control'
    BY <1>8, <2>1 DEF IInv, Control, vars
  <2>5. FiredFresh'
    BY <1>8, <2>1 DEF IInv, FiredFresh, HeadFresh, LaterFresh, vars
  <2> QED BY <2>2, <2>3, <2>4, <2>5 DEF IInv
<1> QED BY <1>2, <1>3, <1>4, <1>5, <1>6, <1>7, <1>8 DEF Next, Loop, Setup, Timer, Ended

LEMMA IInvHolds == Spec => []IInv
BY IInvInit, IInvNext, PTL DEF Spec

(* No socket is leaked: whatever fails, and however connections take over  *)
(* each other's descriptors, every open socket stays registered for the    *)
(* connection whose c->fd it is, so there are never more of them than      *)
(* connections, and none of the handlers' registrations is refused, whose  *)
(* results they do not look at (wrk.c:241-270).                            *)
THEOREM NoSocketLeaks == Spec => []SocketsAccounted
<1>1. IInv => SocketsAccounted
  <2> SUFFICES ASSUME IInv PROVE SocketsAccounted
    OBVIOUS
  <2>1. TypeOK /\ Sound(Here, Live)
    BY DEF IInv
  <2>2. ASSUME NEW fd \in Open(Here)
        PROVE  /\ fd \in Fds /\ "R" \in ae.mask[fd]
               /\ ae.api = "epoll" => "R" \in ae.watch[fd]
               /\ ae.data[fd] \in Conns /\ conn[ae.data[fd]].fd = fd
               /\ ae.data[fd] \in cfg.conns
    <3>1. Held(Here, fd)
      BY <2>1 DEF Sound
    <3>2. /\ fd \in Fds /\ "R" \in ae.mask[fd]
          /\ ae.api = "epoll" => "R" \in ae.watch[fd]
          /\ ae.data[fd] \in Conns /\ conn[ae.data[fd]].fd = fd
      BY <3>1 DEF Held, Here
    <3>3. ae.data[fd] \in Live \cup {NoOwner}
      BY <2>1, <3>2 DEF Sound, Here
    <3> QED BY <3>2, <3>3, NoneAssumption DEF Conns, Live
  <2>3. NoLeakedSocket
    BY <2>2 DEF NoLeakedSocket
  <2>4. ASSUME NEW fd \in Open(Here)
        PROVE  CanCreate(ae, Open(Here), fd)
    <3>1. fd < SetSize
      BY <2>2, SetSizeAssumption DEF Fds
    <3>2. ae.api \in {"epoll", "kqueue", "select", "evport"}
      BY <2>1, BackendAssumption DEF TypeOK, EventLoop
    <3>3. ae.api = "epoll" => (ae.mask[fd] = {} <=> ae.watch[fd] = {})
      BY <2>2
    <3> QED BY <3>1, <3>2, <3>3 DEF CanCreate, ApiAddOk
  <2>5. Cardinality(Open(Here)) <= Cardinality(cfg.conns)
    <3> DEFINE owner == [fd \in Open(Here) |-> ae.data[fd]]
    <3>1. owner \in [Open(Here) -> cfg.conns]
      BY <2>2
    <3>2. \A x, y \in Open(Here) : owner[x] = owner[y] => x = y
      BY <2>2
    <3> HIDE DEF owner
    <3>3. owner \in Injection(Open(Here), cfg.conns)
      BY <3>1, <3>2 DEF Injection, IsInjective
    <3>4. IsFiniteSet(cfg.conns)
      <4>1. cfg.conns \subseteq Conns /\ IsFiniteSet(Conns)
        BY <2>1, ConfigTyped, WorkerAssumption
      <4> QED BY <4>1, FS_Subset
    <3> QED BY <3>3, <3>4, FS_Injection
  <2> QED BY <2>1, <2>3, <2>4, <2>5 DEF SocketsAccounted, RegistersWell
<1> QED BY <1>1, IInvHolds, PTL

(* Except with kqueue, no handler runs for a readiness that the poll found *)
(* on a descriptor closed and opened again since, and socket_connected     *)
(* only on a socket whose connect() has ended (ae.c:407-409).              *)
THEOREM NoStaleDispatch == Spec => []FreshDispatch
<1>1. IInv => FreshDispatch
  <2> SUFFICES ASSUME IInv, ae.api # "kqueue", CallsHandler
               PROVE  CalledOn \notin stale /\ net[CalledOn].state # "connecting"
    BY DEF FreshDispatch
  <2> DEFINE h == Head(fired)
  <2>1. step \in {"R", "W"} /\ fired # <<>> /\ fired \in Seq(Entry)
    BY DEF CallsHandler, IInv, TypeOK
  <2>2. h = fired[1] /\ 1 \in DOMAIN fired
    BY <2>1
  <2>3. /\ step = "R" => CallsReadable(ae, h)
        /\ step = "W" => CallsWritable(ae, h, rfired)
    BY DEF CallsHandler
  <2>4. HeadFresh(h)
    <3>1. h.mask # {}
      BY <2>1, <2>3 DEF CallsReadable, CallsWritable
    <3> QED BY <2>2, <3>1 DEF IInv, FiredFresh
  <2>5. step = "W" => ~(rfired /\ Quiet(Here, h.fd))
    BY <2>3 DEF CallsWritable, Quiet, Here
  <2>6. Good(Here, h.fd)
    BY <2>1, <2>4, <2>5 DEF HeadFresh
  <2> QED BY <2>6 DEF CalledOn, Good, Here
<1> QED BY <1>1, IInvHolds, PTL

---------------------------------------------------------------------------
(* How many responses end in a part of the stream.                         *)

LEMMA EndsTyped ==
    ASSUME NEW s \in Seq(Tokens)
    PROVE  /\ Ends(s) \in Nat /\ IsFiniteSet({i \in DOMAIN s : s[i] # "H"})
           /\ Ends(s) = 0 <=> \A i \in DOMAIN s : s[i] = "H"
<1> DEFINE A == {i \in DOMAIN s : s[i] # "H"}
<1>1. IsFiniteSet(1 .. Len(s)) /\ A \in SUBSET (1 .. Len(s))
  BY FS_Interval
<1>2. IsFiniteSet(A)
  BY <1>1, FS_Subset
<1>3. Cardinality(A) \in Nat /\ (Cardinality(A) = 0 <=> A = {})
  BY <1>2, FS_CardinalityType, FS_EmptySet
<1> QED BY <1>2, <1>3 DEF Ends

LEMMA EndsSplit ==
    ASSUME NEW s \in Seq(Tokens), NEW n \in 0 .. Len(s)
    PROVE  Ends(s) = Ends(SubSeq(s, 1, n)) + Ends(SubSeq(s, n + 1, Len(s)))
<1> DEFINE u == SubSeq(s, 1, n)
           v == SubSeq(s, n + 1, Len(s))
           A == {i \in DOMAIN s : s[i] # "H"}
           U == {i \in DOMAIN u : u[i] # "H"}
           V == {i \in DOMAIN v : v[i] # "H"}
           W == {i \in A : i > n}
           shift == [i \in V |-> i + n]
<1>1. /\ u \in Seq(Tokens) /\ Len(u) = n /\ \A i \in 1 .. n : u[i] = s[i]
      /\ v \in Seq(Tokens) /\ Len(v) = Len(s) - n /\ \A i \in 1 .. Len(s) - n : v[i] = s[i + n]
  OBVIOUS
<1> HIDE DEF u, v
<1>2. IsFiniteSet(U) /\ IsFiniteSet(V) /\ IsFiniteSet(A)
  BY <1>1, EndsTyped
<1>3. shift \in Bijection(V, W)
  <2>1. \A i \in V : i \in Nat /\ shift[i] = i + n /\ i + n \in W
    BY <1>1
  <2>2. ASSUME NEW j \in W
        PROVE  j - n \in V /\ shift[j - n] = j
    <3>1. j - n \in 1 .. Len(s) - n /\ v[j - n] = s[(j - n) + n] /\ (j - n) + n = j
      BY <1>1
    <3> QED BY <1>1, <3>1
  <2>3. shift \in [V -> W]
    BY <2>1
  <2>4. \A i, j \in V : shift[i] = shift[j] => i = j
    BY <2>1
  <2> HIDE DEF shift, V, W
  <2>5. shift \in Injection(V, W)
    BY <2>3, <2>4 DEF Injection, IsInjective
  <2>6. shift \in Surjection(V, W)
    BY <2>2, <2>3 DEF Surjection
  <2> QED BY <2>5, <2>6 DEF Bijection
<1>4. IsFiniteSet(W) /\ Cardinality(W) = Cardinality(V)
  <2> HIDE DEF shift, V, W
  <2> QED BY <1>2, <1>3, FS_Bijection DEF ExistsBijection
<1>5. U \cup W = A /\ U \cap W = {}
  BY <1>1
<1>6. Cardinality(A) = Cardinality(U) + Cardinality(V)
  <2> HIDE DEF A, U, V, W
  <2>1. Cardinality(U) \in Nat /\ Cardinality(W) \in Nat
    BY <1>2, <1>4, FS_CardinalityType
  <2>2. Cardinality(A) = Cardinality(U) + Cardinality(W) - 0
    BY <1>2, <1>4, <1>5, FS_Union, FS_EmptySet
  <2> QED BY <1>4, <2>1, <2>2
<1> QED BY <1>6 DEF Ends, u, v

LEMMA EndsOfOne == \A t \in Tokens : Ends(<<t>>) = IF t = "H" THEN 0 ELSE 1
<1> SUFFICES ASSUME NEW t \in Tokens PROVE Ends(<<t>>) = IF t = "H" THEN 0 ELSE 1
  OBVIOUS
<1> DEFINE A == {i \in DOMAIN <<t>> : <<t>>[i] # "H"}
<1>1. A = IF t = "H" THEN {} ELSE {1}
  OBVIOUS
<1>2. Cardinality({1}) = 1 /\ Cardinality({}) = 0
  BY FS_Singleton, FS_EmptySet
<1> QED BY <1>1, <1>2 DEF Ends

LEMMA EndsEmpty == Ends(<<>>) = 0 /\ <<>> \in Seq(Tokens)
<1>1. <<>> \in Seq(Tokens) /\ DOMAIN <<>> = {}
  OBVIOUS
<1> QED BY <1>1, EndsTyped

LEMMA EndsJoin ==
    ASSUME NEW u \in Seq(Tokens), NEW v \in Seq(Tokens)
    PROVE  Ends(u \o v) = Ends(u) + Ends(v)
<1>1. u \o v \in Seq(Tokens) /\ Len(u) \in 0 .. Len(u \o v)
  OBVIOUS
<1>2. SubSeq(u \o v, 1, Len(u)) = u /\ SubSeq(u \o v, Len(u) + 1, Len(u \o v)) = v
  OBVIOUS
<1> QED BY <1>1, <1>2, EndsSplit

LEMMA EndsTail ==
    ASSUME NEW s \in Seq(Tokens), s # <<>>
    PROVE  /\ Tail(s) \in Seq(Tokens) /\ Head(s) \in Tokens
           /\ Ends(s) = (IF Head(s) = "H" THEN 0 ELSE 1) + Ends(Tail(s))
<1>1. Tail(s) \in Seq(Tokens) /\ Head(s) \in Tokens /\ 1 \in 0 .. Len(s)
  OBVIOUS
<1> DEFINE u == SubSeq(s, 1, 1)
           v == SubSeq(s, 1 + 1, Len(s))
<1>2. u = <<Head(s)>>
  <2>1. u \in Seq(Tokens) /\ Len(u) = 1 /\ u[1] = s[1]
    <3>1. 1 \in 1 .. Len(s)
      BY <1>1
    <3> QED BY <3>1
  <2>2. Head(s) = s[1]
    BY <1>1
  <2> HIDE DEF u
  <2> QED BY <2>1, <2>2
<1>3. v = Tail(s)
  <2>1. v \in Seq(Tokens) /\ Len(v) = Len(s) - 1 /\ \A i \in 1 .. Len(s) - 1 : v[i] = s[i + 1]
    <3>1. 1 \in 0 .. Len(s)
      BY <1>1
    <3> QED BY <3>1
  <2>2. Len(Tail(s)) = Len(s) - 1 /\ \A i \in 1 .. Len(s) - 1 : Tail(s)[i] = s[i + 1]
    OBVIOUS
  <2> HIDE DEF v
  <2> QED BY <1>1, <2>1, <2>2
<1> QED BY <1>1, <1>2, <1>3, EndsSplit, EndsOfOne

LEMMA EndsFront ==
    ASSUME NEW s \in Seq(Tokens), s # <<>>
    PROVE  Front(s) \in Seq(Tokens) /\ Ends(Front(s)) <= Ends(s)
<1>1. Len(s) - 1 \in 0 .. Len(s) /\ SubSeq(s, Len(s) - 1 + 1, Len(s)) \in Seq(Tokens)
      /\ SubSeq(s, 1, Len(s) - 1) \in Seq(Tokens)
  OBVIOUS
<1>2. Ends(s) = Ends(SubSeq(s, 1, Len(s) - 1)) + Ends(SubSeq(s, Len(s) - 1 + 1, Len(s)))
  BY <1>1, EndsSplit
<1>3. Ends(SubSeq(s, 1, Len(s) - 1)) \in Nat /\ Ends(SubSeq(s, Len(s) - 1 + 1, Len(s))) \in Nat
  BY <1>1, EndsTyped
<1> QED BY <1>1, <1>2, <1>3 DEF Front

---------------------------------------------------------------------------
(* What holds of a connection c that is served: of its struct k, its socket *)
(* n, whether it is armed to write (w), its delay timers t and its stream s:*)
(* the bytes socket_readable has read and not parsed, and those to read.    *)

Well(n) == n.state \in {"connecting", "up"} /\ ~n.eof      \* as Healthy

Unsent(v) == IF v = 0 THEN 0 ELSE cfg.pipeline - v \div 2
Got(v, m) == (v + m) \div 2 - v \div 2
Left(k, n, s) == Unsent(k.written) + n.owed + Ends(s)      \* as ToCome

Due(k, n, s) == Left(k, n, s) + (IF k.parser = "toeof" THEN 1 ELSE 0)

Has(s, t) == \E i \in DOMAIN s : s[i] = t

Ending(k, s) == k.parser = "toeof" \/ Has(s, "E")

(* The server closed the connection in the middle of a response.           *)
Cut(s) == s # <<>> /\ s[Len(s)] = "H"

(* The responses of a server that keeps connections alive.                 *)
Alternates(p, s) ==
    \A i \in DOMAIN s : s[i] = IF (i % 2 = 1) = (p = "start") THEN "H" ELSE "K"

KeptAlive(k, n, s) ==
    /\ k.parser \in {"start", "mid"}
    /\ Alternates(k.parser, s)
    /\ Well(n) => (Len(s) % 2 = 0) = (k.parser = "start")

Batch(k, n, w, t, s) ==
    /\ n.owed >= 0
    /\ k.written # 0 => w
    /\ Due(k, n, s) + (IF Cut(s) THEN 1 ELSE 0) <= k.pending
    /\ Due(k, n, s) > 0 => k.timed
    /\ Well(n) => IF Due(k, n, s) > 0 THEN Due(k, n, s) = k.pending ELSE w \/ t > 0
    /\ w /\ k.written = 0 => Due(k, n, s) = 0 /\ s = <<>>
    /\ n.state = "connecting" => Due(k, n, s) = 0
    /\ t > 0 => t = 1 /\ Due(k, n, s) = 0 /\ ~w /\ ~n.eof

Coming(k, n, s) ==
    /\ Well(n) => ~Cut(s) /\ ~Ending(k, s)
    /\ cfg.delay => /\ n.state \in {"connecting", "up"} /\ k.written = 0
                    /\ n.eof => Ending(k, s)
    /\ k.parser # "dead"
    /\ cfg.answers = {"K"} => KeptAlive(k, n, s)

Serving(k, n, w, t, s) == Batch(k, n, w, t, s) /\ Coming(k, n, s)

(* A connection that has its socket waits for connect() or is served; one  *)
(* that has none has no timer.                                             *)
Owns(s, c) == s.conn[c].fd \in Open(s) /\ s.ae.data[s.conn[c].fd] = c

Silent(s, fd) ==
    /\ s.ae.rproc[fd] = "socket_connected" /\ s.ae.wproc[fd] = "socket_connected"
    /\ s.net[fd].owed = 0 /\ s.net[fd].in = <<>>

Waits(s, c, t) ==
    /\ Silent(s, s.conn[c].fd) /\ t = 0
    /\ cfg.delay => Well(s.net[s.conn[c].fd])

Serves(s, c, t, b) ==
    LET fd == s.conn[c].fd IN
    /\ s.ae.rproc[fd] = "socket_readable" /\ s.ae.wproc[fd] = "socket_writeable"
    /\ Serving(s.conn[c], s.net[fd], "W" \in s.ae.mask[fd], t, b \o s.net[fd].in)

Lives(s, c, t, b) == IF Owns(s, c) THEN Waits(s, c, t) \/ Serves(s, c, t, b) ELSE t = 0

(* What the poll reported and no handler has been called for.              *)
ToDo == {x \in Fds \X Ev : \E i \in DOMAIN fired :
            /\ fired[i].fd = x[1] /\ x[2] \in fired[i].mask
            /\ i > 1 \/ step = "R" \/ x[2] = "W"}

Distinct == \A i, j \in DOMAIN fired :
    i # j /\ fired[i].fd = fired[j].fd => fired[i].mask \cap fired[j].mask = {}

Both(U, fd) == <<fd, "R">> \in U /\ <<fd, "W">> \in U

FitAt(s, U, fd) == \A bit \in Ev : <<fd, bit>> \in U =>
    /\ fd \in Open(s) \/ fd \in s.stale
    /\ fd \in s.stale => ~Both(U, fd) /\ (fd \in Open(s) => Silent(s, fd))
    /\ fd \in Open(s) /\ fd \notin s.stale =>
         /\ s.net[fd].state # "connecting"
         /\ bit = "R" => s.net[fd].in # <<>> \/ s.net[fd].eof \/ s.net[fd].state # "up"

Fit(s, U) == \A fd \in Fds : FitAt(s, U, fd)

Registered(s) == \A fd \in Fds : s.ae.mask[fd] # {} => fd \in Open(s)

Rest(c) == IF reader = c THEN buf ELSE <<>>

Reading == step = "inR" =>
    /\ ~Both(ToDo, conn[reader].fd) /\ timers[reader] = 0
    /\ conn[reader].fd \in Open(Here) => Owns(Here, reader)
    /\ conn[reader].parser = "dead" \/
         (Owns(Here, reader) /\ Serves(Here, reader, timers[reader], buf))

CycleInv ==
    /\ Registered(Here) /\ Fit(Here, ToDo) /\ Distinct /\ Reading
    /\ \A c \in Conns :
         /\ Lives(Here, c, timers[c], Rest(c))
         /\ ~cfg.delay => timers[c] = 0 /\ ~conn[c].delayed
         /\ cfg.answers = {"K"} => conn[c].parser # "dead"

---------------------------------------------------------------------------
(* What the changes of the stream keep.                                    *)

LEMMA StreamTail ==
    ASSUME NEW s \in Seq(Tokens), s # <<>>
    PROVE  /\ Tail(s) \in Seq(Tokens) /\ Head(s) \in Tokens /\ Len(Tail(s)) = Len(s) - 1
           /\ Ends(s) = (IF Head(s) = "H" THEN 0 ELSE 1) + Ends(Tail(s))
           /\ Cut(Tail(s)) => Cut(s)
           /\ Cut(s) => Head(s) = "H" \/ Cut(Tail(s))
           /\ Has(s, "E") <=> Head(s) = "E" \/ Has(Tail(s), "E")
           /\ \A p \in {"start", "mid"} : Alternates(p, s) =>
                /\ Head(s) = IF p = "start" THEN "H" ELSE "K"
                /\ Alternates(IF p = "start" THEN "mid" ELSE "start", Tail(s))
<1> DEFINE u == Tail(s)
<1>1. /\ u \in Seq(Tokens) /\ Head(s) = s[1] /\ Len(u) = Len(s) - 1 /\ Len(s) \in Nat \ {0}
      /\ \A i \in 1 .. Len(s) - 1 : u[i] = s[i + 1]
  OBVIOUS
<1>2. Head(s) \in Tokens /\ Ends(s) = (IF Head(s) = "H" THEN 0 ELSE 1) + Ends(u)
  BY EndsTail
<1>3. DOMAIN s = 1 .. Len(s) /\ DOMAIN u = 1 .. Len(s) - 1
  BY <1>1
<1> HIDE DEF u
<1>4. (Cut(u) => Cut(s)) /\ (Cut(s) => Head(s) = "H" \/ Cut(u))
  <2>1. u # <<>> <=> Len(s) - 1 \in 1 .. Len(s) - 1
    BY <1>1
  <2>2. u # <<>> => u[Len(u)] = s[Len(s)]
    BY <1>1, <2>1
  <2>3. u = <<>> => s[Len(s)] = Head(s)
    BY <1>1, <2>1
  <2> QED BY <2>2, <2>3 DEF Cut
<1>5. Has(s, "E") <=> Head(s) = "E" \/ Has(u, "E")
  <2>1. ASSUME NEW i \in DOMAIN s, s[i] = "E"
        PROVE  Head(s) = "E" \/ Has(u, "E")
    <3>1. i = 1 \/ (i - 1 \in 1 .. Len(s) - 1 /\ u[i - 1] = s[i])
      BY <1>1, <1>3
    <3> QED BY <1>1, <1>3, <2>1, <3>1 DEF Has
  <2>2. ASSUME NEW i \in DOMAIN u, u[i] = "E"
        PROVE  Has(s, "E")
    <3>1. i + 1 \in DOMAIN s /\ s[i + 1] = "E"
      BY <1>1, <1>3, <2>2
    <3> QED BY <3>1 DEF Has
  <2>3. Head(s) = "E" => Has(s, "E")
    BY <1>1, <1>3 DEF Has
  <2> QED BY <2>1, <2>2, <2>3 DEF Has
<1>6. ASSUME NEW p \in {"start", "mid"}, Alternates(p, s)
      PROVE  /\ Head(s) = IF p = "start" THEN "H" ELSE "K"
             /\ Alternates(IF p = "start" THEN "mid" ELSE "start", u)
  <2>1. Head(s) = IF p = "start" THEN "H" ELSE "K"
    BY <1>1, <1>3, <1>6 DEF Alternates
  <2>2. ASSUME NEW i \in DOMAIN u
        PROVE  u[i] = IF (i % 2 = 1) = (p # "start") THEN "H" ELSE "K"
    <3>1. i \in 1 .. Len(s) - 1 /\ i + 1 \in DOMAIN s /\ u[i] = s[i + 1]
      BY <1>1, <1>3
    <3>2. s[i + 1] = IF ((i + 1) % 2 = 1) = (p = "start") THEN "H" ELSE "K"
      BY <1>6, <3>1 DEF Alternates
    <3>3. (i + 1) % 2 = 1 <=> ~(i % 2 = 1)
      <4>1. i \in Nat
        BY <3>1
      <4> QED BY <4>1
    <3> QED BY <3>1, <3>2, <3>3
  <2> QED BY <2>1, <2>2 DEF Alternates
<1> QED BY <1>1, <1>2, <1>4, <1>5, <1>6 DEF u

LEMMA StreamFront ==
    ASSUME NEW s \in Seq(Tokens), s # <<>>
    PROVE  /\ Front(s) \in Seq(Tokens)
           /\ Ends(s) = (IF Cut(s) THEN 0 ELSE 1) + Ends(Front(s))
           /\ \A p \in {"start", "mid"} : Alternates(p, s) => Alternates(p, Front(s))
<1> DEFINE m == Len(s) - 1
           u == SubSeq(s, 1, m)
           v == SubSeq(s, m + 1, Len(s))
<1>1. /\ m \in 0 .. Len(s) /\ u \in Seq(Tokens) /\ Len(u) = m /\ DOMAIN u \subseteq DOMAIN s
      /\ \A i \in DOMAIN u : u[i] = s[i]
      /\ v = <<s[Len(s)]>> /\ s[Len(s)] \in Tokens
  <2>1. Len(s) \in Nat \ {0} /\ m \in 0 .. Len(s) /\ m + 1 = Len(s) /\ s[Len(s)] \in Tokens
    OBVIOUS
  <2> HIDE DEF m
  <2>2. u \in Seq(Tokens) /\ Len(u) = m /\ \A i \in 1 .. m : u[i] = s[i]
    BY <2>1
  <2>3. DOMAIN u = 1 .. m /\ DOMAIN s = 1 .. Len(s)
    BY <2>2
  <2>4. v \in Seq(Tokens) /\ Len(v) = 1 /\ v[1] = s[Len(s)]
    BY <2>1
  <2>5. v = <<s[Len(s)]>>
    <3> HIDE DEF v
    <3> QED BY <2>4
  <2> QED BY <2>1, <2>2, <2>3, <2>5
<1>2. Ends(s) = Ends(u) + Ends(v)
  BY <1>1, EndsSplit
<1>3. Ends(v) = IF Cut(s) THEN 0 ELSE 1
  <2> HIDE DEF v
  <2> QED BY <1>1, EndsOfOne DEF Cut
<1>4. Ends(u) \in Nat
  BY <1>1, EndsTyped
<1>5. Front(s) = u
  BY DEF Front
<1> HIDE DEF u
<1> QED BY <1>1, <1>2, <1>3, <1>4, <1>5 DEF Alternates

LEMMA StreamJoin ==
    ASSUME NEW s \in Seq(Tokens), NEW u \in Seq(Tokens)
    PROVE  /\ s \o u \in Seq(Tokens) /\ Len(s \o u) = Len(s) + Len(u)
           /\ Ends(s \o u) = Ends(s) + Ends(u)
           /\ u # <<>> => (Cut(s \o u) <=> Cut(u)) /\ s \o u # <<>>
           /\ Has(s \o u, "E") <=> Has(s, "E") \/ Has(u, "E")
           /\ \A p : Alternates(p, s \o u) => Alternates(p, s)
<1> DEFINE v == s \o u
<1>1. /\ v \in Seq(Tokens) /\ Len(v) = Len(s) + Len(u)
      /\ Len(s) \in Nat /\ Len(u) \in Nat
      /\ \A i \in 1 .. Len(s) : v[i] = s[i]
      /\ \A i \in 1 .. Len(u) : v[Len(s) + i] = u[i]
      /\ \A i \in 1 .. Len(v) : i \in 1 .. Len(s) \/ i - Len(s) \in 1 .. Len(u)
  OBVIOUS
<1>2. DOMAIN s = 1 .. Len(s) /\ DOMAIN u = 1 .. Len(u) /\ DOMAIN v = 1 .. Len(s) + Len(u)
  BY <1>1
<1>3. Ends(v) = Ends(s) + Ends(u)
  BY EndsJoin
<1> HIDE DEF v
<1>4. u # <<>> => (Cut(v) <=> Cut(u)) /\ v # <<>>
  <2>1. u # <<>> => Len(u) \in 1 .. Len(u) /\ Len(v) # 0
    BY <1>1
  <2>2. u # <<>> => v[Len(v)] = u[Len(u)] /\ v # <<>>
    BY <1>1, <2>1
  <2> QED BY <2>2 DEF Cut
<1>5. Has(v, "E") => Has(s, "E") \/ Has(u, "E")
  <2> SUFFICES ASSUME NEW i \in DOMAIN v, v[i] = "E"
               PROVE  Has(s, "E") \/ Has(u, "E")
    BY DEF Has
  <2>1. CASE i \in 1 .. Len(s)
    BY <1>1, <1>2, <2>1 DEF Has
  <2>2. CASE i - Len(s) \in 1 .. Len(u)
    <3>1. Len(s) + (i - Len(s)) = i
      BY <1>1, <1>2
    <3> QED BY <1>1, <1>2, <2>2, <3>1 DEF Has
  <2> QED BY <1>1, <1>2, <2>1, <2>2
<1>6. Has(s, "E") => Has(v, "E")
  BY <1>1, <1>2 DEF Has
<1>7. Has(u, "E") => Has(v, "E")
  <2> SUFFICES ASSUME NEW i \in DOMAIN u, u[i] = "E" PROVE Has(v, "E")
    BY DEF Has
  <2>1. Len(s) + i \in DOMAIN v /\ v[Len(s) + i] = "E"
    BY <1>1, <1>2
  <2> QED BY <2>1 DEF Has
<1>8. \A p : Alternates(p, v) => Alternates(p, s)
  BY <1>1, <1>2 DEF Alternates
<1> QED BY <1>1, <1>3, <1>4, <1>5, <1>6, <1>7, <1>8 DEF v

LEMMA StreamEmpty ==
    /\ <<>> \in Seq(Tokens) /\ Ends(<<>>) = 0 /\ ~Cut(<<>>) /\ ~Has(<<>>, "E")
    /\ \A p : Alternates(p, <<>>)
<1>1. <<>> \in Seq(Tokens) /\ DOMAIN <<>> = {}
  OBVIOUS
<1> QED BY <1>1, EndsEmpty DEF Cut, Has, Alternates

(* v units of a batch are written, and m more.                             *)
LEMMA UnsentGot ==
    ASSUME TypeOK, NEW v \in 0 .. BatchLen - 1, NEW m \in 0 .. BatchLen - v
    PROVE  /\ cfg.pipeline \in Nat \ {0} /\ Unsent(v) \in Nat /\ (v # 0 => Unsent(v) > 0)
           /\ Got(v, m) \in Nat /\ Unsent(0) = 0
           /\ LET u == IF v + m = BatchLen THEN 0 ELSE v + m IN
              /\ u \in 0 .. BatchLen - 1 /\ Unsent(u) \in Nat
              /\ Unsent(u) + Got(v, m) = IF v # 0 THEN Unsent(v)
                                         ELSE IF m = 0 THEN 0 ELSE cfg.pipeline
<1>1. cfg.pipeline \in Nat \ {0} /\ BatchLen = 2 * cfg.pipeline
  BY ConfigTyped DEF BatchLen
<1>2. PICK p \in Nat \ {0} : p = cfg.pipeline
  BY <1>1
<1>3. v \in 0 .. 2 * p - 1 /\ m \in 0 .. 2 * p - v
  BY <1>1, <1>2
<1>4. PICK g \in Nat, h \in Nat : g = v \div 2 /\ h = (v + m) \div 2
  BY <1>3
<1>5. /\ g <= h /\ g < p /\ (v = 0 => g = 0)
      /\ v + m = 2 * p => h = p
      /\ v + m # 2 * p => h < p
      /\ v + m = 0 => h = 0
  BY <1>3, <1>4
<1>6. /\ Unsent(v) = IF v = 0 THEN 0 ELSE p - g
      /\ Unsent(v + m) = IF v + m = 0 THEN 0 ELSE p - h
      /\ Unsent(0) = 0 /\ Got(v, m) = h - g
  BY <1>2, <1>4 DEF Unsent, Got
<1>7. Unsent(v) \in Nat /\ (v # 0 => Unsent(v) > 0) /\ Got(v, m) \in Nat /\ Unsent(v + m) \in Nat
  BY <1>3, <1>5, <1>6
<1>8. CASE v + m = 2 * p
  <2>1. Unsent(0) + Got(v, m) = IF v # 0 THEN Unsent(v) ELSE IF m = 0 THEN 0 ELSE p
    BY <1>3, <1>5, <1>6, <1>8
  <2> QED BY <1>1, <1>2, <1>3, <1>6, <1>7, <1>8, <2>1
<1>9. CASE v + m # 2 * p
  <2>1. Unsent(v + m) + Got(v, m) = IF v # 0 THEN Unsent(v) ELSE IF m = 0 THEN 0 ELSE p
    BY <1>3, <1>5, <1>6, <1>9
  <2>2. v + m \in 0 .. BatchLen - 1
    BY <1>1, <1>2, <1>3, <1>9
  <2> QED BY <1>1, <1>2, <1>6, <1>7, <1>9, <2>1, <2>2
<1> QED BY <1>8, <1>9

(* What is due is a number; and when nothing is, the stream is empty or    *)
(* cut.                                                                    *)
LEMMA DueTyped ==
    ASSUME TypeOK, NEW k \in Connection, NEW n \in Socket, NEW s \in Seq(Tokens), n.owed >= 0
    PROVE  /\ Ends(s) \in Nat /\ n.owed \in Nat /\ k.pending \in Nat
           /\ k.written \in 0 .. BatchLen - 1 /\ Unsent(k.written) \in Nat
           /\ k.written # 0 => Unsent(k.written) > 0
           /\ Left(k, n, s) \in Nat /\ Due(k, n, s) \in Nat
           /\ Ends(s) = 0 /\ s # <<>> => Cut(s)
<1>1. Ends(s) \in Nat /\ (Ends(s) = 0 => \A i \in DOMAIN s : s[i] = "H")
  BY EndsTyped
<1>2. s # <<>> => Len(s) \in DOMAIN s
  OBVIOUS
<1>3. Ends(s) = 0 /\ s # <<>> => Cut(s)
  BY <1>1, <1>2 DEF Cut
<1>4. n.owed \in Nat /\ k.pending \in Nat /\ k.written \in 0 .. BatchLen - 1
  BY ConfigTyped DEF Socket, Connection
<1>5. Unsent(k.written) \in Nat /\ (k.written # 0 => Unsent(k.written) > 0)
  <2>1. 0 \in 0 .. BatchLen - k.written
    BY <1>4, ConfigTyped
  <2> QED BY <1>4, <2>1, UnsentGot
<1> QED BY <1>1, <1>3, <1>4, <1>5 DEF Left, Due

---------------------------------------------------------------------------
(* What each step that concerns a connection does to what holds of it.     *)

LEMMA NewServing ==         \* socket_connected
    ASSUME TypeOK, NEW k \in Connection, NEW n \in Socket, k.parser = "start", k.written = 0,
           n.owed = 0, cfg.delay => Well(n)
    PROVE  Serving(k, n, TRUE, 0, <<>>) /\ Left(k, n, <<>>) = 0
<1>1. Left(k, n, <<>>) = 0 /\ Due(k, n, <<>>) = 0
  BY StreamEmpty DEF Left, Due, Unsent
<1>2. k.pending \in Nat
  BY ConfigTyped DEF Connection
<1>3. Batch(k, n, TRUE, 0, <<>>)
  BY <1>1, <1>2, StreamEmpty DEF Batch
<1>4. Coming(k, n, <<>>)
  <2>1. KeptAlive(k, n, <<>>)
    BY StreamEmpty DEF KeptAlive
  <2>2. ~Cut(<<>>) /\ ~Ending(k, <<>>)
    BY StreamEmpty DEF Ending
  <2> QED BY <2>1, <2>2 DEF Coming, Well
<1> QED BY <1>1, <1>3, <1>4 DEF Serving

LEMMA HeldServing ==        \* the request is held back
    ASSUME TypeOK, NEW k \in Connection, NEW n \in Socket, NEW s \in Seq(Tokens),
           Serving(k, n, TRUE, 0, s), cfg.delay
    PROVE  Serving(k, n, FALSE, 1, s)
<1>1. n.owed >= 0 /\ Coming(k, n, s) /\ k.written = 0 /\ Due(k, n, s) = 0 /\ s = <<>>
  BY DEF Serving, Batch, Coming
<1>2. ~n.eof
  <2>1. Left(k, n, s) \in Nat
    BY <1>1, DueTyped
  <2>2. k.parser # "toeof"
    BY <1>1, <2>1 DEF Due
  <2> QED BY <1>1, <2>2, StreamEmpty DEF Coming, Ending
<1> QED BY <1>1, <1>2 DEF Serving, Batch

LEMMA DelayedServing ==     \* its delay is over
    ASSUME TypeOK, NEW k \in Connection, NEW j \in Connection, NEW n \in Socket,
           NEW s \in Seq(Tokens), NEW w \in BOOLEAN, NEW t \in Nat,
           Serving(k, n, w, t, s), cfg.delay, t > 0,
           j.parser = k.parser, j.written = k.written, j.pending = k.pending, j.timed = k.timed
    PROVE  Serving(j, n, TRUE, 0, s) /\ t = 1
<1>1. /\ n.owed >= 0 /\ Due(k, n, s) = 0 /\ ~w /\ ~n.eof /\ k.written = 0 /\ t = 1
      /\ n.state \in {"connecting", "up"}
  BY DEF Serving, Batch, Coming
<1>2. Well(n)
  BY <1>1 DEF Well
<1>3. Ends(s) = 0
  <2>1. PICK l \in Nat, a \in Nat, m \in Nat :
          l = Left(k, n, s) /\ a = Ends(s) /\ m = Unsent(k.written)
    BY <1>1, DueTyped
  <2>2. PICK o \in Nat : o = n.owed
    BY <1>1, DueTyped
  <2>3. l = m + o + a
    BY <2>1, <2>2 DEF Left
  <2>4. l = 0
    BY <1>1, <2>1 DEF Due
  <2>5. a = 0
    BY ONLY m \in Nat, o \in Nat, a \in Nat, <2>3, <2>4
  <2> QED BY <2>1, <2>5
<1>4. s = <<>>
  BY <1>1, <1>2, <1>3, DueTyped DEF Serving, Coming
<1>5. Due(j, n, s) = Due(k, n, s)
  BY DEF Due, Left
<1>6. Coming(j, n, s)
  BY DEF Coming, Serving, Ending, KeptAlive
<1> QED BY <1>1, <1>4, <1>5, <1>6 DEF Serving, Batch

(* m units of the request are written, w says whether some are left.       *)
Sends(k, j, n, o, m, w) ==
    /\ m \in 0 .. BatchLen - k.written
    /\ cfg.delay => m = BatchLen - k.written
    /\ w <=> k.written + m # BatchLen
    /\ j.parser = k.parser
    /\ j.written = IF k.written + m = BatchLen THEN 0 ELSE k.written + m
    /\ j.pending = IF k.written = 0 THEN cfg.pipeline ELSE k.pending
    /\ j.timed <=> k.written = 0 \/ k.timed
    /\ n.state = "up" /\ o.state = "up" /\ o.eof = n.eof
    /\ o.owed = IF n.eof THEN n.owed ELSE n.owed + Got(k.written, m)

LEMMA SentServing ==
    ASSUME TypeOK, NEW k \in Connection, NEW j \in Connection, NEW n \in Socket, NEW o \in Socket,
           NEW s \in Seq(Tokens), Serving(k, n, TRUE, 0, s), NEW m, NEW w \in BOOLEAN,
           Sends(k, j, n, o, m, w)
    PROVE  /\ Serving(j, o, w, 0, s)
           /\ Well(n) => \/ Left(j, o, s) = Left(k, n, s)
                         \/ Left(k, n, s) = 0 /\ Left(j, o, s) = cfg.pipeline
<1> USE DEF Sends
<1>0. Serving(k, n, TRUE, 0, s) /\ n.owed >= 0
  BY DEF Serving, Batch
<1>1. /\ Ends(s) \in Nat /\ Left(k, n, s) \in Nat /\ k.pending \in Nat /\ n.owed \in Nat
      /\ k.written \in 0 .. BatchLen - 1 /\ k.written \in Nat /\ o.owed \in Int
      /\ BatchLen \in Nat
  BY <1>0, DueTyped, ConfigTyped DEF Socket
<1>2. LET u == IF k.written + m = BatchLen THEN 0 ELSE k.written + m IN
      /\ cfg.pipeline \in Nat \ {0} /\ Unsent(k.written) \in Nat
      /\ k.written # 0 => Unsent(k.written) > 0
      /\ Got(k.written, m) \in Nat /\ u \in 0 .. BatchLen - 1 /\ Unsent(u) \in Nat
      /\ Unsent(u) + Got(k.written, m) = IF k.written # 0 THEN Unsent(k.written)
                                         ELSE IF m = 0 THEN 0 ELSE cfg.pipeline
  BY <1>1, UnsentGot
<1>3. PICK B \in Nat, v \in Nat, M \in Nat : B = BatchLen /\ v = k.written /\ M = m
  <2>1. m \in Nat
    OBVIOUS
  <2> QED BY <1>1, <2>1
<1>4. PICK u \in Nat : u = j.written
  BY <1>1, <1>2
<1>5. PICK e \in 0 .. 1, C \in 0 .. 1, E \in Nat, L \in Nat, P \in Nat, p \in Nat \ {0} :
        /\ e = (IF k.parser = "toeof" THEN 1 ELSE 0) /\ C = (IF Cut(s) THEN 1 ELSE 0)
        /\ E = Ends(s) /\ L = Left(k, n, s) /\ P = k.pending /\ p = cfg.pipeline
  <2>1. (IF k.parser = "toeof" THEN 1 ELSE 0) \in 0 .. 1 /\ (IF Cut(s) THEN 1 ELSE 0) \in 0 .. 1
    OBVIOUS
  <2> QED BY <1>1, <1>2, <2>1
<1>6. PICK a \in Nat, b \in Nat, d \in Nat : a = Unsent(v) /\ b = Unsent(u) /\ d = Got(v, M)
  BY <1>1, <1>2, <1>3, <1>4
<1>7. PICK x \in Nat, y \in Int, Q \in Nat : x = n.owed /\ y = o.owed /\ Q = j.pending
  BY <1>1, <1>2
<1>8. PICK N \in Int : N = b + y + E
  OBVIOUS
<1>9. /\ L = a + x + E /\ Left(j, o, s) = N /\ Due(k, n, s) = L + e /\ Due(j, o, s) = N + e
  BY <1>3, <1>4, <1>5, <1>6, <1>7, <1>8 DEF Left, Due
<1>10. /\ L + e + C <= P
       /\ L + e > 0 => k.timed
       /\ Well(n) /\ L + e > 0 => L + e = P
       /\ v = 0 => L + e = 0
       /\ v = 0 => s = <<>>
  BY <1>0, <1>3, <1>5, <1>9 DEF Serving, Batch
<1>11. /\ s = <<>> => C = 0
       /\ Well(o) <=> Well(n)
       /\ o.state # "connecting" /\ n.eof \in BOOLEAN /\ (Well(n) <=> ~n.eof)
  BY <1>5, StreamEmpty DEF Well, Socket
<1>12. /\ v < B /\ v + M <= B /\ (v # 0 => a > 0)
       /\ b + d = IF v # 0 THEN a ELSE IF M = 0 THEN 0 ELSE p
       /\ u = IF v + M = B THEN 0 ELSE v + M
       /\ cfg.delay => u = 0
  <2>1. v \in 0 .. B - 1 /\ M \in 0 .. B - v /\ u = (IF v + M = B THEN 0 ELSE v + M)
    BY <1>1, <1>3, <1>4
  <2>2. cfg.delay => M = B - v
    BY <1>3
  <2>3. (v # 0 => a > 0) /\ b + d = IF v # 0 THEN a ELSE IF M = 0 THEN 0 ELSE p
    BY <1>2, <1>3, <1>4, <1>5, <1>6
  <2> QED BY <2>1, <2>2, <2>3
<1>13. /\ Q = IF v = 0 THEN p ELSE P
       /\ y = IF n.eof THEN x ELSE x + d
  BY <1>3, <1>5, <1>6, <1>7
<1>14. j.timed <=> v = 0 \/ k.timed
  BY <1>3
<1>15. Coming(j, o, s)
  BY <1>0, <1>4, <1>11, <1>12 DEF Coming, Serving, Ending, KeptAlive
<1>16. /\ y >= 0 /\ N + e + C <= Q /\ N >= 0
       /\ ~n.eof => IF N + e > 0 THEN N + e = Q ELSE v + M # B
       /\ v + M # B /\ u = 0 => N + e = 0 /\ v = 0
       /\ ~n.eof => N = L \/ (L = 0 /\ N = p)
       /\ u # 0 => v + M # B
       /\ v # 0 => L > 0
  <2>1. CASE v = 0
    <3>1. E = 0 /\ x = 0 /\ e = 0 /\ C = 0 /\ L = 0 /\ a = 0
      BY <1>9, <1>10, <1>11, <2>1
    <3>2. N = b + y /\ y = (IF n.eof THEN 0 ELSE d) /\ b + d = (IF M = 0 THEN 0 ELSE p)
      BY <1>8, <1>12, <1>13, <2>1, <3>1
    <3> QED BY <1>12, <1>13, <2>1, <3>1, <3>2
  <2>2. CASE v # 0
    <3>0. a > 0 /\ b + d = a /\ L > 0
      BY <1>9, <1>12, <2>2
    <3>1. /\ y >= 0 /\ L > 0 /\ N <= L /\ (~n.eof => N = L) /\ N >= 0
      <4>1. CASE n.eof
        BY <1>8, <1>9, <1>13, <3>0, <4>1
      <4>2. CASE ~n.eof
        BY <1>8, <1>9, <1>13, <3>0, <4>2
      <4> QED BY <4>1, <4>2
    <3>2. ~n.eof => L + e = P
      BY <1>10, <1>11, <3>1
    <3> QED BY <1>10, <1>12, <1>13, <2>2, <3>1, <3>2
  <2> QED BY <2>1, <2>2
<1>17. N + e > 0 => j.timed
  <2>1. v # 0 => L + e > 0
    BY <1>16
  <2> QED BY <1>10, <1>14, <2>1
<1>18. Batch(j, o, w, 0, s)
  <2>1. w <=> v + M # B
    BY <1>3
  <2>2. o.owed >= 0 /\ (j.written # 0 <=> u # 0)
    BY <1>4, <1>7, <1>16
  <2>3. Due(j, o, s) + (IF Cut(s) THEN 1 ELSE 0) <= j.pending
    BY <1>5, <1>7, <1>9, <1>16
  <2>4. Well(o) => IF Due(j, o, s) > 0 THEN Due(j, o, s) = j.pending ELSE v + M # B
    BY <1>7, <1>9, <1>11, <1>16
  <2>5. v + M # B /\ u = 0 => Due(j, o, s) = 0 /\ s = <<>>
    BY <1>9, <1>10, <1>16
  <2> QED BY <1>9, <1>11, <1>16, <1>17, <2>1, <2>2, <2>3, <2>4, <2>5 DEF Batch
<1>19. Well(n) => Left(j, o, s) = Left(k, n, s) \/ (Left(k, n, s) = 0 /\ Left(j, o, s) = cfg.pipeline)
  BY <1>5, <1>9, <1>11, <1>16
<1> QED BY <1>15, <1>18, <1>19 DEF Serving

LEMMA SameServing ==        \* other fields of the struct change
    ASSUME NEW k, NEW j, NEW n, NEW w, NEW t, NEW s, Serving(k, n, w, t, s),
           j.parser = k.parser, j.written = k.written, j.pending = k.pending, j.timed = k.timed
    PROVE  Serving(j, n, w, t, s) /\ Left(j, n, s) = Left(k, n, s)
<1>1. Due(j, n, s) = Due(k, n, s) /\ Left(j, n, s) = Left(k, n, s)
  BY DEF Due, Left
<1>2. Coming(j, n, s)
  BY DEF Coming, Serving, Ending, KeptAlive
<1> QED BY <1>1, <1>2 DEF Serving, Batch

LEMMA ExpectedServing ==    \* a response ends, which was expected
    ASSUME TypeOK, NEW k \in Connection, NEW n \in Socket, NEW s \in Seq(Tokens),
           NEW w \in BOOLEAN, NEW t \in Nat, Serving(k, n, w, t, s),
           k.parser = "toeof" \/ (s # <<>> /\ Head(s) # "H")
    PROVE  k.pending > 0 /\ k.timed /\ t = 0 /\ ~(w /\ k.written = 0)
<1>1. n.owed >= 0
  BY DEF Serving, Batch
<1>2. PICK L \in Nat, E \in Nat, a \in Nat, x \in Nat, P \in Nat :
        /\ L = Left(k, n, s) /\ E = Ends(s) /\ a = Unsent(k.written) /\ x = n.owed
        /\ P = k.pending
  BY <1>1, DueTyped
<1>3. L = a + x + E
  BY <1>2 DEF Left
<1>4. PICK e \in 0 .. 1 : e = IF k.parser = "toeof" THEN 1 ELSE 0
  <2>1. (IF k.parser = "toeof" THEN 1 ELSE 0) \in 0 .. 1
    OBVIOUS
  <2> QED BY <2>1
<1>5. L + e > 0
  <2>1. CASE k.parser = "toeof"
    BY <1>4, <2>1
  <2>2. CASE s # <<>> /\ Head(s) # "H"
    <3>1. E > 0
      <4>1. PICK F \in Nat : F = Ends(Tail(s))
        BY <2>2, StreamTail, EndsTyped
      <4>2. E = 1 + F
        BY <1>2, <2>2, <4>1, StreamTail
      <4> QED BY <4>2
    <3> QED BY <1>3, <3>1
  <2> QED BY <2>1, <2>2
<1>6. PICK D \in Nat : D = Due(k, n, s) /\ D = L + e
  BY <1>2, <1>4 DEF Due
<1>7. /\ D + (IF Cut(s) THEN 1 ELSE 0) <= P /\ (D > 0 => k.timed)
      /\ (t > 0 => D = 0) /\ (w /\ k.written = 0 => D = 0)
  BY <1>2, <1>6 DEF Serving, Batch
<1>8. P > 0
  BY <1>5, <1>6, <1>7
<1> QED BY <1>2, <1>5, <1>6, <1>7, <1>8

LEMMA CompletedServing ==   \* it keeps the connection alive
    ASSUME TypeOK, NEW k \in Connection, NEW j \in Connection, NEW n \in Socket,
           NEW s \in Seq(Tokens), NEW w \in BOOLEAN, Serving(k, n, w, 0, s),
           s # <<>>, Head(s) = "K", k.parser = "mid",
           j.parser = "start", j.written = k.written, j.pending = k.pending - 1,
           k.pending # 1 => j.timed = k.timed
    PROVE  /\ Serving(j, n, w \/ k.pending = 1, 0, Tail(s))
           /\ Left(k, n, s) > 0 /\ Left(j, n, Tail(s)) = Left(k, n, s) - 1
<1>1. n.owed >= 0 /\ k.pending > 0 /\ k.timed /\ ~(w /\ k.written = 0) /\ Tail(s) \in Seq(Tokens)
  BY ExpectedServing, StreamTail DEF Serving, Batch
<1>2. PICK L \in Nat, E \in Nat, F \in Nat, a \in Nat, x \in Nat, P \in Nat :
        /\ L = Left(k, n, s) /\ E = Ends(s) /\ a = Unsent(k.written) /\ x = n.owed
        /\ P = k.pending /\ F = Ends(Tail(s))
  BY <1>1, DueTyped, EndsTyped
<1>3. /\ L = a + x + E /\ E = 1 + F /\ Left(j, n, Tail(s)) = a + x + F
      /\ Due(k, n, s) = L + 0 /\ Due(j, n, Tail(s)) = a + x + F + 0
      /\ k.written # 0 => a > 0
  BY <1>1, <1>2, StreamTail, DueTyped DEF Left, Due
<1>4. PICK M \in Nat : M = Left(j, n, Tail(s)) /\ M = a + x + F /\ M = L - 1
  BY <1>3
<1>5. Due(k, n, s) = L /\ Due(j, n, Tail(s)) = M
  BY <1>3, <1>4
<1>6. PICK C \in 0 .. 1, C2 \in 0 .. 1 :
        /\ C = (IF Cut(s) THEN 1 ELSE 0) /\ C2 = (IF Cut(Tail(s)) THEN 1 ELSE 0) /\ C2 <= C
  <2>1. (IF Cut(s) THEN 1 ELSE 0) \in 0 .. 1 /\ (IF Cut(Tail(s)) THEN 1 ELSE 0) \in 0 .. 1
    OBVIOUS
  <2>2. (IF Cut(Tail(s)) THEN 1 ELSE 0) <= (IF Cut(s) THEN 1 ELSE 0)
    BY StreamTail
  <2> QED BY <2>1, <2>2
<1>7. /\ L + C <= P
      /\ Well(n) /\ L > 0 => L = P
      /\ n.state = "connecting" => L = 0
      /\ k.written # 0 => w
  BY <1>2, <1>5, <1>6 DEF Serving, Batch
<1>8. /\ M + C2 <= P - 1
      /\ Well(n) => M = P - 1
      /\ n.state # "connecting"
  <2>1. L = M + 1
    BY ONLY L \in Nat, M \in Nat, <1>4
  <2>2. L + C <= P /\ C2 <= C
    BY <1>6, <1>7
  <2>3. M + C2 <= P - 1
    BY ONLY M \in Nat, L \in Nat, P \in Nat, C \in 0 .. 1, C2 \in 0 .. 1, <2>1, <2>2
  <2>4. L > 0 /\ (L = P => M = P - 1)
    BY ONLY M \in Nat, L \in Nat, P \in Nat, <2>1
  <2> QED BY <1>7, <2>3, <2>4
<1>9. P = 1 => k.written = 0 /\ M = 0 /\ C2 = 0 /\ F = 0
  <2>1. P = 1 => M = 0 /\ C2 = 0
    <3>1. M + C2 <= P - 1
      BY <1>8
    <3> QED BY ONLY <3>1, P \in Nat, M \in Nat, C2 \in 0 .. 1
  <2>2. M = 0 => a = 0 /\ F = 0
    BY ONLY a \in Nat, x \in Nat, F \in Nat, <1>4
  <2>3. a = 0 => k.written = 0
    BY ONLY <1>3
  <2> QED BY ONLY <2>1, <2>2, <2>3
<1>10. P = 1 => Tail(s) = <<>>
  <2>1. P = 1 => ~Cut(Tail(s))
    BY <1>6, <1>9
  <2>2. P = 1 => Ends(Tail(s)) = 0
    BY <1>2, <1>9
  <2> QED BY <1>1, <2>1, <2>2, DueTyped
<1>11. Batch(j, n, w \/ k.pending = 1, 0, Tail(s))
  <2>1. Due(j, n, Tail(s)) + (IF Cut(Tail(s)) THEN 1 ELSE 0) <= j.pending
    BY <1>2, <1>5, <1>6, <1>8
  <2>2. Due(j, n, Tail(s)) > 0 => j.timed
    <3>1. M > 0 => P # 1
      BY <1>9
    <3> QED BY <1>1, <1>2, <1>5, <3>1
  <2>3. Well(n) => IF M > 0 THEN M = j.pending ELSE k.pending = 1
    <3>1. Well(n) => IF M > 0 THEN M = P - 1 ELSE P = 1
      BY <1>8
    <3> QED BY <1>2, <3>1
  <2>4. (w \/ k.pending = 1) /\ j.written = 0 => M = 0 /\ Tail(s) = <<>>
    BY <1>1, <1>2, <1>9, <1>10
  <2> QED BY <1>1, <1>5, <1>7, <1>8, <2>1, <2>2, <2>3, <2>4 DEF Batch
<1>12. Coming(j, n, Tail(s))
  <2>1. /\ Well(n) => ~Cut(s) /\ ~Ending(k, s)
        /\ cfg.delay => /\ n.state \in {"connecting", "up"} /\ k.written = 0
                        /\ n.eof => Ending(k, s)
        /\ cfg.answers = {"K"} => KeptAlive(k, n, s)
    BY DEF Coming, Serving
  <2>2. Well(n) => ~Cut(Tail(s))
    BY <2>1, StreamTail
  <2>3. Ending(j, Tail(s)) <=> Ending(k, s)
    BY StreamTail DEF Ending
  <2>4. KeptAlive(k, n, s) => KeptAlive(j, n, Tail(s))
    <3> SUFFICES ASSUME KeptAlive(k, n, s) PROVE KeptAlive(j, n, Tail(s))
      OBVIOUS
    <3>1. Alternates("start", Tail(s))
      BY StreamTail DEF KeptAlive
    <3>2. PICK l \in Nat, r \in Nat : l = Len(s) /\ r = Len(Tail(s)) /\ l = r + 1
      BY <1>1, StreamTail
    <3>3. l % 2 = 0 <=> ~(r % 2 = 0)
      BY <3>2
    <3>4. Well(n) => (Len(Tail(s)) % 2 = 0) = (j.parser = "start")
      BY <3>2, <3>3 DEF KeptAlive
    <3> QED BY <3>1, <3>4 DEF KeptAlive
  <2> QED BY <2>1, <2>2, <2>3, <2>4 DEF Coming
<1>13. Left(k, n, s) > 0 /\ Left(j, n, Tail(s)) = Left(k, n, s) - 1
  BY <1>2, <1>3, <1>4
<1> QED BY <1>11, <1>12, <1>13 DEF Serving

LEMMA BegunServing ==       \* a response begins, or its body goes on
    ASSUME TypeOK, NEW k \in Connection, NEW j \in Connection, NEW n \in Socket,
           NEW s \in Seq(Tokens), NEW w \in BOOLEAN, Serving(k, n, w, 0, s), s # <<>>,
           k.parser = "toeof" \/ (k.parser = "start" /\ Head(s) \in {"H", "E"}),
           j.parser = IF k.parser = "start" /\ Head(s) = "H" THEN "mid" ELSE "toeof",
           j.written = k.written, j.pending = k.pending, j.timed = k.timed
    PROVE  /\ Serving(j, n, w, 0, Tail(s))
           /\ Well(n) => Left(j, n, Tail(s)) = Left(k, n, s)
<1>1. n.owed >= 0 /\ Tail(s) \in Seq(Tokens)
  BY StreamTail DEF Serving, Batch
<1>2. PICK L \in Nat, E \in Nat, F \in Nat, a \in Nat, x \in Nat, P \in Nat :
        /\ L = Left(k, n, s) /\ E = Ends(s) /\ a = Unsent(k.written) /\ x = n.owed
        /\ P = k.pending /\ F = Ends(Tail(s))
  BY <1>1, DueTyped, EndsTyped
<1>3. PICK e \in 0 .. 1, f \in 0 .. 1, h \in 0 .. 1 :
        /\ e = (IF k.parser = "toeof" THEN 1 ELSE 0) /\ f = (IF j.parser = "toeof" THEN 1 ELSE 0)
        /\ h = (IF Head(s) = "H" THEN 0 ELSE 1)
  <2>1. /\ (IF k.parser = "toeof" THEN 1 ELSE 0) \in 0 .. 1
        /\ (IF j.parser = "toeof" THEN 1 ELSE 0) \in 0 .. 1
        /\ (IF Head(s) = "H" THEN 0 ELSE 1) \in 0 .. 1
    OBVIOUS
  <2> QED BY <2>1
<1>4. PICK M \in Nat : M = Left(j, n, Tail(s)) /\ M = a + x + F
  BY <1>2 DEF Left
<1>5. /\ L = a + x + E /\ E = h + F
      /\ Due(k, n, s) = L + e /\ Due(j, n, Tail(s)) = M + f
  BY <1>1, <1>2, <1>3, <1>4, StreamTail DEF Left, Due
<1>6. IF e = 1 THEN f = 1 ELSE f = h
  BY <1>3
<1>7. M + f <= L + e /\ (e = 0 => M + f = L + e) /\ (f = 0 => M = L)
  BY <1>4, <1>5, <1>6
<1>8. PICK C \in 0 .. 1, C2 \in 0 .. 1 :
        /\ C = (IF Cut(s) THEN 1 ELSE 0) /\ C2 = (IF Cut(Tail(s)) THEN 1 ELSE 0) /\ C2 <= C
  <2>1. (IF Cut(s) THEN 1 ELSE 0) \in 0 .. 1 /\ (IF Cut(Tail(s)) THEN 1 ELSE 0) \in 0 .. 1
    OBVIOUS
  <2>2. (IF Cut(Tail(s)) THEN 1 ELSE 0) <= (IF Cut(s) THEN 1 ELSE 0)
    BY StreamTail
  <2> QED BY <2>1, <2>2
<1>9. Well(n) => ~Cut(s) /\ ~Ending(k, s) /\ k.parser # "toeof" /\ j.parser = "mid"
  <2>1. Well(n) => ~Cut(s) /\ ~Ending(k, s)
    BY DEF Serving, Coming
  <2>2. Head(s) = "E" => Ending(k, s)
    BY StreamTail DEF Ending
  <2> QED BY <2>1, <2>2 DEF Ending
<1>10. /\ L + e + C <= P
       /\ L + e > 0 => k.timed
       /\ Well(n) /\ L + e > 0 => L + e = P
       /\ Well(n) /\ ~(L + e > 0) => w
       /\ w /\ k.written = 0 => L + e = 0 /\ s = <<>>
       /\ n.state = "connecting" => L + e = 0
       /\ k.written # 0 => w
  BY <1>2, <1>5, <1>8 DEF Serving, Batch
<1>11. ~(w /\ k.written = 0)
  BY <1>10
<1>12. Batch(j, n, w, 0, Tail(s))
  <2>1. Due(j, n, Tail(s)) + (IF Cut(Tail(s)) THEN 1 ELSE 0) <= j.pending
    <3>1. M + f + C2 <= P
      BY <1>7, <1>8, <1>10
    <3> QED BY <1>2, <1>5, <1>8, <3>1
  <2>2. M + f > 0 => j.timed
    <3>1. M + f > 0 => L + e > 0
      BY <1>7
    <3> QED BY <1>10, <3>1
  <2>3. Well(n) => IF M + f > 0 THEN M + f = j.pending ELSE w
    <3>1. Well(n) => e = 0
      BY <1>3, <1>9
    <3> QED BY <1>2, <1>7, <1>10, <3>1
  <2>4. n.state = "connecting" => M + f = 0
    BY <1>7, <1>10
  <2> QED BY <1>1, <1>5, <1>10, <1>11, <2>1, <2>2, <2>3, <2>4 DEF Batch
<1>13. Coming(j, n, Tail(s))
  <2>1. /\ cfg.delay => /\ n.state \in {"connecting", "up"} /\ k.written = 0
                        /\ n.eof => Ending(k, s)
        /\ cfg.answers = {"K"} => KeptAlive(k, n, s)
    BY DEF Coming, Serving
  <2>2. Ending(k, s) => Ending(j, Tail(s))
    BY StreamTail DEF Ending
  <2>3. Well(n) => ~Cut(Tail(s)) /\ ~Ending(j, Tail(s))
    BY <1>9, StreamTail DEF Ending
  <2>4. KeptAlive(k, n, s) => KeptAlive(j, n, Tail(s))
    <3> SUFFICES ASSUME KeptAlive(k, n, s) PROVE KeptAlive(j, n, Tail(s))
      OBVIOUS
    <3>1. k.parser = "start" /\ j.parser = "mid" /\ Alternates("mid", Tail(s))
      BY StreamTail DEF KeptAlive
    <3>2. PICK l \in Nat, r \in Nat : l = Len(s) /\ r = Len(Tail(s)) /\ l = r + 1
      BY <1>1, StreamTail
    <3>3. l % 2 = 0 <=> ~(r % 2 = 0)
      BY <3>2
    <3>4. Well(n) => (Len(Tail(s)) % 2 = 0) = (j.parser = "start")
      BY <3>1, <3>2, <3>3 DEF KeptAlive
    <3> QED BY <3>1, <3>4 DEF KeptAlive
  <2> QED BY <2>1, <2>2, <2>3, <2>4 DEF Coming
<1>14. Well(n) => Left(j, n, Tail(s)) = Left(k, n, s)
  <2>1. Well(n) => f = 0
    BY <1>3, <1>9
  <2> QED BY <1>2, <1>4, <1>7, <2>1
<1> QED BY <1>12, <1>13, <1>14 DEF Serving

LEMMA AcceptedServing ==    \* the server takes the connection
    ASSUME NEW k, NEW n, NEW o, NEW w, NEW t, NEW s, Serving(k, n, w, t, s),
           n.state = "connecting", o.state = "up", o.eof = n.eof, o.owed = n.owed
    PROVE  /\ Serving(k, o, w, t, s)
           /\ Left(k, o, s) = Left(k, n, s) /\ Due(k, n, s) = 0
<1>1. Due(k, o, s) = Due(k, n, s) /\ Left(k, o, s) = Left(k, n, s) /\ (Well(o) <=> Well(n))
  BY DEF Due, Left, Well
<1>2. Coming(k, o, s)
  BY <1>1 DEF Coming, Serving, Ending, KeptAlive
<1> QED BY <1>1, <1>2 DEF Serving, Batch

(* The server gives up: what it still owed, and perhaps the end of what it *)
(* had sent, is lost.                                                      *)
LEMMA CutServing ==
    ASSUME TypeOK, NEW k \in Connection, NEW n \in Socket, NEW o \in Socket,
           NEW s \in Seq(Tokens), NEW r \in Seq(Tokens), NEW w \in BOOLEAN,
           Serving(k, n, w, 0, s), ~cfg.delay, ~Well(o), o.owed = 0, o.state # "connecting",
           Ends(r) <= Ends(s), ~Cut(s) /\ Cut(r) => Ends(r) < Ends(s), s = <<>> => r = <<>>,
           \A p \in {"start", "mid"} : Alternates(p, s) => Alternates(p, r)
    PROVE  Serving(k, o, w, 0, r)
<1>1. n.owed >= 0 /\ o.owed >= 0
  BY DEF Serving, Batch
<1>2. PICK L \in Nat, E \in Nat, F \in Nat, a \in Nat, x \in Nat, P \in Nat, M \in Nat :
        /\ L = Left(k, n, s) /\ E = Ends(s) /\ a = Unsent(k.written) /\ x = n.owed
        /\ P = k.pending /\ F = Ends(r) /\ M = Left(k, o, r)
  BY <1>1, DueTyped
<1>3. PICK e \in 0 .. 1, C \in 0 .. 1, C2 \in 0 .. 1 :
        /\ e = (IF k.parser = "toeof" THEN 1 ELSE 0)
        /\ C = (IF Cut(s) THEN 1 ELSE 0) /\ C2 = (IF Cut(r) THEN 1 ELSE 0)
  <2>1. /\ (IF k.parser = "toeof" THEN 1 ELSE 0) \in 0 .. 1
        /\ (IF Cut(s) THEN 1 ELSE 0) \in 0 .. 1 /\ (IF Cut(r) THEN 1 ELSE 0) \in 0 .. 1
    OBVIOUS
  <2> QED BY <2>1
<1>4. L = a + x + E /\ M = a + 0 + F /\ Due(k, n, s) = L + e /\ Due(k, o, r) = M + e
  BY <1>2, <1>3 DEF Left, Due
<1>5. F <= E /\ (C = 0 /\ C2 = 1 => F < E)
  BY <1>2, <1>3
<1>6. /\ L + e + C <= P
      /\ L + e > 0 => k.timed
      /\ w /\ k.written = 0 => L + e = 0 /\ s = <<>>
      /\ k.written # 0 => w
  BY <1>2, <1>3, <1>4 DEF Serving, Batch
<1>7. M + e + C2 <= P /\ M <= L
  BY <1>4, <1>5, <1>6
<1>8. (M + e > 0 => L + e > 0) /\ (L + e = 0 => M + e = 0)
  BY <1>7
<1>9. Batch(k, o, w, 0, r)
  <2>1. Due(k, o, r) + (IF Cut(r) THEN 1 ELSE 0) <= k.pending
    BY <1>2, <1>3, <1>4, <1>7
  <2> QED BY <1>1, <1>4, <1>6, <1>8, <2>1 DEF Batch
<1>10. Coming(k, o, r)
  BY DEF Coming, Serving, KeptAlive
<1> QED BY <1>9, <1>10 DEF Serving

What(kind) == IF kind \in {"K", "C"} THEN <<"H", kind>> ELSE <<kind>>

LEMMA AnswerStream ==
    ASSUME NEW kind \in {"K", "C", "E", "X"}
    PROVE  /\ What(kind) \in Seq(Tokens) /\ What(kind) # <<>> /\ ~Cut(What(kind))
           /\ Ends(What(kind)) = 1 /\ (Has(What(kind), "E") <=> kind = "E")
<1>1. CASE kind \in {"K", "C"}
  <2>1. What(kind) = <<"H">> \o <<kind>> /\ <<"H">> \in Seq(Tokens) /\ <<kind>> \in Seq(Tokens)
    BY <1>1 DEF What, Tokens
  <2>2. Ends(What(kind)) = Ends(<<"H">>) + Ends(<<kind>>)
    BY <2>1, EndsJoin
  <2>3. Ends(<<"H">>) = 0 /\ Ends(<<kind>>) = 1
    BY EndsOfOne, <1>1 DEF Tokens
  <2>4. What(kind) = <<"H", kind>> /\ DOMAIN What(kind) = {1, 2}
    BY <1>1 DEF What
  <2> QED BY <1>1, <2>2, <2>3, <2>4 DEF Cut, Has, Tokens
<1>2. CASE kind \notin {"K", "C"}
  <2>1. What(kind) = <<kind>> /\ DOMAIN What(kind) = {1}
    BY <1>2 DEF What
  <2>2. Ends(What(kind)) = 1
    BY <1>2, <2>1, EndsOfOne DEF Tokens
  <2> QED BY <1>2, <2>1, <2>2 DEF Cut, Has, Tokens
<1> QED BY <1>1, <1>2

LEMMA AnswerAlternates ==
    ASSUME NEW s \in Seq(Tokens), NEW p \in {"start", "mid"}, Alternates(p, s),
           (Len(s) % 2 = 0) = (p = "start")
    PROVE  /\ Alternates(p, s \o <<"H", "K">>)
           /\ (Len(s \o <<"H", "K">>) % 2 = 0) = (p = "start")
<1> DEFINE u == s \o <<"H", "K">>
<1>1. PICK l \in Nat : l = Len(s)
  OBVIOUS
<1>2. /\ DOMAIN u = 1 .. l + 2 /\ DOMAIN s = 1 .. l /\ Len(u) = l + 2
      /\ \A i \in 1 .. l : u[i] = s[i]
      /\ u[l + 1] = "H" /\ u[l + 2] = "K"
  <2>1. <<"H", "K">> \in Seq(Tokens) /\ Len(<<"H", "K">>) = 2
    BY DEF Tokens
  <2>2. u \in Seq(Tokens) /\ Len(u) = l + 2 /\ DOMAIN u = 1 .. l + 2 /\ DOMAIN s = 1 .. l
    BY <1>1, <2>1
  <2>3. \A i \in 1 .. l : u[i] = s[i]
    BY <1>1, <2>1
  <2>4. u[l + 1] = "H" /\ u[l + 2] = "K"
    BY <1>1, <2>1
  <2> QED BY <2>2, <2>3, <2>4
<1> HIDE DEF u
<1>3. ASSUME NEW i \in DOMAIN u
      PROVE  u[i] = IF (i % 2 = 1) = (p = "start") THEN "H" ELSE "K"
  <2>1. i \in 1 .. l \/ i = l + 1 \/ i = l + 2
    BY <1>2
  <2>2. CASE i \in 1 .. l
    BY <1>2, <2>2 DEF Alternates
  <2>3. CASE i = l + 1
    <3>1. i % 2 = 1 <=> l % 2 = 0
      BY <2>3
    <3> QED BY <1>1, <1>2, <2>3, <3>1
  <2>4. CASE i = l + 2
    <3>1. ~(i % 2 = 1) <=> l % 2 = 0
      BY <2>4
    <3> QED BY <1>1, <1>2, <2>4, <3>1
  <2> QED BY <2>1, <2>2, <2>3, <2>4
<1>4. (l + 2) % 2 = 0 <=> l % 2 = 0
  OBVIOUS
<1>5. (Len(u) % 2 = 0) = (p = "start")
  BY <1>1, <1>2, <1>4
<1> QED BY <1>3, <1>5 DEF Alternates, u

LEMMA AnsweredServing ==    \* the server answers a request
    ASSUME TypeOK, NEW k \in Connection, NEW n \in Socket, NEW o \in Socket,
           NEW s \in Seq(Tokens), NEW w \in BOOLEAN, NEW t \in Nat,
           Serving(k, n, w, t, s), NEW kind \in cfg.answers,
           n.state = "up", ~n.eof, n.owed > 0,
           o.state = "up", o.eof <=> kind = "E",
           o.owed = IF kind = "E" THEN 0 ELSE n.owed - 1
    PROVE  /\ Serving(k, o, w, t, s \o What(kind))
           /\ Well(o) => Left(k, o, s \o What(kind)) = Left(k, n, s)
<1> DEFINE u == s \o What(kind)
<1>0. kind \in {"K", "C", "E", "X"} /\ n.owed >= 0
  <2>1. cfg \in Configurations
    BY WorkerAssumption DEF TypeOK
  <2>2. cfg.answers \in SUBSET {"K", "C", "E", "X"}
    BY <2>1 DEF Configurations
  <2> QED BY <2>2 DEF Serving, Batch
<1>1. /\ u \in Seq(Tokens) /\ Ends(u) = Ends(s) + 1 /\ ~Cut(u) /\ u # <<>>
      /\ Has(u, "E") <=> Has(s, "E") \/ kind = "E"
  BY <1>0, AnswerStream, StreamJoin
<1> HIDE DEF u
<1>2. PICK L \in Nat, E \in Nat, F \in Nat, a \in Nat, x \in Nat, P \in Nat, y \in Nat :
        /\ L = Left(k, n, s) /\ E = Ends(s) /\ a = Unsent(k.written) /\ x = n.owed
        /\ P = k.pending /\ F = Ends(u) /\ y = o.owed
  <2>1. o.owed \in Nat
    <3>1. n.owed \in Int
      BY DEF Socket
    <3> QED BY <3>1
  <2> QED BY <1>0, <1>1, <2>1, DueTyped
<1>3. PICK e \in 0 .. 1 : e = IF k.parser = "toeof" THEN 1 ELSE 0
  <2>1. (IF k.parser = "toeof" THEN 1 ELSE 0) \in 0 .. 1
    OBVIOUS
  <2> QED BY <2>1
<1>4. PICK M \in Nat : M = Left(k, o, u) /\ M = a + y + F
  BY <1>2 DEF Left
<1>5. /\ L = a + x + E /\ F = E + 1 /\ x > 0 /\ y = IF kind = "E" THEN 0 ELSE x - 1
      /\ Due(k, n, s) = L + e /\ Due(k, o, u) = M + e
  BY <1>1, <1>2, <1>3, <1>4 DEF Left, Due
<1>6. M <= L /\ L > 0 /\ M > 0 /\ (kind # "E" => M = L)
  BY <1>4, <1>5
<1>7. Well(n) /\ (Well(o) <=> kind # "E")
  BY DEF Well
<1>8. PICK C \in 0 .. 1 : C = IF Cut(s) THEN 1 ELSE 0
  <2>1. (IF Cut(s) THEN 1 ELSE 0) \in 0 .. 1
    OBVIOUS
  <2> QED BY <2>1
<1>9. /\ L + e + C <= P /\ L + e = P
      /\ L + e > 0 => k.timed
      /\ w /\ k.written = 0 => L + e = 0
      /\ t > 0 => L + e = 0
      /\ k.written # 0 => w
  <2>1. /\ Due(k, n, s) + (IF Cut(s) THEN 1 ELSE 0) <= k.pending
        /\ Due(k, n, s) > 0 => k.timed
        /\ Due(k, n, s) > 0 => Due(k, n, s) = k.pending
        /\ w /\ k.written = 0 => Due(k, n, s) = 0
        /\ t > 0 => Due(k, n, s) = 0
        /\ k.written # 0 => w
    BY <1>7 DEF Serving, Batch
  <2>2. L + e > 0
    BY <1>6
  <2> QED BY <1>2, <1>5, <1>8, <2>1, <2>2
<1>10. L + e > 0 /\ k.timed /\ ~(w /\ k.written = 0) /\ ~(t > 0)
  BY <1>6, <1>9
<1>11. M + e > 0 /\ M + e <= P /\ (kind # "E" => M + e = P)
  BY <1>6, <1>9
<1>12. Batch(k, o, w, t, u)
  <2>1. Due(k, o, u) + (IF Cut(u) THEN 1 ELSE 0) <= k.pending
    BY <1>1, <1>2, <1>5, <1>11
  <2>2. Well(o) => Due(k, o, u) > 0 /\ Due(k, o, u) = k.pending
    BY <1>2, <1>5, <1>7, <1>11
  <2>3. o.owed >= 0
    BY <1>2
  <2> QED BY <1>1, <1>9, <1>10, <2>1, <2>2, <2>3 DEF Batch
<1>13. Coming(k, o, u)
  <2>1. /\ ~Ending(k, s)
        /\ cfg.delay => k.written = 0
        /\ cfg.answers = {"K"} => KeptAlive(k, n, s)
        /\ k.parser # "dead"
    BY <1>7 DEF Coming, Serving
  <2>2. Well(o) => ~Ending(k, u)
    BY <1>1, <1>7, <2>1 DEF Ending
  <2>3. o.eof => Ending(k, u)
    BY <1>1 DEF Ending
  <2>4. cfg.answers = {"K"} => KeptAlive(k, o, u)
    <3> SUFFICES ASSUME cfg.answers = {"K"} PROVE KeptAlive(k, o, u)
      OBVIOUS
    <3>1. u = s \o <<"H", "K">>
      BY DEF u, What
    <3> QED BY <1>7, <2>1, <3>1, AnswerAlternates DEF KeptAlive
  <2> QED BY <1>1, <2>1, <2>2, <2>3, <2>4 DEF Coming
<1>14. Well(o) => Left(k, o, u) = Left(k, n, s)
  BY <1>2, <1>4, <1>6, <1>7
<1> QED BY <1>12, <1>13, <1>14 DEF Serving, u

---------------------------------------------------------------------------
(* What the calls of a handler of c do to the other connections: nothing.  *)

Only(s, r, c) ==
    /\ \A d \in Conns \ {c} : r.conn[d] = s.conn[d]
    /\ \A x \in Fds : \/ SameAt(s, r, x)
                      \/ /\ x \in Open(s) => s.ae.data[x] = c
                         /\ x \in Open(r) => r.ae.data[x] = c

(* As Working and ToCome, of a part of the state.                          *)
Works(s, c) ==
    LET fd == s.conn[c].fd IN
    Owns(s, c) /\ s.ae.rproc[fd] = "socket_readable" /\ s.net[fd].state = "up" /\ ~s.net[fd].eof

Amount(s, c, b) ==
    LET fd == s.conn[c].fd IN Left(s.conn[c], s.net[fd], b \o s.net[fd].in)

LEMMA SameOpen ==
    ASSUME NEW s, NEW r, NEW x, SameAt(s, r, x)
    PROVE  x \in Open(s) <=> x \in Open(r)
BY DEF SameAt, Open

LEMMA OnlyTransitive ==
    ASSUME NEW s, NEW t, NEW r, NEW c, Only(s, t, c), Only(t, r, c)
    PROVE  Only(s, r, c)
<1>1. \A d \in Conns \ {c} : r.conn[d] = s.conn[d]
  BY DEF Only
<1>2. ASSUME NEW x \in Fds, ~SameAt(s, r, x)
      PROVE  /\ x \in Open(s) => s.ae.data[x] = c
             /\ x \in Open(r) => r.ae.data[x] = c
  <2>1. ~SameAt(s, t, x) \/ ~SameAt(t, r, x)
    BY <1>2 DEF SameAt
  <2>2. \/ SameAt(s, t, x)
        \/ (x \in Open(s) => s.ae.data[x] = c) /\ (x \in Open(t) => t.ae.data[x] = c)
    BY DEF Only
  <2>3. \/ SameAt(t, r, x)
        \/ (x \in Open(t) => t.ae.data[x] = c) /\ (x \in Open(r) => r.ae.data[x] = c)
    BY DEF Only
  <2>4. CASE SameAt(s, t, x)
    <3>1. (x \in Open(s) <=> x \in Open(t)) /\ t.ae.data[x] = s.ae.data[x]
      BY <2>4, SameOpen DEF SameAt
    <3> QED BY <2>1, <2>3, <2>4, <3>1
  <2>5. CASE SameAt(t, r, x)
    <3>1. (x \in Open(t) <=> x \in Open(r)) /\ r.ae.data[x] = t.ae.data[x]
      BY <2>5, SameOpen DEF SameAt
    <3> QED BY <2>1, <2>2, <2>5, <3>1
  <2> QED BY <2>2, <2>3, <2>4, <2>5
<1> QED BY <1>1, <1>2 DEF Only

LEMMA OnlyOthers ==
    ASSUME NEW s \in Part, NEW r \in Part, NEW c, Only(s, r, c), NEW d \in Conns \ {c},
           NEW t, NEW b
    PROVE  /\ Lives(r, d, t, b) <=> Lives(s, d, t, b)
           /\ Works(r, d) <=> Works(s, d)
           /\ Owns(r, d) <=> Owns(s, d)
           /\ Works(s, d) => Amount(r, d, b) = Amount(s, d, b)
<1> DEFINE fd == s.conn[d].fd
<1>1. r.conn[d] = s.conn[d] /\ fd \in Fds
  BY FdsAreSlots DEF Only, Part, Connection
<1>2. \/ SameAt(s, r, fd)
      \/ (fd \in Open(s) => s.ae.data[fd] = c) /\ (fd \in Open(r) => r.ae.data[fd] = c)
  BY <1>1 DEF Only
<1> HIDE DEF fd
<1>3. CASE SameAt(s, r, fd)
  <2>1. fd \in Open(s) <=> fd \in Open(r)
    BY <1>3, SameOpen
  <2>2. Owns(r, d) <=> Owns(s, d)
    BY <1>1, <1>3, <2>1 DEF Owns, SameAt, fd
  <2>3. fd \in Open(s) => fd \in Sockets
    BY DEF Open
  <2>4. Owns(s, d) => r.net[fd] = s.net[fd]
    BY <1>3, <2>3 DEF Owns, SameAt, fd
  <2>5. Owns(s, d) => /\ Waits(r, d, t) <=> Waits(s, d, t)
                      /\ Serves(r, d, t, b) <=> Serves(s, d, t, b)
                      /\ Amount(r, d, b) = Amount(s, d, b)
    BY <1>1, <1>3, <2>4 DEF SameAt, Waits, Serves, Silent, Amount, fd
  <2>6. Works(r, d) <=> Works(s, d)
    BY <1>1, <1>3, <2>2, <2>4 DEF Works, SameAt, fd
  <2>7. Works(s, d) => Owns(s, d)
    BY DEF Works
  <2> QED BY <2>2, <2>5, <2>6, <2>7 DEF Lives
<1>4. CASE (fd \in Open(s) => s.ae.data[fd] = c) /\ (fd \in Open(r) => r.ae.data[fd] = c)
  <2>1. ~Owns(s, d) /\ ~Owns(r, d)
    BY <1>1, <1>4 DEF Owns, fd
  <2> QED BY <2>1 DEF Lives, Works
<1> QED BY <1>2, <1>3, <1>4

LEMMA FitKept ==
    ASSUME NEW s, NEW r, NEW U, NEW V, V \subseteq U, NEW x, FitAt(s, U, x),
           x \in Sockets => r.net[x] = s.net[x], x \in r.stale <=> x \in s.stale,
           x \in Open(s) /\ Silent(s, x) => Silent(r, x)
    PROVE  FitAt(r, V, x)
<1>1. x \in Open(s) <=> x \in Open(r)
  BY DEF Open
<1>2. x \in Open(s) => r.net[x] = s.net[x]
  BY DEF Open
<1>3. Both(V, x) => Both(U, x)
  BY DEF Both
<1> QED BY <1>1, <1>2, <1>3 DEF FitAt

(* A step that keeps the socket c has, and changes only that one.          *)
Kept(s, r, c) ==
    LET fd == s.conn[c].fd IN
    /\ r \in Part /\ Sound(r, Live) /\ Owns(r, c) /\ Only(s, r, c)
    /\ r.conn[c].fd = fd /\ r.stale = s.stale
    /\ \A x \in Fds \ {fd} : SameAt(s, r, x)
    /\ Registered(s) => Registered(r)

LEMMA KeptTransitive ==
    ASSUME NEW s, NEW t, NEW r, NEW c, Kept(s, t, c), Kept(t, r, c)
    PROVE  Kept(s, r, c)
<1>1. Only(s, r, c)
  BY OnlyTransitive DEF Kept
<1>2. \A x \in Fds \ {s.conn[c].fd} : SameAt(s, r, x)
  BY DEF Kept, SameAt
<1> QED BY <1>1, <1>2 DEF Kept

LEMMA KeptFit ==
    ASSUME NEW s, NEW r, NEW c, Kept(s, r, c), NEW U, NEW V, V \subseteq U, Fit(s, U),
           FitAt(r, V, s.conn[c].fd)
    PROVE  Fit(r, V)
<1> SUFFICES ASSUME NEW x \in Fds, x # s.conn[c].fd PROVE FitAt(r, V, x)
  BY DEF Fit
<1>1. SameAt(s, r, x) /\ r.stale = s.stale /\ FitAt(s, U, x)
  BY DEF Kept, Fit
<1>2. x \in Open(s) => x \in Sockets
  BY DEF Open
<1>3. x \in Open(s) /\ Silent(s, x) => Silent(r, x)
  BY <1>1, <1>2 DEF SameAt, Silent
<1> QED BY <1>1, <1>3, FitKept DEF SameAt

(* What a step that only changes the socket c has, in what the loop's      *)
(* tables, the kernel and its struct say of it, keeps.                     *)
LEMMA KeptBeside ==
    ASSUME NEW s \in Part, NEW r \in Part, NEW c \in Conns, Owns(s, c), Sound(r, Live),
           \A x \in Fds \ {s.conn[c].fd} : SameAt(s, r, x), s.conn[c].fd \in Open(r),
           r.ae.data[s.conn[c].fd] = c, r.stale = s.stale,
           \A d \in Conns \ {c} : r.conn[d] = s.conn[d], r.conn[c].fd = s.conn[c].fd
    PROVE  Kept(s, r, c)
<1> DEFINE fd == s.conn[c].fd
<1>1. Owns(r, c)
  BY DEF Owns
<1>2. Only(s, r, c)
  BY DEF Only, Owns
<1>3. ASSUME Registered(s), NEW x \in Fds, r.ae.mask[x] # {}
      PROVE  x \in Open(r)
  <2>1. CASE x = fd
    BY <2>1
  <2>2. CASE x # fd
    <3>1. SameAt(s, r, x) /\ x \in Open(s)
      BY <1>3, <2>2 DEF Registered, SameAt
    <3> QED BY <3>1, SameOpen
  <2> QED BY <2>1, <2>2
<1> QED BY <1>1, <1>2, <1>3 DEF Kept, Registered

LEMMA ArmEffect ==
    ASSUME NEW s \in Part, Sound(s, Live), NEW c \in Conns, c \in Live, Owns(s, c),
           NEW m \in Masks, NEW p \in Procs
    PROVE  LET fd == s.conn[c].fd
               r  == Register(s, fd, m, p, c)
           IN  /\ Kept(s, r, c) /\ r.net = s.net /\ r.conn = s.conn
               /\ r.ae.mask[fd] = s.ae.mask[fd] \cup m
               /\ r.ae.rproc[fd] = IF "R" \in m THEN p ELSE s.ae.rproc[fd]
               /\ r.ae.wproc[fd] = IF "W" \in m THEN p ELSE s.ae.wproc[fd]
<1> DEFINE fd == s.conn[c].fd
           r  == Register(s, fd, m, p, c)
           a  == CreateFileEvent(s.ae, Open(s), fd, m, p, c)
<1>1. fd \in Fds /\ fd \in Open(s) /\ s.ae.data[fd] = c /\ s.ae \in EventLoop
  BY FdsAreSlots DEF Part, Connection, Owns
<1> HIDE DEF fd
<1>2. /\ r \in Part /\ Sound(r, Live)
      /\ r.net = s.net /\ r.conn = s.conn /\ r.stale = s.stale
  BY <1>1, RegisterSound DEF fd
<1>3. r.ae = a
  BY <1>1, RegisterEffect
<1>4. c \in Owners
  BY DEF Conns
<1>5. Created(s.ae, a, Open(s), fd, m, p, c)
  BY <1>1, <1>4, CreateEffect
<1>6. CanCreate(s.ae, Open(s), fd)
  <2>1. fd < SetSize
    BY <1>1, SetSizeAssumption DEF Fds
  <2>2. s.ae.api \in {"epoll", "kqueue", "select", "evport"}
    BY <1>1, BackendAssumption DEF EventLoop
  <2>3. s.ae.api = "epoll" => (s.ae.mask[fd] = {} <=> s.ae.watch[fd] = {})
    BY <1>1 DEF Sound, Held
  <2> QED BY <1>1, <2>1, <2>2, <2>3 DEF CanCreate, ApiAddOk
<1> HIDE DEF r, a
<1>7. /\ \A x \in Fds \ {fd} : SameAt(s, r, x)
      /\ r.ae.mask[fd] = s.ae.mask[fd] \cup m /\ r.ae.data[fd] = c
      /\ r.ae.rproc[fd] = IF "R" \in m THEN p ELSE s.ae.rproc[fd]
      /\ r.ae.wproc[fd] = IF "W" \in m THEN p ELSE s.ae.wproc[fd]
  BY <1>2, <1>3, <1>5, <1>6 DEF Created, SameAt
<1>8. fd \in Open(r)
  BY <1>1, <1>2 DEF Open
<1>9. Kept(s, r, c)
  BY <1>2, <1>7, <1>8, KeptBeside DEF fd
<1> QED BY <1>2, <1>7, <1>9 DEF r, fd

LEMMA DisarmEffect ==
    ASSUME NEW s \in Part, Sound(s, Live), NEW c \in Conns, c \in Live, Owns(s, c)
    PROVE  LET fd == s.conn[c].fd
               r  == Unregister(s, fd, {"W"})
           IN  /\ Kept(s, r, c) /\ r.net = s.net /\ r.conn = s.conn
               /\ "W" \notin r.ae.mask[fd]
               /\ r.ae.rproc = s.ae.rproc /\ r.ae.wproc = s.ae.wproc
<1> DEFINE fd == s.conn[c].fd
           r  == Unregister(s, fd, {"W"})
           a  == DeleteFileEvent(s.ae, fd, {"W"})
<1>1. fd \in Fds /\ fd \in Open(s) /\ s.ae.data[fd] = c /\ s.ae \in EventLoop /\ {"W"} \in Masks
  BY FdsAreSlots DEF Part, Connection, Owns, Masks, Ev
<1> HIDE DEF fd
<1>2. /\ r \in Part /\ Sound(r, Live)
      /\ r.net = s.net /\ r.conn = s.conn /\ r.stale = s.stale
  BY <1>1, UnregisterSound
<1>3. r.ae = a
  BY <1>1, UnregisterEffect
<1>4. Deleted(s.ae, a, fd, {"W"})
  BY <1>1, DeleteEffect
<1> HIDE DEF r, a
<1>5. /\ r.ae.rproc = s.ae.rproc /\ r.ae.wproc = s.ae.wproc /\ r.ae.data = s.ae.data
      /\ \A x \in Fds : r.ae.mask[x] = IF x = fd THEN s.ae.mask[x] \ {"W"} ELSE s.ae.mask[x]
  BY <1>1, <1>3, <1>4 DEF Deleted, EventLoop
<1>6. /\ \A x \in Fds \ {fd} : SameAt(s, r, x)
      /\ "W" \notin r.ae.mask[fd] /\ r.ae.data[fd] = c
  BY <1>1, <1>2, <1>5 DEF SameAt
<1>7. fd \in Open(r)
  BY <1>1, <1>2 DEF Open
<1>8. Kept(s, r, c)
  BY <1>2, <1>6, <1>7, KeptBeside DEF fd
<1> QED BY <1>2, <1>5, <1>6, <1>8 DEF r, fd

(* Its struct changes, or what the kernel has of its socket.               *)
LEMMA AlterEffect ==
    ASSUME NEW s \in Part, Sound(s, Live), NEW c \in Conns, Owns(s, c),
           NEW k \in Connection, k.fd = s.conn[c].fd, NEW n \in Socket,
           n.state # "closed", n.state = "connecting" => s.net[s.conn[c].fd].state = "connecting",
           NEW r \in Part, r.ae = s.ae, r.stale = s.stale,
           \A d \in Conns : r.conn[d] = IF d = c THEN k ELSE s.conn[d],
           \A x \in Sockets : r.net[x] = IF x = s.conn[c].fd THEN n ELSE s.net[x]
    PROVE  Kept(s, r, c) /\ r.conn[c] = k /\ r.net[s.conn[c].fd] = n
<1> DEFINE fd == s.conn[c].fd
<1>1. fd \in Fds /\ fd \in Open(s) /\ fd \in Sockets /\ s.ae.data[fd] = c
  BY FdsAreSlots DEF Part, Connection, Owns, Open
<1> HIDE DEF fd
<1>2. /\ \A x \in Sockets : r.net[x] = IF x = fd THEN n ELSE s.net[x]
      /\ \A d \in Conns : r.conn[d] = IF d = c THEN k ELSE s.conn[d]
  BY <1>1 DEF Part, fd
<1>3. Same(s, r)
  BY <1>1, <1>2 DEF Same, Open, fd
<1>4. Sound(r, Live)
  BY <1>3, SameSound
<1>5. \A x \in Fds \ {fd} : SameAt(s, r, x)
  BY <1>2 DEF SameAt
<1>6. fd \in Open(r)
  BY <1>1, <1>2 DEF Open
<1>7. Kept(s, r, c)
  BY <1>1, <1>2, <1>4, <1>5, <1>6, KeptBeside DEF fd
<1> QED BY <1>1, <1>2, <1>7 DEF fd

---------------------------------------------------------------------------
(* c gets another socket.  Of its old one, if it has one, no more than one *)
(* report is left.                                                         *)
Loose(s, c, U) ==
    /\ s \in Part /\ Sound(s, Live) /\ Registered(s) /\ Fit(s, U)
    /\ ~Both(U, s.conn[c].fd)
    /\ s.conn[c].fd \in Open(s) => Owns(s, c)

Unused(s, fd) == Silent(s, fd) /\ Well(s.net[fd])

Anew(s, r, c) ==
    LET fd == r.conn[c].fd IN
    /\ Owns(r, c) => Unused(r, fd)
    /\ fd \in Open(r) => fd = s.conn[c].fd \/ fd \notin Open(s)
    /\ r.stale \subseteq s.stale \cup (Open(s) \cap {s.conn[c].fd})
    /\ r.conn[c].parser = s.conn[c].parser /\ r.conn[c].delayed = s.conn[c].delayed

(* The error count does not matter.                                        *)
LEMMA LooseCount ==
    ASSUME NEW s, NEW c, NEW U, Loose(s, c, U), NEW e \in ErrorKinds
    PROVE  LET r == Count(s, e) IN
           /\ Loose(r, c, U) /\ Only(s, r, c)
           /\ r.ae = s.ae /\ r.net = s.net /\ r.conn = s.conn /\ r.stale = s.stale
<1> DEFINE r == Count(s, e)
<1>1. r \in Part /\ r.ae = s.ae /\ r.net = s.net /\ r.conn = s.conn /\ r.stale = s.stale
  BY CountEffect DEF Loose
<1> HIDE DEF r
<1>2. Same(s, r) /\ Open(r) = Open(s)
  BY <1>1 DEF Same, Open
<1>3. Sound(r, Live) /\ Registered(r) /\ (Owns(s, c) => Owns(r, c))
  BY <1>1, <1>2, SameSound DEF Loose, Registered, Owns
<1>4. Fit(r, U)
  BY <1>1, <1>2 DEF Loose, Fit, FitAt, Silent
<1>5. Only(s, r, c)
  BY <1>1 DEF Only, SameAt
<1> QED BY <1>1, <1>2, <1>3, <1>4, <1>5 DEF Loose, r

(* A descriptor that is not open any more, or has been taken again, and of *)
(* which at most one report is left.                                       *)
LEMMA FitStale ==
    ASSUME NEW r, NEW U, NEW fd, ~Both(U, fd), fd \in r.stale \/ \A b \in Ev : <<fd, b>> \notin U,
           fd \in Open(r) => Silent(r, fd)
    PROVE  FitAt(r, U, fd)
BY DEF FitAt

LEMMA DropLoose ==
    ASSUME NEW s, NEW c \in Conns, NEW U, Loose(s, c, U),
           NEW t \in Part, Sound(t, Live), Dropped(s, t, s.conn[c].fd)
    PROVE  /\ Only(s, t, c) /\ Registered(t) /\ Fit(t, U)
           /\ t.conn = s.conn /\ s.conn[c].fd \notin Open(t)
<1> DEFINE fd == s.conn[c].fd
<1>1. s \in Part /\ fd \in Fds
  BY FdsAreSlots DEF Loose, Part, Connection
<1>2. /\ t.conn = s.conn /\ t.ae.mask[fd] = {}
      /\ Open(t) = Open(s) \ {fd}
      /\ t.stale = s.stale \cup (Open(s) \cap {fd})
      /\ \A x \in Fds \ {fd} : SameAt(s, t, x)
      /\ ~Both(U, fd) /\ Fit(s, U) /\ Registered(s)
      /\ fd \in Open(s) => s.ae.data[fd] = c
  BY DEF Dropped, Loose, Owns
<1> HIDE DEF fd
<1>3. Only(s, t, c)
  BY <1>2 DEF Only
<1>4. ASSUME NEW x \in Fds, t.ae.mask[x] # {}
      PROVE  x \in Open(t)
  <2>1. x # fd /\ SameAt(s, t, x)
    BY <1>2, <1>4
  <2> QED BY <1>2, <1>4, <2>1 DEF Registered, SameAt
<1>5. ASSUME NEW x \in Fds
      PROVE  FitAt(t, U, x)
  <2>1. CASE x = fd
    <3>1. (\E b \in Ev : <<fd, b>> \in U) => fd \in Open(s) \/ fd \in s.stale
      BY <1>1, <1>2 DEF Fit, FitAt
    <3>2. fd \in t.stale \/ \A b \in Ev : <<fd, b>> \notin U
      BY <1>2, <3>1
    <3> QED BY <1>2, <2>1, <3>2, FitStale
  <2>2. CASE x # fd
    <3>1. SameAt(s, t, x) /\ FitAt(s, U, x) /\ (x \in t.stale <=> x \in s.stale)
      BY <1>2, <2>2 DEF Fit
    <3>2. x \in Open(s) => x \in Sockets
      BY DEF Open
    <3>3. x \in Open(s) /\ Silent(s, x) => Silent(t, x)
      BY <3>1, <3>2 DEF SameAt, Silent
    <3> QED BY <3>1, <3>3, FitKept DEF SameAt
  <2> QED BY <2>1, <2>2
<1> QED BY <1>2, <1>3, <1>4, <1>5 DEF Registered, Fit, fd

LEMMA ConnectLoose ==
    ASSUME NEW t \in Part, NEW live, Sound(t, live), NEW c \in Conns, NEW U,
           Registered(t), Fit(t, U), ~Both(U, t.conn[c].fd), t.conn[c].fd \notin Open(t),
           NEW r \in Part, Tried(t, r, c)
    PROVE  /\ Only(t, r, c) /\ Registered(r) /\ Fit(r, U) /\ ~Both(U, r.conn[c].fd)
           /\ r.stale = t.stale
           /\ r.conn[c].fd \in Open(r) => /\ Owns(r, c) /\ Unused(r, r.conn[c].fd)
                                          /\ r.conn[c].fd \notin Open(t)
           /\ r.conn[c].parser = t.conn[c].parser /\ r.conn[c].delayed = t.conn[c].delayed
<1>0. r.stale = t.stale
  BY DEF Tried
<1>1. CASE r.ae = t.ae /\ r.net = t.net /\ r.conn = t.conn
  <2>1. Open(r) = Open(t)
    BY <1>1 DEF Open
  <2>2. Fit(r, U) /\ Registered(r)
    BY <1>0, <1>1, <2>1 DEF Fit, FitAt, Silent, Registered
  <2>3. Only(t, r, c)
    BY <1>1 DEF Only, SameAt
  <2> QED BY <1>0, <1>1, <2>1, <2>2, <2>3
<1>2. CASE \E fd \in Fds : Taken(t, r, c, fd)
  <2>1. PICK fd \in Fds : Taken(t, r, c, fd)
    BY <1>2
  <2>2. /\ fd \in Sockets /\ fd \notin Open(t) /\ Open(r) = Open(t) \cup {fd}
        /\ r.conn = [t.conn EXCEPT ![c].fd = fd]
        /\ r.net[fd] = Fresh /\ r.ae.data[fd] = c
        /\ r.ae.rproc[fd] = "socket_connected" /\ r.ae.wproc[fd] = "socket_connected"
        /\ \A x \in Fds \ {fd} : SameAt(t, r, x)
    BY <2>1 DEF Taken
  <2>3. /\ r.conn[c].fd = fd /\ \A d \in Conns \ {c} : r.conn[d] = t.conn[d]
        /\ r.conn[c].parser = t.conn[c].parser /\ r.conn[c].delayed = t.conn[c].delayed
    BY <2>2 DEF Part, Connection
  <2>4. Owns(r, c) /\ Unused(r, fd)
    BY <2>2, <2>3 DEF Owns, Unused, Silent, Fresh, Closed, Well
  <2>5. Only(t, r, c)
    BY <2>2, <2>3 DEF Only
  <2>6. ASSUME NEW x \in Fds, r.ae.mask[x] # {}
        PROVE  x \in Open(r)
    <3>1. CASE x = fd
      BY <2>2, <3>1
    <3>2. CASE x # fd
      BY <2>2, <2>6, <3>2 DEF SameAt, Registered
    <3> QED BY <3>1, <3>2
  <2>7. (\E b \in Ev : <<fd, b>> \in U) => fd \in t.stale /\ ~Both(U, fd)
    BY <2>2 DEF Fit, FitAt
  <2>8. ~Both(U, fd)
    BY <2>7 DEF Both, Ev
  <2>9. ASSUME NEW x \in Fds
        PROVE  FitAt(r, U, x)
    <3>1. CASE x = fd
      BY <1>0, <2>4, <2>7, <2>8, <3>1, FitStale DEF Unused
    <3>2. CASE x # fd
      <4>1. SameAt(t, r, x) /\ FitAt(t, U, x)
        BY <2>2, <3>2 DEF Fit
      <4>2. x \in Open(t) => x \in Sockets
        BY DEF Open
      <4>3. x \in Open(t) /\ Silent(t, x) => Silent(r, x)
        BY <4>1, <4>2 DEF SameAt, Silent
      <4> QED BY <1>0, <4>1, <4>3, FitKept DEF SameAt
    <3> QED BY <3>1, <3>2
  <2> QED BY <1>0, <2>2, <2>3, <2>4, <2>5, <2>6, <2>8, <2>9 DEF Registered, Fit
<1> QED BY <1>1, <1>2 DEF Tried

LEMMA Reconnected ==
    ASSUME NEW s, NEW c \in Conns, c \in Live, NEW U, Loose(s, c, U), NEW ok
    PROVE  LET r == reconnect_socket(s, c, ok) IN
           Loose(r, c, U) /\ Only(s, r, c) /\ Anew(s, r, c)
<1> DEFINE fd == s.conn[c].fd
           t  == close_fd(Unregister(s, fd, Ev), fd)
           r  == connect_socket(t, c, ok)
<1>1. s \in Part /\ Sound(s, Live) /\ ~Both(U, fd)
  BY DEF Loose
<1>2. /\ Keeps(s, t, c) /\ Sound(t, Live) /\ fd \in Fds /\ Dropped(s, t, fd)
      /\ \A x \in Open(t) : t.ae.data[x] # c
  BY <1>1, DropSound
<1>3. reconnect_socket(s, c, ok) = r
  BY DEF reconnect_socket
<1> HIDE DEF t
<1>4. t \in Part
  BY <1>2 DEF Keeps
<1>5. Only(s, t, c) /\ Registered(t) /\ Fit(t, U) /\ t.conn = s.conn /\ fd \notin Open(t)
  BY <1>2, <1>4, DropLoose
<1>6. Keeps(t, r, c) /\ Sound(r, Live \cup {c}) /\ Tried(t, r, c)
  BY <1>2, <1>4, ConnectSound
<1> HIDE DEF r
<1>7. r \in Part /\ Live \cup {c} = Live
  BY <1>6 DEF Keeps
<1>8. /\ Only(t, r, c) /\ Registered(r) /\ Fit(r, U) /\ ~Both(U, r.conn[c].fd)
      /\ r.stale = t.stale
      /\ r.conn[c].fd \in Open(r) => /\ Owns(r, c) /\ Unused(r, r.conn[c].fd)
                                     /\ r.conn[c].fd \notin Open(t)
      /\ r.conn[c].parser = t.conn[c].parser /\ r.conn[c].delayed = t.conn[c].delayed
  BY <1>1, <1>2, <1>4, <1>5, <1>6, <1>7, ConnectLoose
<1>9. Only(s, r, c)
  BY <1>5, <1>8, OnlyTransitive
<1>10. Loose(r, c, U)
  BY <1>6, <1>7, <1>8 DEF Loose
<1>11. Anew(s, r, c)
  <2>1. Open(t) = Open(s) \ {fd} /\ t.stale = s.stale \cup (Open(s) \cap {fd})
    BY <1>2 DEF Dropped
  <2>2. Owns(r, c) => Unused(r, r.conn[c].fd)
    BY <1>8 DEF Owns
  <2> QED BY <1>5, <1>8, <2>1, <2>2 DEF Anew, fd
<1> QED BY <1>3, <1>9, <1>10, <1>11

---------------------------------------------------------------------------
(* A step is of one connection: the others keep what they have, and what   *)
(* is due to that one changes as RequestCycle says.                        *)

Unmoved(d) ==
    /\ Works(Here', d) <=> Works(Here, d)
    /\ Works(Here, d) => Amount(Here', d, Rest(d)') = Amount(Here, d, Rest(d))

Moves(c) ==
    LET before == Amount(Here, c, Rest(c))
        after  == Amount(Here', c, Rest(c)')
    IN  \/ Unmoved(c)
        \/ ~Works(Here', c)
        \/ ~Works(Here, c) /\ after = 0
        \/ Works(Here, c) /\ before = 0 /\ after = cfg.pipeline
        \/ Works(Here, c) /\ before > 0 /\ after = before - 1

Stepped(c) ==
    /\ CycleInv' /\ KeepsHealthy
    /\ c \in Conns => Moves(c)
    /\ \A d \in Conns \ {c} : Unmoved(d)

(* What holds of c itself.                                                 *)
Own(s, c, t, b) ==
    /\ Lives(s, c, t, b)
    /\ ~cfg.delay => t = 0 /\ ~s.conn[c].delayed
    /\ cfg.answers = {"K"} => s.conn[c].parser # "dead"

LEMMA SameCfg ==
    ASSUME cfg' = cfg
    PROVE  /\ \A c \in Conns : Lives(Here, c, timers[c], Rest(c))'
                 <=> Lives(Here', c, timers'[c], Rest(c)')
           /\ Serves(Here, reader, timers[reader], buf)'
                 <=> Serves(Here', reader', timers'[reader'], buf')
BY DEF Lives, Waits, Serves, Serving, Batch, Coming, KeptAlive, Due, Left, Unsent, Owns, Silent,
   Well, Ending, Cut, Has, Alternates, Open

LEMMA PartHere == TypeOK' /\ cfg' = cfg => Here' \in Part
BY DEF TypeOK, Here, Part, Connection, BatchLen

LEMMA CycleStep ==
    ASSUME IInv, CycleInv, TypeOK', cfg' = cfg, NEW c, Only(Here, Here', c),
           Registered(Here'), Fit(Here', ToDo'), Distinct', Reading', KeepsHealthy,
           \A d \in Conns \ {c} : timers'[d] = timers[d] /\ Rest(d)' = Rest(d),
           c \in Conns => Own(Here', c, timers'[c], Rest(c)') /\ Moves(c)
    PROVE  Stepped(c)
<1>1. Here \in Part /\ Here' \in Part
  BY HereInPart, PartHere DEF IInv
<1>2. ASSUME NEW d \in Conns, d # c
      PROVE  Own(Here', d, timers'[d], Rest(d)') /\ Unmoved(d)
  <2>1. /\ timers'[d] = timers[d] /\ Rest(d)' = Rest(d) /\ Here'.conn[d] = Here.conn[d]
    BY <1>2 DEF Only
  <2>2. /\ Lives(Here', d, timers[d], Rest(d)) <=> Lives(Here, d, timers[d], Rest(d))
        /\ Works(Here', d) <=> Works(Here, d)
        /\ Works(Here, d) => Amount(Here', d, Rest(d)) = Amount(Here, d, Rest(d))
    BY <1>1, <1>2, OnlyOthers
  <2>3. Here.conn = conn
    BY DEF Here
  <2>4. /\ Lives(Here, d, timers[d], Rest(d))
        /\ ~cfg.delay => timers[d] = 0 /\ ~conn[d].delayed
        /\ cfg.answers = {"K"} => conn[d].parser # "dead"
    BY DEF CycleInv
  <2> QED BY <2>1, <2>2, <2>3, <2>4 DEF Own, Unmoved
<1>3. \A d \in Conns : Own(Here', d, timers'[d], Rest(d)')
  BY <1>2
<1>4. CycleInv'
  <2>1. Registered(Here)' /\ Fit(Here, ToDo)'
    BY DEF Registered, Fit, FitAt, Both, Silent, Open
  <2>2. Here'.conn = conn'
    BY DEF Here
  <2>3. \A d \in Conns : (/\ Lives(Here, d, timers[d], Rest(d))
                          /\ ~cfg.delay => timers[d] = 0 /\ ~conn[d].delayed
                          /\ cfg.answers = {"K"} => conn[d].parser # "dead")'
    BY <1>3, <2>2, SameCfg DEF Own
  <2> QED BY <2>1, <2>3 DEF CycleInv
<1> QED BY <1>2, <1>4 DEF Stepped

(* While the bytes c has read are parsed.                                  *)
LEMMA ReadingOf ==
    ASSUME cfg' = cfg, NEW c \in Conns, reader' = c, ~Both(ToDo', conn'[c].fd), timers'[c] = 0,
           conn'[c].fd \in Open(Here') => Owns(Here', c),
           conn'[c].parser = "dead" \/ (Owns(Here', c) /\ Serves(Here', c, timers'[c], buf'))
    PROVE  Reading'
<1>1. ~Both(ToDo, conn[reader].fd)'
  BY DEF Both
<1>2. /\ (conn[reader].fd \in Open(Here))' <=> conn'[reader'].fd \in Open(Here')
      /\ Owns(Here, reader)' <=> Owns(Here', reader')
  BY DEF Open, Owns
<1>3. Serves(Here, reader, timers[reader], buf)' <=> Serves(Here', reader', timers'[reader'], buf')
  BY SameCfg
<1> QED BY <1>1, <1>2, <1>3 DEF Reading

(* And while others move.                                                  *)
LEMMA ReadingKept ==
    ASSUME IInv, CycleInv, UNCHANGED <<cfg, step, fired, reader, buf, timers, ae>>,
           Open(Here') = Open(Here),
           \A d \in Conns : /\ conn'[d].fd = conn[d].fd /\ conn'[d].parser = conn[d].parser
                            /\ Lives(Here', d, timers[d], Rest(d))
    PROVE  Reading'
<1> SUFFICES ASSUME step = "inR" PROVE Reading'
  BY DEF Reading
<1>1. reader \in Conns /\ Rest(reader) = buf
  BY DEF IInv, TypeOK, Rest
<1>2. /\ ~Both(ToDo, conn[reader].fd) /\ timers[reader] = 0
      /\ conn[reader].fd \in Open(Here) => Owns(Here, reader)
      /\ conn[reader].parser = "dead" \/
           (Owns(Here, reader) /\ Serves(Here, reader, timers[reader], buf))
  BY DEF CycleInv, Reading
<1>3. ToDo' = ToDo
  BY DEF ToDo
<1>4. Owns(Here', reader) <=> Owns(Here, reader)
  BY <1>1 DEF Owns, Here
<1>5. ASSUME Owns(Here, reader), Serves(Here, reader, timers[reader], buf)
      PROVE  Serves(Here', reader, timers[reader], buf)
  <2>1. Waits(Here', reader, timers[reader]) \/ Serves(Here', reader, timers[reader], buf)
    BY <1>1, <1>4, <1>5 DEF Lives
  <2>2. ae.rproc[conn[reader].fd] = "socket_readable"
    BY <1>5 DEF Serves, Here
  <2>3. ~Waits(Here', reader, timers[reader])
    BY <1>1, <2>2 DEF Waits, Silent, Here
  <2> QED BY <2>1, <2>3
<1> QED BY <1>1, <1>2, <1>3, <1>4, <1>5, ReadingOf

---------------------------------------------------------------------------
(* What a handler may count on when it is called for c.                    *)

LEMMA ToDoHas ==
    ASSUME NEW fd \in Fds, NEW b \in Ev
    PROVE  <<fd, b>> \in ToDo <=> \E i \in DOMAIN fired :
               fired[i].fd = fd /\ b \in fired[i].mask /\ (i > 1 \/ step = "R" \/ b = "W")
BY DEF ToDo

LEMMA ToDoHasNext ==
    ASSUME NEW fd \in Fds, NEW b \in Ev
    PROVE  <<fd, b>> \in ToDo' <=> \E i \in DOMAIN fired' :
               fired'[i].fd = fd /\ b \in fired'[i].mask /\ (i > 1 \/ step' = "R" \/ b = "W")
BY DEF ToDo

LEMMA ToDoTyped == ToDo \subseteq Fds \X Ev /\ ToDo' \subseteq Fds \X Ev
BY DEF ToDo

(* Nothing is added to what is to do by going on.                          *)
LEMMA ToDoOnward ==
    ASSUME fired \in Seq(Entry), Distinct,
           \/ fired' = fired /\ (step' = "R" => step = "R")
           \/ fired # <<>> /\ fired' = Tail(fired)
    PROVE  /\ ToDo' \subseteq ToDo /\ Distinct'
<1>1. CASE fired' = fired /\ (step' = "R" => step = "R")
  <2>1. ASSUME NEW fd \in Fds, NEW b \in Ev, <<fd, b>> \in ToDo'
        PROVE  <<fd, b>> \in ToDo
    BY <1>1, <2>1, ToDoHas, ToDoHasNext
  <2> QED BY <1>1, <2>1, ToDoTyped DEF Distinct
<1>2. CASE fired # <<>> /\ fired' = Tail(fired)
  <2>1. \A i \in DOMAIN fired' : i + 1 \in DOMAIN fired /\ i + 1 > 1 /\ fired'[i] = fired[i + 1]
    BY <1>2
  <2>2. \A i, j \in DOMAIN fired' : i # j => i + 1 # j + 1
    BY <1>2
  <2>3. ASSUME NEW fd \in Fds, NEW b \in Ev, <<fd, b>> \in ToDo'
        PROVE  <<fd, b>> \in ToDo
    <3>1. PICK i \in DOMAIN fired' : fired'[i].fd = fd /\ b \in fired'[i].mask
      BY <2>3, ToDoHasNext
    <3>2. i + 1 \in DOMAIN fired /\ i + 1 > 1 /\ fired[i + 1].fd = fd /\ b \in fired[i + 1].mask
      BY <2>1, <3>1
    <3> QED BY <3>2, ToDoHas
  <2>4. Distinct'
    BY <2>1, <2>2 DEF Distinct
  <2> QED BY <2>3, <2>4, ToDoTyped
<1> QED BY <1>1, <1>2

LEMMA ReadableToDo ==
    ASSUME fired \in Seq(Entry), fired # <<>>, Distinct, step = "R", fired' = fired, step' # "R",
           CalledOn \in Fds, "R" \in Head(fired).mask
    PROVE  /\ <<CalledOn, "R">> \in ToDo /\ ToDo' \subseteq ToDo /\ Distinct'
           /\ <<CalledOn, "R">> \notin ToDo'
<1>1. fired[1] = Head(fired) /\ 1 \in DOMAIN fired /\ "R" \in Ev
  BY DEF Ev
<1>2. <<CalledOn, "R">> \in ToDo
  BY <1>1, ToDoHas DEF CalledOn
<1>3. ASSUME <<CalledOn, "R">> \in ToDo'
      PROVE  FALSE
  <2>1. PICK i \in DOMAIN fired : fired[i].fd = CalledOn /\ "R" \in fired[i].mask /\ i > 1
    BY <1>1, <1>3, ToDoHasNext
  <2> QED BY <1>1, <2>1 DEF Distinct, CalledOn
<1> QED BY <1>2, <1>3, ToDoOnward

LEMMA WritableToDo ==
    ASSUME fired \in Seq(Entry), fired # <<>>, Distinct, fired' = Tail(fired),
           CalledOn \in Fds, "W" \in Head(fired).mask
    PROVE  /\ <<CalledOn, "W">> \in ToDo /\ ToDo' \subseteq ToDo /\ Distinct'
           /\ <<CalledOn, "W">> \notin ToDo'
<1>1. fired[1] = Head(fired) /\ 1 \in DOMAIN fired /\ "W" \in Ev
  BY DEF Ev
<1>2. <<CalledOn, "W">> \in ToDo
  BY <1>1, ToDoHas DEF CalledOn
<1>3. ASSUME <<CalledOn, "W">> \in ToDo'
      PROVE  FALSE
  <2>1. PICK i \in DOMAIN fired' : fired'[i].fd = CalledOn /\ "W" \in fired'[i].mask
    BY <1>1, <1>3, ToDoHasNext
  <2>2. i + 1 \in DOMAIN fired /\ i + 1 # 1 /\ fired'[i] = fired[i + 1]
    BY <2>1
  <2> QED BY <1>1, <2>1, <2>2 DEF Distinct, CalledOn
<1> QED BY <1>2, <1>3, ToDoOnward

CalledFor(proc, c) ==
    \/ CallReadable(proc, c) /\ step' \in {"W", "inR"}
    \/ CallWritable(proc, c)

LEMMA Dispatched ==
    ASSUME IInv, CycleInv, NEW proc, NEW c \in Conns, CalledFor(proc, c)
    PROVE  LET fd == conn[c].fd IN
           /\ c \in Live /\ CalledOn = fd /\ fd \in Fds /\ Owns(Here, c) /\ step # "inR"
           /\ Loose(Here, c, ToDo') /\ ToDo' \subseteq ToDo /\ Distinct' /\ FitAt(Here, ToDo', fd)
           /\ \A d \in Conns : Rest(d) = <<>>
           /\ proc = "socket_connected" =>
                /\ Waits(Here, c, timers[c])
                /\ fd \in stale => \A b \in Ev : <<fd, b>> \notin ToDo'
           /\ proc = "socket_writeable" =>
                /\ Serves(Here, c, timers[c], <<>>) /\ CallWritable(proc, c)
                /\ "W" \in ae.mask[fd] /\ net[fd].state # "connecting"
           /\ proc = "socket_readable" =>
                /\ Serves(Here, c, timers[c], <<>>) /\ CallReadable(proc, c)
                /\ net[fd].state # "connecting" /\ <<fd, "R">> \notin ToDo'
                /\ net[fd].in # <<>> \/ net[fd].eof \/ net[fd].state # "up"
<1> DEFINE fd == conn[c].fd
<1>1. /\ fired \in Seq(Entry) /\ fired # <<>> /\ Head(fired) \in Entry /\ c \in Live
      /\ CalledOn \in Fds /\ (CalledOn \in Open(Here) => fd = CalledOn)
      /\ step \in {"R", "W"} /\ ae.data[CalledOn] = c
  BY Entering DEF CalledFor, CallReadable, CallWritable, CalledOn, IInv, TypeOK
<1>2. Here \in Part /\ Sound(Here, Live) /\ Here.conn = conn /\ Here.ae = ae /\ Here.net = net
      /\ Here.stale = stale
  BY HereInPart DEF IInv, Here
<1>3. /\ Registered(Here) /\ Fit(Here, ToDo) /\ Distinct
      /\ Lives(Here, c, timers[c], Rest(c))
  BY DEF CycleInv
<1>4. PICK b \in Ev :
        /\ <<CalledOn, b>> \in ToDo /\ ToDo' \subseteq ToDo /\ Distinct'
        /\ <<CalledOn, b>> \notin ToDo' /\ b \in ae.mask[CalledOn]
        /\ proc = IF b = "R" THEN ae.rproc[CalledOn] ELSE ae.wproc[CalledOn]
        /\ IF b = "R" THEN CallReadable(proc, c) ELSE CallWritable(proc, c)
  <2>1. CASE CallReadable(proc, c) /\ step' \in {"W", "inR"}
    <3>1. /\ step = "R" /\ fired' = fired /\ step' # "R" /\ "R" \in Head(fired).mask
          /\ "R" \in ae.mask[CalledOn] /\ proc = ae.rproc[CalledOn] /\ "R" \in Ev
      BY <2>1 DEF CallReadable, CallsReadable, CalledOn, Ev
    <3> QED BY <1>1, <1>3, <2>1, <3>1, ReadableToDo
  <2>2. CASE CallWritable(proc, c)
    <3>1. /\ fired' = Tail(fired) /\ "W" \in Head(fired).mask
          /\ "W" \in ae.mask[CalledOn] /\ proc = ae.wproc[CalledOn] /\ "W" \in Ev
      BY <2>2 DEF CallWritable, CallsWritable, CalledOn, Ev, NextEntry
    <3> QED BY <1>1, <1>3, <2>2, <3>1, WritableToDo
  <2> QED BY <2>1, <2>2 DEF CalledFor
<1>5. CalledOn \in Open(Here) /\ CalledOn = fd
  BY <1>1, <1>2, <1>3, <1>4 DEF Registered
<1> HIDE DEF fd
<1>6. Owns(Here, c)
  BY <1>1, <1>2, <1>5 DEF Owns, fd
<1>7. FitAt(Here, ToDo, fd)
  BY <1>1, <1>3, <1>5 DEF Fit
<1>8. Fit(Here, ToDo')
  <2> SUFFICES ASSUME NEW x \in Fds PROVE FitAt(Here, ToDo', x)
    BY DEF Fit
  <2>1. FitAt(Here, ToDo, x)
    BY <1>3 DEF Fit
  <2> QED BY <1>4, <2>1, FitKept
<1>9. ~Both(ToDo', fd)
  BY <1>4, <1>5 DEF Both, Ev
<1>10. Loose(Here, c, ToDo')
  BY <1>2, <1>3, <1>6, <1>8, <1>9 DEF Loose, fd
<1>11. \A d \in Conns : Rest(d) = <<>>
  <2>1. reader = NoOwner
    BY <1>1 DEF IInv, TypeOK
  <2> QED BY <2>1, NoneAssumption DEF Rest, Conns
<1>12. Waits(Here, c, timers[c]) \/ Serves(Here, c, timers[c], <<>>)
  BY <1>3, <1>6, <1>11 DEF Lives
<1>13. /\ Waits(Here, c, timers[c]) =>
            ae.rproc[fd] = "socket_connected" /\ ae.wproc[fd] = "socket_connected"
       /\ Serves(Here, c, timers[c], <<>>) =>
            ae.rproc[fd] = "socket_readable" /\ ae.wproc[fd] = "socket_writeable"
  BY <1>2 DEF Waits, Serves, Silent, fd
<1>14. proc = "socket_connected" /\ fd \in stale => \A x \in Ev : <<fd, x>> \notin ToDo'
  <2>1. fd \in stale => ~Both(ToDo, fd)
    BY <1>2, <1>4, <1>5, <1>7 DEF FitAt
  <2>2. fd \in stale => \A x \in Ev : <<fd, x>> \notin ToDo'
    BY <1>4, <1>5, <2>1 DEF Both, Ev
  <2> QED BY <2>2
<1>15. ASSUME proc # "socket_connected", proc \in {"socket_writeable", "socket_readable"}
       PROVE  /\ Serves(Here, c, timers[c], <<>>) /\ net[fd].state # "connecting"
              /\ b = IF proc = "socket_readable" THEN "R" ELSE "W"
              /\ b = "R" => net[fd].in # <<>> \/ net[fd].eof \/ net[fd].state # "up"
  <2>1. /\ Serves(Here, c, timers[c], <<>>)
        /\ b = IF proc = "socket_readable" THEN "R" ELSE "W"
    BY <1>4, <1>5, <1>12, <1>13, <1>15 DEF Ev
  <2>2. fd \notin stale
    <3>1. ~Silent(Here, fd)
      BY <1>2, <1>13, <2>1 DEF Silent
    <3> QED BY <1>2, <1>4, <1>5, <1>7, <3>1 DEF FitAt
  <2>3. /\ net[fd].state # "connecting"
        /\ b = "R" => net[fd].in # <<>> \/ net[fd].eof \/ net[fd].state # "up"
    BY <1>2, <1>4, <1>5, <1>7, <2>2 DEF FitAt
  <2> QED BY <2>1, <2>3
<1>16. FitAt(Here, ToDo', fd)
  BY <1>1, <1>5, <1>8 DEF Fit
<1>17. proc = "socket_connected" => Waits(Here, c, timers[c])
  BY <1>4, <1>5, <1>12, <1>13
<1> QED BY <1>1, <1>4, <1>5, <1>6, <1>10, <1>11, <1>14, <1>15, <1>16, <1>17 DEF fd

---------------------------------------------------------------------------
(* The handlers' steps: those that give c a new socket, and those that     *)
(* keep the one it has.                                                    *)

LEMMA HereBecomes ==
    ASSUME NEW r \in Part, Become(r)
    PROVE  /\ Here' = r /\ ae' = r.ae /\ net' = r.net /\ conn' = r.conn /\ stale' = r.stale
BY DEF Here, Become, Part

LEMMA HereIs ==
    /\ Here.ae = ae /\ Here.net = net /\ Here.conn = conn /\ Here.stale = stale
    /\ Here'.ae = ae' /\ Here'.net = net' /\ Here'.conn = conn' /\ Here'.stale = stale'
BY DEF Here

LEMMA CutStep ==
    ASSUME IInv, TypeOK', CycleInv, cfg' = cfg, NEW c \in Conns, c \in Live,
           NEW s, Loose(s, c, ToDo'), Only(Here, s, c),
           NEW ok, Become(reconnect_socket(s, c, ok)),
           timers' = timers, timers[c] = 0, Distinct',
           ~cfg.delay => ~s.conn[c].delayed,
           cfg.answers = {"K"} => s.conn[c].parser # "dead",
           \A d \in Conns \ {c} : Rest(d)' = Rest(d),
           step' = "inR" => reader' = c /\ s.conn[c].parser = "dead",
           \A x \in Sockets : x \in (s.stale \ stale) \cup ({s.conn[c].fd} \cap Open(s)) =>
                cfg.ssl \/ cfg.answers # {"K"} \/ ~Healthy(x)
    PROVE  Stepped(c)
<1> DEFINE r == reconnect_socket(s, c, ok)
<1>1. Loose(r, c, ToDo') /\ Only(s, r, c) /\ Anew(s, r, c)
  BY Reconnected
<1> HIDE DEF r
<1>2. r \in Part /\ Become(r)
  BY <1>1 DEF Loose, r
<1>3. Here' = r /\ conn' = r.conn /\ stale' = r.stale
  BY <1>2, HereBecomes
<1>4. Only(Here, Here', c)
  BY <1>1, <1>3, OnlyTransitive
<1>5. Registered(Here') /\ Fit(Here', ToDo') /\ ~Both(ToDo', conn'[c].fd)
      /\ (conn'[c].fd \in Open(Here') => Owns(Here', c))
  BY <1>1, <1>3 DEF Loose
<1>6. Own(Here', c, timers'[c], Rest(c)')
  BY <1>1, <1>3 DEF Own, Lives, Waits, Anew, Unused
<1>7. Moves(c)
  <2>1. ~Works(Here', c)
    BY <1>1, <1>3 DEF Works, Anew, Unused, Silent
  <2> QED BY <2>1 DEF Moves
<1>8. Reading'
  <2>1. step' = "inR" => reader' = c /\ conn'[c].parser = "dead"
    BY <1>1, <1>3 DEF Anew
  <2>2. CASE step' = "inR"
    BY <1>5, <2>1, <2>2, ReadingOf
  <2>3. CASE step' # "inR"
    BY <2>3 DEF Reading
  <2> QED BY <2>2, <2>3
<1>9. KeepsHealthy
  <2>1. stale' \ stale \subseteq (s.stale \ stale) \cup ({s.conn[c].fd} \cap Open(s))
    BY <1>1, <1>3 DEF Anew
  <2> QED BY <2>1 DEF KeepsHealthy
<1> QED BY <1>4, <1>5, <1>6, <1>7, <1>8, <1>9, CycleStep

LEMMA KeptStep ==
    ASSUME IInv, TypeOK', CycleInv, cfg' = cfg, NEW c \in Conns, Kept(Here, Here', c),
           Fit(Here', ToDo'), Distinct', Reading',
           \A d \in Conns \ {c} : timers'[d] = timers[d] /\ Rest(d)' = Rest(d),
           Own(Here', c, timers'[c], Rest(c)'), Moves(c)
    PROVE  Stepped(c)
<1>1. Only(Here, Here', c) /\ Registered(Here') /\ stale' = stale
  BY HereIs DEF Kept, CycleInv
<1>2. KeepsHealthy
  BY <1>1 DEF KeepsHealthy
<1> QED BY <1>1, <1>2, CycleStep

(* Its struct changes, not its descriptor.                                 *)
LEMMA StructEffect ==
    ASSUME NEW s \in Part, Sound(s, Live), NEW c \in Conns, Owns(s, c),
           NEW k \in Connection, k.fd = s.conn[c].fd
    PROVE  LET r == [s EXCEPT !.conn[c] = k] IN
           /\ Kept(s, r, c) /\ r.conn[c] = k /\ r.net = s.net /\ r.ae = s.ae
<1> DEFINE r == [s EXCEPT !.conn[c] = k]
           n == s.net[s.conn[c].fd]
<1>1. /\ r \in Part /\ r.ae = s.ae /\ r.stale = s.stale /\ r.net = s.net
      /\ r.conn = [s.conn EXCEPT ![c] = k]
  BY DEF Part
<1>2. s.conn[c].fd \in Sockets /\ n \in Socket /\ n.state # "closed"
  BY DEF Owns, Open, Part
<1>3. \A d \in Conns : r.conn[d] = IF d = c THEN k ELSE s.conn[d]
  BY <1>1 DEF Part
<1>4. \A x \in Sockets : r.net[x] = IF x = s.conn[c].fd THEN n ELSE s.net[x]
  BY <1>1
<1>5. n.state = "connecting" => s.net[s.conn[c].fd].state = "connecting"
  OBVIOUS
<1> HIDE DEF r, n
<1>6. Kept(s, r, c) /\ r.conn[c] = k /\ r.net[s.conn[c].fd] = n
  <2>1. PICK q \in Part : q = r
    BY <1>1
  <2>2. PICK m \in Socket : m = n
    BY <1>2
  <2>4. /\ m.state # "closed" /\ (m.state = "connecting" => s.net[s.conn[c].fd].state = "connecting")
        /\ q.ae = s.ae /\ q.stale = s.stale
        /\ \A d \in Conns : q.conn[d] = IF d = c THEN k ELSE s.conn[d]
        /\ \A x \in Sockets : q.net[x] = IF x = s.conn[c].fd THEN m ELSE s.net[x]
    BY <1>1, <1>2, <1>3, <1>4, <1>5, <2>1, <2>2
  <2>3. Kept(s, q, c) /\ q.conn[c] = k /\ q.net[s.conn[c].fd] = m
    BY <2>4, AlterEffect
  <2> QED BY <2>1, <2>2, <2>3
<1> QED BY <1>1, <1>6 DEF r

(* When nothing moves.                                                     *)
LEMMA StillUnmoved ==
    ASSUME NEW c \in Conns, Here' = Here, Rest(c)' = Rest(c)
    PROVE  Unmoved(c) /\ Moves(c)
BY DEF Unmoved, Moves

LEMMA StillKept ==
    ASSUME IInv, NEW c \in Conns, Owns(Here, c)
    PROVE  Kept(Here, Here, c)
BY HereInPart DEF IInv, Kept, Only, SameAt, Owns

LEMMA QuietRest ==
    ASSUME UNCHANGED quietVars
    PROVE  /\ timers' = timers /\ cfg' = cfg /\ todo' = todo
           /\ \A d \in Conns : Rest(d)' = Rest(d) /\ timers'[d] = timers[d]
BY DEF quietVars, Rest

LEMMA NotReading ==
    ASSUME NEW proc, NEW c, Called(proc, c)
    PROVE  Reading' /\ step' # "inR"
BY DEF Called, CallWritable, NextEntry, Reading

LEMMA StillStep ==
    ASSUME IInv, TypeOK', CycleInv, cfg' = cfg, NEW c \in Conns, Owns(Here, c), Become(Here),
           Fit(Here, ToDo'), Distinct', Reading', timers' = timers,
           \A d \in Conns : Rest(d)' = Rest(d)
    PROVE  Stepped(c)
<1>1. Here' = Here
  BY HereInPart, HereBecomes DEF IInv
<1>2. Kept(Here, Here', c) /\ Fit(Here', ToDo')
  BY <1>1, StillKept
<1>3. Own(Here', c, timers'[c], Rest(c)')
  <2>1. Own(Here, c, timers[c], Rest(c))
    BY HereIs DEF CycleInv, Own
  <2> QED BY <1>1, <2>1
<1>4. Moves(c)
  BY <1>1, StillUnmoved
<1> QED BY <1>2, <1>3, <1>4, KeptStep

LEMMA ErrorStep ==
    ASSUME IInv, TypeOK', CycleInv, cfg' = cfg, NEW c \in Conns, c \in Live,
           NEW s, Loose(s, c, ToDo'), Only(Here, s, c), NEW e \in ErrorKinds,
           NEW ok, Become(reconnect_socket(Count(s, e), c, ok)),
           timers' = timers, timers[c] = 0, Distinct',
           ~cfg.delay => ~s.conn[c].delayed,
           cfg.answers = {"K"} => s.conn[c].parser # "dead",
           \A d \in Conns \ {c} : Rest(d)' = Rest(d), step' # "inR",
           \A x \in Sockets : x \in (s.stale \ stale) \cup ({s.conn[c].fd} \cap Open(s)) =>
                cfg.ssl \/ cfg.answers # {"K"} \/ ~Healthy(x)
    PROVE  Stepped(c)
<1> DEFINE r == Count(s, e)
<1>1. /\ Loose(r, c, ToDo') /\ Only(s, r, c)
      /\ r.ae = s.ae /\ r.net = s.net /\ r.conn = s.conn /\ r.stale = s.stale
  BY LooseCount
<1>2. Become(reconnect_socket(r, c, ok))
  OBVIOUS
<1> HIDE DEF r
<1>3. Only(Here, r, c)
  BY <1>1, OnlyTransitive
<1>4. Open(r) = Open(s)
  BY <1>1 DEF Open
<1> QED BY <1>1, <1>2, <1>3, <1>4, CutStep

(* What c's error path keeps to itself.                                    *)
LEMMA OnlySelf ==
    ASSUME NEW s, NEW c
    PROVE  Only(s, s, c)
BY DEF Only, SameAt

LEMMA ArmWrite ==
    ASSUME NEW s \in Part, Sound(s, Live), NEW c \in Conns, c \in Live, Owns(s, c),
           NEW fd, fd = s.conn[c].fd
    PROVE  LET r == Register(s, fd, {"W"}, "socket_writeable", c) IN
           /\ Kept(s, r, c) /\ r.net = s.net /\ r.conn = s.conn
           /\ r.ae.mask[fd] = s.ae.mask[fd] \cup {"W"}
           /\ r.ae.rproc[fd] = s.ae.rproc[fd]
           /\ r.ae.wproc[fd] = "socket_writeable"
<1>1. PICK m \in Masks : m = {"W"} /\ "R" \notin m /\ "W" \in m
  BY DEF Masks, Ev
<1>2. PICK p \in Procs : p = "socket_writeable"
  BY WorkerAssumption
<1> DEFINE r == Register(s, fd, m, p, c)
<1>3. /\ Kept(s, r, c) /\ r.net = s.net /\ r.conn = s.conn
      /\ r.ae.mask[fd] = s.ae.mask[fd] \cup m
      /\ r.ae.rproc[fd] = IF "R" \in m THEN p ELSE s.ae.rproc[fd]
      /\ r.ae.wproc[fd] = IF "W" \in m THEN p ELSE s.ae.wproc[fd]
  BY ArmEffect
<1>4. r = Register(s, fd, {"W"}, "socket_writeable", c)
  BY <1>1, <1>2
<1> HIDE DEF r
<1>5. /\ Kept(s, r, c) /\ r.net = s.net /\ r.conn = s.conn
      /\ r.ae.mask[fd] = s.ae.mask[fd] \cup {"W"}
      /\ r.ae.rproc[fd] = s.ae.rproc[fd]
      /\ r.ae.wproc[fd] = "socket_writeable"
  BY <1>1, <1>2, <1>3
<1> QED BY <1>4, <1>5

LEMMA DisarmWrite ==
    ASSUME NEW s \in Part, Sound(s, Live), NEW c \in Conns, c \in Live, Owns(s, c),
           NEW fd, fd = s.conn[c].fd
    PROVE  LET r == Unregister(s, fd, {"W"}) IN
           /\ Kept(s, r, c) /\ r.net = s.net /\ r.conn = s.conn
           /\ "W" \notin r.ae.mask[fd]
           /\ r.ae.rproc = s.ae.rproc /\ r.ae.wproc = s.ae.wproc
BY DisarmEffect

LEMMA ArmRead ==
    ASSUME NEW s \in Part, Sound(s, Live), NEW c \in Conns, c \in Live, Owns(s, c),
           NEW fd, fd = s.conn[c].fd
    PROVE  LET r == Register(s, fd, {"R"}, "socket_readable", c) IN
           /\ Kept(s, r, c) /\ r.net = s.net /\ r.conn = s.conn
           /\ r.ae.rproc[fd] = "socket_readable"
<1>1. PICK m \in Masks : m = {"R"} /\ "R" \in m
  BY DEF Masks, Ev
<1>2. PICK p \in Procs : p = "socket_readable"
  BY WorkerAssumption
<1> DEFINE r == Register(s, fd, m, p, c)
<1>3. /\ Kept(s, r, c) /\ r.net = s.net /\ r.conn = s.conn
      /\ r.ae.rproc[fd] = IF "R" \in m THEN p ELSE s.ae.rproc[fd]
  BY ArmEffect
<1>4. r = Register(s, fd, {"R"}, "socket_readable", c)
  BY <1>1, <1>2
<1> HIDE DEF r
<1>5. /\ Kept(s, r, c) /\ r.net = s.net /\ r.conn = s.conn
      /\ r.ae.rproc[fd] = "socket_readable"
  BY <1>1, <1>2, <1>3
<1> QED BY <1>4, <1>5

LEMMA ArmedEffect ==
    ASSUME NEW s \in Part, Sound(s, Live), NEW c \in Conns, c \in Live, Owns(s, c),
           NEW fd, fd = s.conn[c].fd
    PROVE  LET r == Armed(s, fd, c) IN
           /\ Kept(s, r, c) /\ r.net = s.net /\ r.conn = s.conn
           /\ "W" \in r.ae.mask[fd]
           /\ r.ae.rproc[fd] = "socket_readable" /\ r.ae.wproc[fd] = "socket_writeable"
<1> DEFINE t  == Register(s, fd, {"R"}, "socket_readable", c)
           r  == Register(t, fd, {"W"}, "socket_writeable", c)
<1>2. /\ Kept(s, t, c) /\ t.net = s.net /\ t.conn = s.conn
      /\ t.ae.rproc[fd] = "socket_readable"
  BY ArmRead
<1> HIDE DEF t
<1>3. t \in Part /\ Sound(t, Live) /\ Owns(t, c) /\ fd = t.conn[c].fd
  BY <1>2 DEF Kept
<1>4. /\ Kept(t, r, c) /\ r.net = t.net /\ r.conn = t.conn
      /\ r.ae.mask[fd] = t.ae.mask[fd] \cup {"W"}
      /\ r.ae.rproc[fd] = t.ae.rproc[fd]
      /\ r.ae.wproc[fd] = "socket_writeable"
  BY <1>3, ArmWrite
<1> HIDE DEF r
<1>5. Kept(s, r, c)
  BY <1>2, <1>4, KeptTransitive
<1> QED BY <1>2, <1>4, <1>5 DEF Armed, r, t

(* The kernel has the same of c's socket.                                  *)
LEMMA SameFit ==
    ASSUME NEW s, NEW r, NEW c, Kept(s, r, c), r.net = s.net, NEW U, Fit(s, U),
           s.conn[c].fd \in Fds, \A b \in Ev : <<s.conn[c].fd, b>> \in U => s.conn[c].fd \notin s.stale
    PROVE  Fit(r, U)
<1> DEFINE fd == s.conn[c].fd
<1>1. FitAt(s, U, fd) /\ r.stale = s.stale /\ Open(r) = Open(s)
  BY DEF Fit, Kept, Open
<1>2. FitAt(r, U, fd)
  BY <1>1 DEF FitAt
<1> QED BY <1>2, KeptFit

LEMMA ServesBy ==
    ASSUME NEW s, NEW c, NEW t, NEW b, NEW w \in BOOLEAN, NEW u, NEW fd, fd = s.conn[c].fd,
           s.ae.rproc[fd] = "socket_readable", s.ae.wproc[fd] = "socket_writeable",
           w <=> "W" \in s.ae.mask[fd], u = b \o s.net[fd].in,
           Serving(s.conn[c], s.net[fd], w, t, u)
    PROVE  Serves(s, c, t, b)
<1>1. ("W" \in s.ae.mask[fd]) = w
  BY Zenon
<1>2. Serving(s.conn[c], s.net[fd], "W" \in s.ae.mask[fd], t, b \o s.net[fd].in)
  BY <1>1
<1> QED BY <1>2 DEF Serves

LEMMA ServesSays ==
    ASSUME NEW s, NEW c, NEW t, NEW b, Serves(s, c, t, b), NEW fd, fd = s.conn[c].fd
    PROVE  /\ s.ae.rproc[fd] = "socket_readable" /\ s.ae.wproc[fd] = "socket_writeable"
           /\ \E w \in BOOLEAN : /\ w <=> "W" \in s.ae.mask[fd]
                                 /\ Serving(s.conn[c], s.net[fd], w, t, b \o s.net[fd].in)
<1>1. /\ s.ae.rproc[fd] = "socket_readable" /\ s.ae.wproc[fd] = "socket_writeable"
      /\ Serving(s.conn[c], s.net[fd], "W" \in s.ae.mask[fd], t, b \o s.net[fd].in)
  BY DEF Serves
<1>2. CASE "W" \in s.ae.mask[fd]
  <2>1. ("W" \in s.ae.mask[fd]) = TRUE
    BY <1>2
  <2>2. Serving(s.conn[c], s.net[fd], TRUE, t, b \o s.net[fd].in)
    BY <1>1, <2>1
  <2> QED BY <1>1, <1>2, <2>2
<1>3. CASE "W" \notin s.ae.mask[fd]
  <2>1. ("W" \in s.ae.mask[fd]) = FALSE
    BY <1>3
  <2>2. Serving(s.conn[c], s.net[fd], FALSE, t, b \o s.net[fd].in)
    BY <1>1, <2>1
  <2> QED BY <1>1, <1>3, <2>2
<1> QED BY <1>2, <1>3

LEMMA Nothing == <<>> \o <<>> = <<>>
OBVIOUS

LEMMA ServesStream ==
    ASSUME NEW s, NEW c, NEW t, Serves(s, c, t, <<>>), NEW fd, fd = s.conn[c].fd,
           s.net[fd].in \in Seq(Tokens)
    PROVE  /\ s.ae.rproc[fd] = "socket_readable" /\ s.ae.wproc[fd] = "socket_writeable"
           /\ \E w \in BOOLEAN : /\ w <=> "W" \in s.ae.mask[fd]
                                 /\ Serving(s.conn[c], s.net[fd], w, t, s.net[fd].in)
<1>1. PICK b : b = <<>>
  OBVIOUS
<1>2. Serves(s, c, t, b)
  BY <1>1
<1>3. b \o s.net[fd].in = s.net[fd].in
  BY <1>1
<1>4. /\ s.ae.rproc[fd] = "socket_readable" /\ s.ae.wproc[fd] = "socket_writeable"
      /\ \E w \in BOOLEAN : /\ w <=> "W" \in s.ae.mask[fd]
                            /\ Serving(s.conn[c], s.net[fd], w, t, b \o s.net[fd].in)
  BY <1>2, ServesSays
<1> QED BY <1>3, <1>4

LEMMA ConnectedStep ==
    ASSUME IInv, TypeOK', CycleInv, NEW c \in Conns, SocketConnected(c)
    PROVE  Stepped(c)
<1> DEFINE fd == conn[c].fd
<1>1. Called("socket_connected", c) /\ UNCHANGED quietVars
  BY DEF SocketConnected
<1>2. Reading' /\ step' # "inR"
  BY <1>1, NotReading
<1>3. CalledFor("socket_connected", c)
  BY <1>1 DEF Called, CalledFor
<1>4. /\ c \in Live /\ CalledOn = fd /\ fd \in Fds /\ Owns(Here, c)
      /\ Loose(Here, c, ToDo') /\ Distinct'
      /\ Waits(Here, c, timers[c])
      /\ fd \in stale => \A b \in Ev : <<fd, b>> \notin ToDo'
      /\ \A d \in Conns : Rest(d) = <<>>
  BY <1>3, Dispatched
<1>5. /\ timers' = timers /\ cfg' = cfg
      /\ \A d \in Conns : Rest(d)' = Rest(d) /\ timers'[d] = timers[d]
  BY <1>1, QuietRest
<1>6. Here \in Part /\ Sound(Here, Live) /\ TypeOK /\ fd = Here.conn[c].fd
  BY HereInPart, HereIs DEF IInv
<1>7. /\ ~cfg.delay => timers[c] = 0 /\ ~conn[c].delayed
      /\ cfg.answers = {"K"} => conn[c].parser # "dead"
  BY DEF CycleInv
<1>8. /\ Silent(Here, fd) /\ timers[c] = 0 /\ (cfg.delay => Well(net[fd]))
      /\ ae.rproc[fd] = "socket_connected" /\ net[fd].owed = 0 /\ net[fd].in = <<>>
  BY <1>4, HereIs DEF Waits, Silent
<1>9. PICK q \in ConnectResults, ok \in Connecting :
        CASE q = "RETRY" -> Become(Here)
          [] q = "ERROR" -> Become(reconnect_socket(Count(Here, "connect"), c, ok))
          [] q = "OK"    -> Become(Connected(CalledOn, c))
  BY DEF SocketConnected, CalledOn
<1>10. CASE q = "RETRY"
  <2>1. Fit(Here, ToDo') /\ Become(Here)
    BY <1>4, <1>9, <1>10 DEF Loose
  <2> QED BY <1>2, <1>4, <1>5, <2>1, StillStep
<1>11. CASE q = "ERROR"
  <2>1. Become(reconnect_socket(Count(Here, "connect"), c, ok)) /\ cfg.ssl /\ "connect" \in ErrorKinds
    BY <1>9, <1>11 DEF ConnectResults, ErrorKinds
  <2>2. Only(Here, Here, c)
    BY OnlySelf
  <2> QED BY <1>2, <1>4, <1>5, <1>7, <1>8, <2>1, <2>2, HereIs, ErrorStep
<1>12. CASE q = "OK"
  <2> DEFINE k == [conn[c] EXCEPT !.parser = "start", !.written = 0]
             e == [Here EXCEPT !.conn[c].parser = "start", !.conn[c].written = 0]
             s == [Here EXCEPT !.conn[c] = k]
             r == Armed(s, fd, c)
             n == net[fd]
  <2>1. /\ k \in Connection /\ k.fd = Here.conn[c].fd /\ k.fd = fd /\ e = s
        /\ k.parser = "start" /\ k.written = 0 /\ k.delayed = conn[c].delayed
        /\ n \in Socket
    <3>1. conn[c] \in Connection /\ 0 \in 0 .. BatchLen - 1
      BY <1>6, ConfigTyped DEF TypeOK
    <3>2. n \in Socket
      BY <1>4, <1>6, HereIs DEF Owns, Open, Part
    <3> QED BY <1>6, <3>1, <3>2, HereIs DEF Connection, Part
  <2>2. Become(r)
    <3>1. Become(Armed(e, fd, c))
      BY <1>4, <1>9, <1>12 DEF Connected
    <3> QED BY <2>1, <3>1
  <2> HIDE DEF k, e
  <2>3. /\ Kept(Here, s, c) /\ s.conn[c] = k /\ s.net = Here.net /\ s.ae = Here.ae
    BY <1>4, <1>6, <2>1, StructEffect
  <2> HIDE DEF s
  <2>4. s \in Part /\ Sound(s, Live) /\ Owns(s, c) /\ fd = s.conn[c].fd
    BY <1>6, <2>3 DEF Kept
  <2>5. /\ Kept(s, r, c) /\ r.net = s.net /\ r.conn = s.conn
        /\ "W" \in r.ae.mask[fd]
        /\ r.ae.rproc[fd] = "socket_readable" /\ r.ae.wproc[fd] = "socket_writeable"
    BY <1>4, <2>4, ArmedEffect
  <2> HIDE DEF r
  <2>6. Kept(Here, r, c) /\ r \in Part /\ Owns(r, c)
    <3>1. Kept(Here, r, c)
      BY <2>3, <2>5, KeptTransitive
    <3> QED BY <3>1 DEF Kept
  <2>7. Here' = r
    BY <2>2, <2>6, HereBecomes
  <2>8. r.conn[c] = k /\ r.net = Here.net /\ r.net[fd] = n /\ n.in = <<>> /\ n.owed = 0
    BY <1>8, <2>3, <2>5, HereIs
  <2>9. Fit(r, ToDo')
    <3>1. \A b \in Ev : <<Here.conn[c].fd, b>> \in ToDo' => Here.conn[c].fd \notin Here.stale
      BY <1>4, <1>6, HereIs
    <3>2. Fit(Here, ToDo') /\ Here.conn[c].fd \in Fds
      BY <1>4, <1>6 DEF Loose
    <3> QED BY <2>6, <2>8, <3>1, <3>2, SameFit
  <2>10. Serving(k, n, TRUE, 0, <<>>) /\ Left(k, n, <<>>) = 0
    BY <1>6, <1>8, <2>1, <2>8, NewServing
  <2>11. Serves(r, c, 0, <<>>)
    <3>1. fd = r.conn[c].fd /\ (TRUE <=> "W" \in r.ae.mask[fd]) /\ <<>> = <<>> \o r.net[fd].in
          /\ Serving(r.conn[c], r.net[fd], TRUE, 0, <<>>) /\ TRUE \in BOOLEAN
      BY <2>1, <2>5, <2>8, <2>10, Nothing
    <3> QED BY <2>5, <3>1, ServesBy
  <2>12. Rest(c)' = <<>> /\ timers'[c] = 0
    BY <1>4, <1>5, <1>8
  <2>13. Own(Here', c, timers'[c], Rest(c)')
    <3>1. Own(r, c, 0, <<>>)
      BY <1>7, <2>1, <2>6, <2>8, <2>11 DEF Own, Lives
    <3> QED BY <2>7, <2>12, <3>1
  <2>14. Moves(c)
    <3>1. ~Works(Here, c)
      BY <1>6, <1>8, HereIs DEF Works
    <3>2. Amount(Here', c, Rest(c)') = 0
      BY <2>1, <2>7, <2>8, <2>10, <2>12, Nothing DEF Amount
    <3> QED BY <3>1, <3>2 DEF Moves
  <2>15. Kept(Here, Here', c) /\ Fit(Here', ToDo')
    BY <2>6, <2>7, <2>9
  <2> QED BY <1>2, <1>4, <1>5, <2>13, <2>14, <2>15, KeptStep
<1> QED BY <1>9, <1>10, <1>11, <1>12 DEF ConnectResults

(* What is reported of a socket that is served is reported of it.          *)
LEMMA ServedFresh ==
    ASSUME NEW s, NEW c, NEW t, NEW b, Serves(s, c, t, b), NEW fd, fd = s.conn[c].fd,
           NEW U, FitAt(s, U, fd), Owns(s, c)
    PROVE  \A bit \in Ev : <<fd, bit>> \in U => fd \notin s.stale
<1>1. s.ae.rproc[fd] = "socket_readable" /\ fd \in Open(s)
  BY ServesSays DEF Owns
<1>2. ~Silent(s, fd)
  BY <1>1 DEF Silent
<1> QED BY <1>1, <1>2 DEF FitAt

LEMMA HoldStep ==
    ASSUME IInv, TypeOK', CycleInv, NEW c \in Conns, HoldRequest(c)
    PROVE  Stepped(c)
<1> DEFINE fd == conn[c].fd
           r  == Unregister(Here, fd, {"W"})
<1>1. /\ Called("socket_writeable", c) /\ UNCHANGED <<cfg, todo, reader, buf, stop, loopStop>>
      /\ timers' = [timers EXCEPT ![c] = timers[c] + 1] /\ conn[c].delayed
      /\ Become(Unregister(Here, CalledOn, {"W"}))
  BY DEF HoldRequest, CalledOn
<1>2. Reading' /\ step' # "inR"
  BY <1>1, NotReading
<1>3. CalledFor("socket_writeable", c)
  BY <1>1 DEF Called, CalledFor
<1>4. /\ c \in Live /\ CalledOn = fd /\ fd \in Fds /\ Owns(Here, c)
      /\ Loose(Here, c, ToDo') /\ Distinct' /\ FitAt(Here, ToDo', fd)
      /\ Serves(Here, c, timers[c], <<>>) /\ "W" \in ae.mask[fd]
      /\ \A d \in Conns : Rest(d) = <<>>
  BY <1>3, Dispatched
<1>5. cfg' = cfg /\ \A d \in Conns : Rest(d)' = Rest(d)
  BY <1>1 DEF Rest
<1>6. Here \in Part /\ Sound(Here, Live) /\ TypeOK /\ fd = Here.conn[c].fd
  BY HereInPart, HereIs DEF IInv
<1>7. /\ cfg.delay /\ (cfg.answers = {"K"} => conn[c].parser # "dead")
  BY <1>1 DEF CycleInv
<1>8. timers \in [Conns -> Nat]
  BY <1>6 DEF TypeOK
<1> DEFINE k == conn[c]
           n == net[fd]
           i == <<>> \o n.in
<1>9. /\ ae.rproc[fd] = "socket_readable" /\ ae.wproc[fd] = "socket_writeable"
      /\ Serving(k, n, TRUE, timers[c], i)
  <2>1. PICK w \in BOOLEAN : (w <=> "W" \in ae.mask[fd]) /\ Serving(k, n, w, timers[c], i)
    BY <1>4, <1>6, ServesSays, HereIs
  <2>2. w = TRUE
    BY <1>4, <2>1
  <2> QED BY <1>4, <1>6, <2>1, <2>2, ServesSays, HereIs
<1>10. timers[c] = 0
  BY <1>8, <1>9 DEF Serving, Batch
<1>11. k \in Connection /\ n \in Socket /\ i \in Seq(Tokens)
  <2>1. n \in Socket
    BY <1>4, <1>6, HereIs DEF Owns, Open, Part
  <2>2. n.in \in Seq(Tokens)
    BY <2>1 DEF Socket
  <2>3. i \in Seq(Tokens)
    BY <2>2, StreamEmpty, StreamJoin
  <2> QED BY <1>6, <2>1, <2>3 DEF TypeOK
<1> HIDE DEF i
<1>12. Serving(k, n, FALSE, 1, i)
  <2>1. Serving(k, n, TRUE, 0, i)
    BY <1>9, <1>10
  <2> QED BY <1>6, <1>7, <1>11, <2>1, HeldServing
<1>13. /\ Kept(Here, r, c) /\ r.net = net /\ r.conn = conn /\ r \in Part /\ Owns(r, c)
       /\ "W" \notin r.ae.mask[fd] /\ r.ae.rproc = ae.rproc /\ r.ae.wproc = ae.wproc
  <2>1. /\ Kept(Here, r, c) /\ r.net = Here.net /\ r.conn = Here.conn
        /\ "W" \notin r.ae.mask[fd] /\ r.ae.rproc = Here.ae.rproc /\ r.ae.wproc = Here.ae.wproc
    BY <1>4, <1>6, DisarmEffect
  <2> HIDE DEF r
  <2> QED BY <2>1, HereIs DEF Kept
<1>14. Become(r)
  BY <1>1, <1>4
<1> HIDE DEF r
<1>15. Here' = r
  BY <1>13, <1>14, HereBecomes
<1>16. Fit(r, ToDo')
  <2>1. \A b \in Ev : <<Here.conn[c].fd, b>> \in ToDo' => Here.conn[c].fd \notin Here.stale
    BY <1>4, <1>6, ServedFresh
  <2>2. Fit(Here, ToDo') /\ Here.conn[c].fd \in Fds /\ r.net = Here.net
    BY <1>4, <1>6, <1>13, HereIs DEF Loose
  <2> QED BY <1>13, <2>1, <2>2, SameFit
<1>17. Serves(r, c, 1, <<>>)
  <2>1. /\ fd = r.conn[c].fd /\ (FALSE <=> "W" \in r.ae.mask[fd]) /\ i = <<>> \o r.net[fd].in
        /\ Serving(r.conn[c], r.net[fd], FALSE, 1, i) /\ FALSE \in BOOLEAN
        /\ r.ae.rproc[fd] = "socket_readable" /\ r.ae.wproc[fd] = "socket_writeable"
    BY <1>9, <1>12, <1>13 DEF i
  <2> QED BY <2>1, ServesBy
<1>18. Rest(c)' = <<>> /\ timers'[c] = 1
  BY <1>1, <1>4, <1>5, <1>8, <1>10
<1>19. Own(Here', c, timers'[c], Rest(c)')
  <2>1. Own(r, c, 1, <<>>)
    BY <1>7, <1>13, <1>17 DEF Own, Lives
  <2> QED BY <1>15, <1>18, <2>1
<1>20. Moves(c)
  <2>1. Works(Here', c) <=> Works(Here, c)
    BY <1>4, <1>13, <1>15, HereIs DEF Works
  <2>2. Amount(Here', c, Rest(c)') = Amount(Here, c, Rest(c))
    BY <1>4, <1>5, <1>13, <1>15, HereIs DEF Amount
  <2> QED BY <2>1, <2>2 DEF Moves, Unmoved
<1>21. Kept(Here, Here', c) /\ Fit(Here', ToDo')
  BY <1>13, <1>15, <1>16
<1>22. \A d \in Conns \ {c} : timers'[d] = timers[d] /\ Rest(d)' = Rest(d)
  BY <1>1, <1>5, <1>8
<1> QED BY <1>2, <1>4, <1>5, <1>19, <1>20, <1>21, <1>22, KeptStep

(* The kernel has the same of c's socket but for what the server owes.     *)
LEMMA AlikeFit ==
    ASSUME NEW s, NEW r, NEW c, Kept(s, r, c), NEW U, Fit(s, U), NEW fd \in Fds, fd = s.conn[c].fd,
           \A b \in Ev : <<fd, b>> \in U => fd \notin s.stale,
           fd \in Open(s), r.net[fd].state = s.net[fd].state, r.net[fd].in = s.net[fd].in,
           r.net[fd].eof = s.net[fd].eof
    PROVE  Fit(r, U)
<1>1. FitAt(s, U, fd) /\ r.stale = s.stale /\ (fd \in Open(r) <=> fd \in Open(s))
  BY DEF Fit, Kept, Open
<1>2. FitAt(r, U, fd)
  BY <1>1 DEF FitAt
<1> QED BY <1>2, KeptFit

(* A batch is begun when none is being sent.                               *)
LEMMA BegunEffect ==
    ASSUME IInv, NEW c \in Conns, Owns(Here, c),
           NEW b, b = IF conn[c].written # 0 THEN Here ELSE Begun(c)
    PROVE  /\ Kept(Here, b, c) /\ b \in Part /\ Sound(b, Live) /\ Owns(b, c)
           /\ b.net = net /\ b.ae = ae /\ b.stale = stale /\ b.conn[c] \in Connection
           /\ b.conn[c].fd = conn[c].fd /\ b.conn[c].parser = conn[c].parser
           /\ b.conn[c].written = conn[c].written /\ b.conn[c].delayed = conn[c].delayed
           /\ b.conn[c].pending = IF conn[c].written = 0 THEN cfg.pipeline ELSE conn[c].pending
           /\ b.conn[c].timed <=> conn[c].written = 0 \/ conn[c].timed
<1> DEFINE k == [conn[c] EXCEPT !.pending = cfg.pipeline, !.timed = TRUE, !.late = FALSE]
           r == [Here EXCEPT !.conn[c] = k]
<1>1. Here \in Part /\ Sound(Here, Live) /\ TypeOK
  BY HereInPart DEF IInv
<1>2. conn[c] \in Connection
  BY <1>1 DEF TypeOK
<1>3. CASE conn[c].written # 0
  <2>1. b = Here /\ Kept(Here, Here, c)
    BY <1>3, StillKept
  <2> QED BY <1>1, <1>2, <1>3, <2>1, HereIs DEF Kept
<1>4. CASE conn[c].written = 0
  <2>1. /\ k \in Connection /\ k.fd = conn[c].fd /\ k.parser = conn[c].parser
        /\ k.written = conn[c].written /\ k.delayed = conn[c].delayed
        /\ k.pending = cfg.pipeline /\ k.timed = TRUE
    <3>1. cfg.pipeline \in 0 .. PendingMod - 1
      BY <1>1, ConfigTyped
    <3> QED BY <1>2, <3>1 DEF Connection
  <2>2. Begun(c) = r
    BY <1>1, <1>2, HereIs DEF Begun, Part, Connection
  <2> HIDE DEF k
  <2>3. k.fd = Here.conn[c].fd
    BY <2>1, HereIs
  <2>4. Kept(Here, r, c) /\ r.conn[c] = k /\ r.net = Here.net /\ r.ae = Here.ae
    BY <1>1, <2>1, <2>3, StructEffect
  <2> HIDE DEF r
  <2>5. b = r
    BY <1>4, <2>2
  <2> QED BY <1>4, <2>1, <2>4, <2>5, HereIs DEF Kept
<1> QED BY <1>3, <1>4

Written(b, c, fd, v, o) == [b EXCEPT !.conn[c].written = v, !.net[fd].owed = o]

LEMMA WrittenEffect ==
    ASSUME NEW b \in Part, Sound(b, Live), NEW c \in Conns, Owns(b, c), NEW fd, fd = b.conn[c].fd,
           NEW v \in 0 .. BatchLen - 1, NEW o \in Int, b.net[fd].state = "up",
           NEW s, s = Written(b, c, fd, v, o)
    PROVE  /\ Kept(b, s, c) /\ s.ae = b.ae
           /\ s.conn[c] = [b.conn[c] EXCEPT !.written = v]
           /\ s.net[fd] = [b.net[fd] EXCEPT !.owed = o]
           /\ s.conn[c] \in Connection /\ s.net[fd] \in Socket
<1> DEFINE k == [b.conn[c] EXCEPT !.written = v]
           q == [b.net[fd] EXCEPT !.owed = o]
<1>1. fd \in Sockets /\ b.net[fd] \in Socket /\ b.conn[c] \in Connection
  BY DEF Owns, Open, Part
<1>2. q \in Socket /\ q.state = "up" /\ k \in Connection /\ k.fd = b.conn[c].fd
  BY <1>1 DEF Socket, Connection
<1>3. s = [b EXCEPT !.conn = [b.conn EXCEPT ![c] = k], !.net = [b.net EXCEPT ![fd] = q]]
  BY <1>1 DEF Written, Part, Socket, Connection
<1> HIDE DEF k, q
<1>4. PICK K \in [Conns -> Connection], Q \in [Sockets -> Socket] :
        K = [b.conn EXCEPT ![c] = k] /\ Q = [b.net EXCEPT ![fd] = q]
  BY <1>1, <1>2 DEF Part
<1>5. /\ \A d \in Conns : K[d] = IF d = c THEN k ELSE b.conn[d]
      /\ \A x \in Sockets : Q[x] = IF x = fd THEN q ELSE b.net[x]
  BY <1>1, <1>4 DEF Part
<1>6. s = [b EXCEPT !.conn = K, !.net = Q]
  BY <1>3, <1>4
<1>7. s \in Part /\ s.ae = b.ae /\ s.stale = b.stale /\ s.conn = K /\ s.net = Q
  BY <1>6 DEF Part
<1>8. /\ \A d \in Conns : s.conn[d] = IF d = c THEN k ELSE b.conn[d]
      /\ \A x \in Sockets : s.net[x] = IF x = b.conn[c].fd THEN q ELSE b.net[x]
      /\ q.state # "closed" /\ (q.state = "connecting" => b.net[b.conn[c].fd].state = "connecting")
  BY <1>2, <1>5, <1>7
<1>9. PICK k2 \in Connection, q2 \in Socket, t \in Part : k2 = k /\ q2 = q /\ t = s
  BY <1>2, <1>7
<1>10. /\ t.ae = b.ae /\ t.stale = b.stale /\ k2.fd = b.conn[c].fd
       /\ \A d \in Conns : t.conn[d] = IF d = c THEN k2 ELSE b.conn[d]
       /\ \A x \in Sockets : t.net[x] = IF x = b.conn[c].fd THEN q2 ELSE b.net[x]
       /\ q2.state # "closed" /\ (q2.state = "connecting" => b.net[b.conn[c].fd].state = "connecting")
  BY <1>2, <1>7, <1>8, <1>9
<1>11. Kept(b, t, c) /\ t.conn[c] = k2 /\ t.net[b.conn[c].fd] = q2
  BY <1>10, AlterEffect
<1> QED BY <1>2, <1>7, <1>9, <1>11 DEF k, q

(* A step that keeps the socket, and what the kernel has of it, leaves it  *)
(* to be given up.                                                         *)
LEMMA KeptLoose ==
    ASSUME NEW s, NEW r, NEW c, NEW U, Kept(s, r, c), Loose(s, c, U), Fit(r, U)
    PROVE  Loose(r, c, U) /\ Only(s, r, c)
BY DEF Loose, Kept

(* What is due to c changes as RequestCycle says.                          *)
Follows(before, after) ==
    \/ after = before
    \/ before = 0 /\ after = cfg.pipeline
    \/ before > 0 /\ after = before - 1

LEMMA ServedStep ==
    ASSUME IInv, TypeOK', CycleInv, cfg' = cfg, NEW c \in Conns, NEW fd, fd = conn[c].fd,
           Owns(Here, c), ae.rproc[fd] = "socket_readable",
           NEW r, Become(r), Kept(Here, r, c), Fit(r, ToDo'), Distinct', Reading',
           \A d \in Conns \ {c} : timers'[d] = timers[d] /\ Rest(d)' = Rest(d), timers'[c] = 0,
           r.ae.rproc[fd] = "socket_readable", r.ae.wproc[fd] = "socket_writeable",
           NEW w \in BOOLEAN, w <=> "W" \in r.ae.mask[fd],
           NEW u, u = Rest(c)' \o r.net[fd].in, Serving(r.conn[c], r.net[fd], w, 0, u),
           ~cfg.delay => ~r.conn[c].delayed, cfg.answers = {"K"} => r.conn[c].parser # "dead",
           NEW v, v = Rest(c) \o net[fd].in,
           r.net[fd].state = "up" /\ ~r.net[fd].eof =>
                /\ net[fd].state = "up" /\ ~net[fd].eof
                /\ Follows(Left(conn[c], net[fd], v), Left(r.conn[c], r.net[fd], u))
    PROVE  Stepped(c)
<1>1. r \in Part /\ Owns(r, c) /\ r.conn[c].fd = fd
  BY HereIs DEF Kept
<1>2. Here' = r
  BY <1>1, HereBecomes
<1>3. Serves(r, c, 0, Rest(c)')
  BY <1>1, ServesBy
<1>4. Own(Here', c, timers'[c], Rest(c)')
  <2>1. Own(r, c, 0, Rest(c)')
    BY <1>1, <1>3 DEF Own, Lives
  <2> QED BY <1>2, <2>1
<1>5. Moves(c)
  <2>1. /\ Amount(Here, c, Rest(c)) = Left(conn[c], net[fd], v)
        /\ Amount(Here', c, Rest(c)') = Left(r.conn[c], r.net[fd], u)
    BY <1>1, <1>2, HereIs DEF Amount
  <2>2. Works(Here', c) => Works(Here, c)
    BY <1>1, <1>2, HereIs DEF Works
  <2>3. Works(Here', c) => Follows(Amount(Here, c, Rest(c)), Amount(Here', c, Rest(c)'))
    BY <1>1, <1>2, <2>1, HereIs DEF Works
  <2>4. CASE ~Works(Here', c)
    BY <2>4 DEF Moves
  <2>5. CASE Works(Here', c)
    BY <2>2, <2>3, <2>5 DEF Moves, Unmoved, Follows
  <2> QED BY <2>4, <2>5
<1>6. Kept(Here, Here', c) /\ Fit(Here', ToDo')
  BY <1>2
<1> QED BY <1>4, <1>5, <1>6, KeptStep

SendStart(c, fd, b) ==   \* the request goes on the wire
    /\ Called("socket_writeable", c) /\ ~conn[c].delayed /\ UNCHANGED quietVars
    /\ fd = conn[c].fd
    /\ b = IF conn[c].written # 0 THEN Here ELSE Begun(c)

LEMMA SendFacts ==
    ASSUME IInv, CycleInv, NEW c \in Conns, NEW fd, NEW b, SendStart(c, fd, b)
    PROVE  /\ Reading' /\ step' # "inR" /\ timers' = timers /\ cfg' = cfg
           /\ \A d \in Conns : Rest(d) = <<>> /\ Rest(d)' = <<>> /\ timers'[d] = timers[d]
           /\ c \in Live /\ fd \in Fds /\ fd = CalledOn /\ Owns(Here, c)
           /\ Loose(Here, c, ToDo') /\ Distinct' /\ timers[c] = 0
           /\ \A x \in Ev : <<fd, x>> \in ToDo' => fd \notin stale
           /\ "W" \in ae.mask[fd] /\ net[fd].state # "connecting" /\ net[fd] \in Socket
           /\ ae.rproc[fd] = "socket_readable" /\ ae.wproc[fd] = "socket_writeable"
           /\ net[fd].in \in Seq(Tokens) /\ Serving(conn[c], net[fd], TRUE, 0, net[fd].in)
<1>1. Called("socket_writeable", c) /\ UNCHANGED quietVars /\ fd = conn[c].fd
  BY DEF SendStart
<1>2. Reading' /\ step' # "inR"
  BY <1>1, NotReading
<1>3. CalledFor("socket_writeable", c)
  BY <1>1 DEF Called, CalledFor
<1>4. /\ c \in Live /\ CalledOn = fd /\ fd \in Fds /\ Owns(Here, c)
      /\ Loose(Here, c, ToDo') /\ Distinct' /\ FitAt(Here, ToDo', fd)
      /\ Serves(Here, c, timers[c], <<>>) /\ "W" \in ae.mask[fd]
      /\ net[fd].state # "connecting"
      /\ \A d \in Conns : Rest(d) = <<>>
  BY <1>1, <1>3, Dispatched
<1>5. /\ timers' = timers /\ cfg' = cfg
      /\ \A d \in Conns : Rest(d)' = Rest(d) /\ timers'[d] = timers[d]
  BY <1>1, QuietRest
<1>6. Here \in Part /\ TypeOK /\ fd = Here.conn[c].fd
  BY <1>1, HereInPart, HereIs DEF IInv
<1>7. net[fd] \in Socket /\ net[fd].in \in Seq(Tokens)
  <2>1. net[fd] \in Socket
    BY <1>4, <1>6, HereIs DEF Owns, Open, Part
  <2> QED BY <2>1 DEF Socket
<1>8. /\ ae.rproc[fd] = "socket_readable" /\ ae.wproc[fd] = "socket_writeable"
      /\ Serving(conn[c], net[fd], TRUE, timers[c], net[fd].in)
  <2>1. Here.net[fd].in \in Seq(Tokens)
    BY <1>7, HereIs
  <2>2. /\ Here.ae.rproc[fd] = "socket_readable" /\ Here.ae.wproc[fd] = "socket_writeable"
        /\ \E w \in BOOLEAN : /\ w <=> "W" \in Here.ae.mask[fd]
                              /\ Serving(Here.conn[c], Here.net[fd], w, timers[c], Here.net[fd].in)
    BY <1>4, <1>6, <2>1, ServesStream
  <2>3. PICK w \in BOOLEAN : (w <=> "W" \in ae.mask[fd]) /\ Serving(conn[c], net[fd], w, timers[c], net[fd].in)
    BY <2>2, HereIs
  <2>4. w = TRUE
    BY <1>4, <2>3
  <2> QED BY <2>2, <2>3, <2>4, HereIs
<1>9. timers[c] = 0
  <2>1. timers \in [Conns -> Nat]
    BY <1>6 DEF TypeOK
  <2> QED BY <1>8, <2>1 DEF Serving, Batch
<1>10. \A x \in Ev : <<fd, x>> \in ToDo' => fd \notin stale
  BY <1>4, <1>6, ServedFresh, HereIs
<1> QED BY <1>2, <1>4, <1>5, <1>7, <1>8, <1>9, <1>10

LEMMA SendFails ==
    ASSUME IInv, TypeOK', CycleInv, NEW c \in Conns, NEW fd, NEW b, SendStart(c, fd, b),
           NEW ok, Become(reconnect_socket(Count(b, "write"), c, ok)),
           net[fd].state \in {"refused", "reset"} \/ net[fd].eof
    PROVE  Stepped(c)
<1>1. /\ step' # "inR" /\ timers' = timers /\ cfg' = cfg
      /\ \A d \in Conns : Rest(d) = <<>> /\ Rest(d)' = <<>>
      /\ c \in Live /\ fd \in Fds /\ Owns(Here, c)
      /\ Loose(Here, c, ToDo') /\ Distinct' /\ timers[c] = 0
      /\ \A x \in Ev : <<fd, x>> \in ToDo' => fd \notin stale
  BY SendFacts
<1>2. /\ fd = conn[c].fd /\ ~conn[c].delayed /\ b = IF conn[c].written # 0 THEN Here ELSE Begun(c)
  BY DEF SendStart
<1>3. /\ Kept(Here, b, c) /\ b.net = net /\ b.stale = stale
      /\ b.conn[c].fd = conn[c].fd /\ b.conn[c].parser = conn[c].parser
      /\ b.conn[c].delayed = conn[c].delayed
  BY <1>1, <1>2, BegunEffect
<1>4. Fit(b, ToDo')
  <2>1. \A x \in Ev : <<Here.conn[c].fd, x>> \in ToDo' => Here.conn[c].fd \notin Here.stale
    BY <1>1, <1>2, HereIs
  <2>2. Fit(Here, ToDo') /\ Here.conn[c].fd \in Fds /\ b.net = Here.net
    BY <1>1, <1>2, <1>3, HereIs DEF Loose
  <2> QED BY <1>3, <2>1, <2>2, SameFit
<1>5. Loose(b, c, ToDo') /\ Only(Here, b, c)
  BY <1>1, <1>3, <1>4, KeptLoose
<1>6. "write" \in ErrorKinds /\ (cfg.answers = {"K"} => conn[c].parser # "dead")
  BY DEF ErrorKinds, CycleInv
<1>7. ~Healthy(fd)
  BY DEF Healthy
<1>8. \A x \in Sockets : x \in (b.stale \ stale) \cup ({b.conn[c].fd} \cap Open(b)) =>
                cfg.ssl \/ cfg.answers # {"K"} \/ ~Healthy(x)
  BY <1>2, <1>3, <1>7
<1>9. \A d \in Conns \ {c} : Rest(d)' = Rest(d)
  BY <1>1
<1>10. (~cfg.delay => ~b.conn[c].delayed) /\ (cfg.answers = {"K"} => b.conn[c].parser # "dead")
  BY <1>2, <1>3, <1>6
<1> QED BY <1>1, <1>5, <1>6, <1>8, <1>9, <1>10, ErrorStep

(* As SentServing, of a struct, a socket and a stream given by name.        *)
LEMMA SentBy ==
    ASSUME TypeOK, NEW j, NEW n, NEW s, j \in Connection, n \in Socket, s \in Seq(Tokens),
           NEW k, k \in Connection, NEW o, o \in Socket, Serving(j, n, TRUE, 0, s),
           NEW m, NEW w, w \in BOOLEAN, Sends(j, k, n, o, m, w)
    PROVE  Serving(k, o, w, 0, s) /\ (Well(n) => Follows(Left(j, n, s), Left(k, o, s)))
BY SentServing DEF Follows

LEMMA SendGoes ==
    ASSUME IInv, TypeOK', CycleInv, NEW c \in Conns, NEW fd, NEW b, SendStart(c, fd, b),
           NEW r, Become(r), Kept(Here, r, c), NEW k \in Connection, r.conn[c] = k,
           k.delayed = conn[c].delayed,
           NEW o \in Socket, r.net[fd] = o, o.in = net[fd].in,
           NEW m, NEW w \in BOOLEAN, Sends(conn[c], k, net[fd], o, m, w),
           r.ae.rproc[fd] = ae.rproc[fd], r.ae.wproc[fd] = ae.wproc[fd],
           w <=> "W" \in r.ae.mask[fd]
    PROVE  Stepped(c)
<1> DEFINE i == net[fd].in
<1>1. /\ Reading' /\ step' # "inR" /\ timers' = timers /\ cfg' = cfg
      /\ \A d \in Conns : Rest(d) = <<>> /\ Rest(d)' = <<>> /\ timers'[d] = timers[d]
      /\ c \in Live /\ fd \in Fds /\ Owns(Here, c)
      /\ Loose(Here, c, ToDo') /\ Distinct' /\ timers[c] = 0
      /\ \A x \in Ev : <<fd, x>> \in ToDo' => fd \notin stale
      /\ ae.rproc[fd] = "socket_readable" /\ ae.wproc[fd] = "socket_writeable"
      /\ i \in Seq(Tokens) /\ net[fd] \in Socket
      /\ Serving(conn[c], net[fd], TRUE, 0, i)
  BY SendFacts
<1>2. fd = conn[c].fd /\ ~conn[c].delayed
  BY DEF SendStart
<1>3. TypeOK /\ conn[c] \in Connection
  BY DEF IInv, TypeOK
<1>4. o.state = net[fd].state /\ o.eof = net[fd].eof /\ o.state = "up" /\ k.parser = conn[c].parser
  BY DEF Sends
<1>5. /\ Serving(k, o, w, 0, i)
      /\ Well(net[fd]) => Follows(Left(conn[c], net[fd], i), Left(k, o, i))
  <2>1. TypeOK /\ conn[c] \in Connection /\ net[fd] \in Socket /\ i \in Seq(Tokens)
        /\ k \in Connection /\ o \in Socket /\ w \in BOOLEAN
        /\ Serving(conn[c], net[fd], TRUE, 0, i) /\ Sends(conn[c], k, net[fd], o, m, w)
    BY <1>1, <1>3
  <2> QED BY <2>1, SentBy
<1> HIDE DEF i
<1>7. Fit(r, ToDo')
  <2>1. /\ Fit(Here, ToDo') /\ fd \in Open(Here) /\ fd = Here.conn[c].fd
        /\ r.net[fd].state = Here.net[fd].state /\ r.net[fd].in = Here.net[fd].in
        /\ r.net[fd].eof = Here.net[fd].eof
        /\ \A x \in Ev : <<fd, x>> \in ToDo' => fd \notin Here.stale
    BY <1>1, <1>2, <1>4, HereIs DEF Loose, Owns
  <2> QED BY <1>1, <2>1, AlikeFit
<1>8. /\ i = Rest(c)' \o r.net[fd].in /\ i = Rest(c) \o net[fd].in
  <2>1. r.net[fd].in = i /\ net[fd].in = i
    BY DEF i
  <2>2. <<>> \o i = i
    BY <1>1
  <2> QED BY <1>1, <2>1, <2>2
<1>9. cfg.answers = {"K"} => conn[c].parser # "dead"
  BY DEF CycleInv
<1>10. /\ Serving(r.conn[c], r.net[fd], w, 0, i)
       /\ ~cfg.delay => ~r.conn[c].delayed
       /\ cfg.answers = {"K"} => r.conn[c].parser # "dead"
       /\ r.net[fd].state = "up" /\ ~r.net[fd].eof =>
            /\ net[fd].state = "up" /\ ~net[fd].eof
            /\ Follows(Left(conn[c], net[fd], i), Left(r.conn[c], r.net[fd], i))
  <2>1. o.state = "up" /\ ~o.eof => Well(net[fd])
    BY <1>4 DEF Well
  <2> QED BY <1>2, <1>4, <1>5, <1>9, <2>1 DEF Well
<1>11. /\ \A d \in Conns \ {c} : timers'[d] = timers[d] /\ Rest(d)' = Rest(d)
       /\ timers'[c] = 0
       /\ r.ae.rproc[fd] = "socket_readable" /\ r.ae.wproc[fd] = "socket_writeable"
  BY <1>1
<1> QED BY <1>1, <1>2, <1>7, <1>8, <1>10, <1>11, ServedStep

Onward(c, fd, n, v, o) ==
    /\ v = IF conn[c].written + n = BatchLen THEN 0 ELSE conn[c].written + n
    /\ o = IF net[fd].eof THEN net[fd].owed ELSE net[fd].owed + Got(conn[c].written, n)

Finished(s, r, c, fd, n) ==
    r = IF conn[c].written + n = BatchLen THEN Unregister(s, fd, {"W"}) ELSE s

LEMMA SendWrites ==
    ASSUME IInv, TypeOK', CycleInv, NEW c \in Conns, NEW fd, NEW b, SendStart(c, fd, b),
           net[fd].state = "up", NEW n \in 0 .. BatchLen - conn[c].written,
           cfg.delay => n = BatchLen - conn[c].written,
           NEW v, NEW o, Onward(c, fd, n, v, o), NEW s, s = Written(b, c, fd, v, o),
           NEW r, Finished(s, r, c, fd, n), Become(r)
    PROVE  Stepped(c)
<1>1. /\ c \in Live /\ fd \in Fds /\ Owns(Here, c) /\ "W" \in ae.mask[fd] /\ net[fd] \in Socket
      /\ fd = conn[c].fd /\ b = IF conn[c].written # 0 THEN Here ELSE Begun(c)
  BY SendFacts DEF SendStart
<1>2. TypeOK /\ conn[c] \in Connection
  BY DEF IInv, TypeOK
<1>3. /\ Kept(Here, b, c) /\ b \in Part /\ Sound(b, Live) /\ Owns(b, c)
      /\ b.net = net /\ b.ae = ae /\ b.conn[c] \in Connection
      /\ b.conn[c].fd = conn[c].fd /\ b.conn[c].parser = conn[c].parser
      /\ b.conn[c].delayed = conn[c].delayed
      /\ b.conn[c].pending = IF conn[c].written = 0 THEN cfg.pipeline ELSE conn[c].pending
      /\ b.conn[c].timed <=> conn[c].written = 0 \/ conn[c].timed
  BY <1>1, BegunEffect
<1>4. v \in 0 .. BatchLen - 1 /\ o \in Int
  <2>1. PICK W \in Nat, B \in Nat : W = conn[c].written /\ B = BatchLen /\ W < B
    BY <1>2, ConfigTyped DEF Connection
  <2>2. n \in 0 .. B - W
    BY <2>1
  <2>3. v = IF W + n = B THEN 0 ELSE W + n
    BY <2>1 DEF Onward
  <2>4. v \in 0 .. B - 1
    BY <2>1, <2>2, <2>3
  <2>5. Got(W, n) \in Int
    BY <2>1, <2>2 DEF Got
  <2>6. net[fd].owed \in Int
    BY <1>1 DEF Socket
  <2>7. PICK g \in Int, x \in Int : g = Got(conn[c].written, n) /\ x = net[fd].owed
    BY <2>1, <2>5, <2>6
  <2>8. x + g \in Int
    OBVIOUS
  <2>9. o \in Int
    BY <2>7, <2>8 DEF Onward
  <2> QED BY <2>1, <2>4, <2>9
<1>5. /\ Kept(b, s, c) /\ s.ae = ae
      /\ s.conn[c] = [b.conn[c] EXCEPT !.written = v]
      /\ s.net[fd] = [net[fd] EXCEPT !.owed = o]
      /\ s.conn[c] \in Connection /\ s.net[fd] \in Socket
  <2>1. fd = b.conn[c].fd /\ b.net[fd].state = "up"
    BY <1>1, <1>3
  <2>2. /\ Kept(b, s, c) /\ s.ae = b.ae
        /\ s.conn[c] = [b.conn[c] EXCEPT !.written = v]
        /\ s.net[fd] = [b.net[fd] EXCEPT !.owed = o]
        /\ s.conn[c] \in Connection /\ s.net[fd] \in Socket
    BY <1>3, <1>4, <2>1, WrittenEffect
  <2> QED BY <1>3, <2>2
<1>6. /\ Kept(Here, s, c) /\ s \in Part /\ Sound(s, Live) /\ Owns(s, c) /\ fd = s.conn[c].fd
  <2>1. Kept(Here, s, c)
    BY <1>3, <1>5, KeptTransitive
  <2> QED BY <1>1, <2>1, HereIs DEF Kept
<1>7. PICK w \in BOOLEAN : w <=> conn[c].written + n # BatchLen
  <2>1. CASE conn[c].written + n # BatchLen
    BY <2>1
  <2>2. CASE conn[c].written + n = BatchLen
    BY <2>2
  <2> QED BY <2>1, <2>2
<1>8. /\ Kept(Here, r, c) /\ r.net = s.net /\ r.conn = s.conn
      /\ r.ae.rproc[fd] = ae.rproc[fd] /\ r.ae.wproc[fd] = ae.wproc[fd]
      /\ w <=> "W" \in r.ae.mask[fd]
  <2>1. CASE w
    <3>1. r = s
      BY <1>7, <2>1 DEF Finished
    <3> QED BY <1>1, <1>5, <1>6, <2>1, <3>1
  <2>2. CASE ~w
    <3>1. r = Unregister(s, fd, {"W"})
      BY <1>7, <2>2 DEF Finished
    <3>2. /\ Kept(s, r, c) /\ r.net = s.net /\ r.conn = s.conn
          /\ "W" \notin r.ae.mask[fd]
          /\ r.ae.rproc = s.ae.rproc /\ r.ae.wproc = s.ae.wproc
      BY <1>1, <1>6, <3>1, DisarmWrite
    <3>3. Kept(Here, r, c)
      BY <1>6, <3>2, KeptTransitive
    <3> QED BY <1>5, <2>2, <3>2, <3>3
  <2> QED BY <2>1, <2>2
<1>9. PICK k \in Connection, q \in Socket : k = r.conn[c] /\ q = r.net[fd]
  BY <1>5, <1>8
<1>10. /\ k = [b.conn[c] EXCEPT !.written = v] /\ q = [net[fd] EXCEPT !.owed = o]
       /\ k.delayed = conn[c].delayed /\ q.in = net[fd].in
  <2>1. k = [b.conn[c] EXCEPT !.written = v] /\ q = [net[fd] EXCEPT !.owed = o]
    BY <1>5, <1>8, <1>9
  <2>2. k.delayed = b.conn[c].delayed
    BY <1>3, <2>1 DEF Connection
  <2>3. q.in = net[fd].in
    BY <1>1, <2>1 DEF Socket
  <2> QED BY <1>3, <2>1, <2>2, <2>3
<1>11. Sends(conn[c], k, net[fd], q, n, w)
  <2>1. /\ k.parser = conn[c].parser /\ k.written = v
        /\ k.pending = b.conn[c].pending /\ k.timed = b.conn[c].timed
    BY <1>3, <1>10 DEF Connection
  <2>2. q.state = "up" /\ q.eof = net[fd].eof /\ q.owed = o
    BY <1>1, <1>10 DEF Socket
  <2> QED BY <1>3, <1>7, <2>1, <2>2 DEF Sends, Onward
<1>12. /\ Kept(Here, r, c) /\ r.conn[c] = k /\ k.delayed = conn[c].delayed
       /\ r.net[fd] = q /\ q.in = net[fd].in
       /\ r.ae.rproc[fd] = ae.rproc[fd] /\ r.ae.wproc[fd] = ae.wproc[fd]
       /\ w <=> "W" \in r.ae.mask[fd]
  BY <1>8, <1>9, <1>10
<1> QED BY <1>11, <1>12, SendGoes

LEMMA SendStep ==
    ASSUME IInv, TypeOK', CycleInv, Orderly, NEW c \in Conns, SendRequest(c)
    PROVE  Stepped(c)
<1> DEFINE fd    == conn[c].fd
           w     == conn[c].written
           b     == IF w # 0 THEN Here ELSE Begun(c)
           whole(n) == w + n = BatchLen
           got(n) == (w + n) \div 2 - w \div 2
           s(n)  == [b EXCEPT
                        !.conn[c].written = IF whole(n) THEN 0 ELSE w + n,
                        !.net[fd].owed = IF net[fd].eof THEN @ ELSE @ + got(n)]
           r(n)  == IF whole(n) THEN Unregister(s(n), CalledOn, {"W"}) ELSE s(n)
<1>1. SendStart(c, fd, b)
  BY DEF SendRequest, SendStart
<1>2. PICK n \in WriteResults(fd, BatchLen - w), ok \in Connecting :
        CASE n = -1 -> Become(reconnect_socket(Count(b, "write"), c, ok))
          [] n = 0  -> Become(b)
          [] OTHER  -> Become(r(n))
  BY DEF SendRequest, CalledOn
<1>3. /\ c \in Live /\ fd \in Fds /\ fd = CalledOn /\ Owns(Here, c)
      /\ "W" \in ae.mask[fd] /\ net[fd].state # "connecting" /\ net[fd] \in Socket
  BY <1>1, SendFacts
<1>4. TypeOK /\ conn[c] \in Connection
  BY DEF IInv, TypeOK
<1>5. BatchLen - w \in 0 .. BatchLen - w /\ BatchLen - w # 0 /\ -1 \notin 0 .. BatchLen - w
  BY <1>4, ConfigTyped DEF Connection
<1>6. fd \in Open(Here) /\ net[fd].state # "closed"
  BY <1>3, HereIs DEF Owns, Open
<1>7. net[fd].state \in {"refused", "reset", "up"}
  BY <1>3, <1>6 DEF Socket
<1>8. /\ n = -1 => net[fd].state \in {"refused", "reset"} \/ net[fd].eof
      /\ n # -1 => net[fd].state = "up" /\ n \in 0 .. BatchLen - w
      /\ n # -1 => "partial" \in cfg.faults \/ n = BatchLen - w
  BY <1>5, <1>6, <1>7 DEF WriteResults
<1>9. n # -1 /\ cfg.delay => n = BatchLen - w
  BY <1>8 DEF Orderly
<1> HIDE DEF b, fd
<1>10. CASE n = -1
  <2>1. Become(reconnect_socket(Count(b, "write"), c, ok))
    BY <1>2, <1>10
  <2> QED BY <1>1, <1>8, <1>10, <2>1, SendFails
<1>11. CASE n = 0
  <2>1. Become(b)
    BY <1>2, <1>11
  <2>2. b = IF conn[c].written # 0 THEN Here ELSE Begun(c)
    BY DEF b
  <2>3. /\ Kept(Here, b, c) /\ b \in Part
        /\ b.net = net /\ b.ae = ae /\ b.conn[c] \in Connection
        /\ b.conn[c].parser = conn[c].parser
        /\ b.conn[c].written = conn[c].written /\ b.conn[c].delayed = conn[c].delayed
        /\ b.conn[c].pending = IF conn[c].written = 0 THEN cfg.pipeline ELSE conn[c].pending
        /\ b.conn[c].timed <=> conn[c].written = 0 \/ conn[c].timed
    BY <1>3, <2>2, BegunEffect
  <2>4. PICK k \in Connection, o \in Socket : k = b.conn[c] /\ o = net[fd]
    BY <1>3, <2>3
  <2>5. /\ 0 \in 0 .. BatchLen - conn[c].written /\ conn[c].written + 0 # BatchLen
        /\ conn[c].written + 0 = conn[c].written
        /\ net[fd].owed = net[fd].owed + Got(conn[c].written, 0)
        /\ ~cfg.delay
    <3>1. PICK W \in Nat, B \in Nat, x \in Int : W = w /\ B = BatchLen /\ W < B /\ x = net[fd].owed
      BY <1>3, <1>4, ConfigTyped DEF Connection, Socket
    <3>2. 0 \in 0 .. B - W /\ W + 0 # B /\ W + 0 = W
      BY <3>1
    <3>3. Got(W, 0) = 0
      BY <3>1, <3>2 DEF Got
    <3>4. x = x + Got(W, 0)
      BY <3>3
    <3>5. ~cfg.delay
      BY <1>5, <1>9, <1>11
    <3> QED BY <3>1, <3>2, <3>4, <3>5
  <2>6. PICK m \in {0}, y \in BOOLEAN : m = 0 /\ y = TRUE
    OBVIOUS
  <2>7. Sends(conn[c], k, net[fd], o, m, y)
    BY <1>8, <1>11, <2>3, <2>4, <2>5, <2>6 DEF Sends
  <2>8. /\ b.conn[c] = k /\ k.delayed = conn[c].delayed /\ b.net[fd] = o /\ o.in = net[fd].in
        /\ b.ae.rproc[fd] = ae.rproc[fd] /\ b.ae.wproc[fd] = ae.wproc[fd]
        /\ y <=> "W" \in b.ae.mask[fd]
    BY <1>3, <2>3, <2>4, <2>6
  <2> QED BY <1>1, <2>1, <2>3, <2>7, <2>8, SendGoes
<1>12. CASE n # -1 /\ n # 0
  <2>1. Become(r(n))
    BY <1>2, <1>12
  <2>2. b.net = net /\ fd \in Sockets /\ b \in Part
    <3>1. b = IF conn[c].written # 0 THEN Here ELSE Begun(c)
      BY DEF b
    <3>2. b.net = net /\ b \in Part
      BY <1>3, <3>1, BegunEffect
    <3> QED BY <1>6, <3>2 DEF Open
  <2>3. PICK v, o : Onward(c, fd, n, v, o)
    BY DEF Onward
  <2>4. PICK t : t = Written(b, c, fd, v, o)
    OBVIOUS
  <2>5. t = s(n)
    BY <2>2, <2>3, <2>4 DEF Part, Got, Onward, Written
  <2>6. PICK u : Finished(t, u, c, fd, n)
    BY DEF Finished
  <2>7. u = r(n)
    BY <1>3, <2>5, <2>6 DEF Finished
  <2>8. Become(u)
    BY <2>1, <2>7
  <2>9. net[fd].state = "up" /\ n \in 0 .. BatchLen - conn[c].written
        /\ (cfg.delay => n = BatchLen - conn[c].written)
    BY <1>8, <1>9, <1>12
  <2> HIDE DEF r, s
  <2> QED BY <1>1, <2>3, <2>4, <2>6, <2>8, <2>9, SendWrites
<1> QED BY <1>10, <1>11, <1>12

(* A held request is held on a live and silent socket.                     *)
LEMMA HeldStream ==
    ASSUME TypeOK, NEW k \in Connection, NEW n \in Socket, NEW s \in Seq(Tokens),
           NEW w \in BOOLEAN, NEW t \in Nat, Serving(k, n, w, t, s), cfg.delay, t > 0
    PROVE  Well(n) /\ s = <<>> /\ t = 1
<1>1. /\ n.owed >= 0 /\ Due(k, n, s) = 0 /\ ~n.eof /\ t = 1 /\ n.state \in {"connecting", "up"}
  BY DEF Serving, Batch, Coming
<1>2. Well(n)
  BY <1>1 DEF Well
<1>3. Ends(s) = 0
  <2>1. PICK l \in Nat, a \in Nat, m \in Nat :
          l = Left(k, n, s) /\ a = Ends(s) /\ m = Unsent(k.written)
    BY <1>1, DueTyped
  <2>2. PICK o \in Nat : o = n.owed
    BY <1>1, DueTyped
  <2>3. l = m + o + a
    BY <2>1, <2>2 DEF Left
  <2>4. l = 0
    BY <1>1, <2>1 DEF Due
  <2>5. a = 0
    BY ONLY m \in Nat, o \in Nat, a \in Nat, <2>3, <2>4
  <2> QED BY <2>1, <2>5
<1>4. s = <<>>
  BY <1>1, <1>2, <1>3, DueTyped DEF Serving, Coming
<1> QED BY <1>1, <1>2, <1>4

LEMMA ReadFacts ==
    ASSUME IInv, CycleInv, NEW c \in Conns, NEW fd, fd = conn[c].fd, CalledFor("socket_readable", c)
    PROVE  /\ c \in Live /\ fd \in Fds /\ fd = CalledOn /\ Owns(Here, c) /\ fd \in Open(Here)
           /\ Loose(Here, c, ToDo') /\ Distinct' /\ timers[c] = 0
           /\ \A d \in Conns : Rest(d) = <<>>
           /\ <<fd, "R">> \notin ToDo' /\ CallReadable("socket_readable", c)
           /\ \A x \in Ev : <<fd, x>> \in ToDo' => fd \notin stale
           /\ net[fd] \in Socket /\ net[fd].state # "connecting"
           /\ net[fd].in # <<>> \/ net[fd].eof \/ net[fd].state # "up"
           /\ ae.rproc[fd] = "socket_readable" /\ ae.wproc[fd] = "socket_writeable"
           /\ net[fd].in \in Seq(Tokens)
           /\ \E w \in BOOLEAN : /\ w <=> "W" \in ae.mask[fd]
                                 /\ Serving(conn[c], net[fd], w, 0, net[fd].in)
<1>1. /\ c \in Live /\ CalledOn = fd /\ fd \in Fds /\ Owns(Here, c)
      /\ Loose(Here, c, ToDo') /\ Distinct' /\ FitAt(Here, ToDo', fd)
      /\ \A d \in Conns : Rest(d) = <<>>
      /\ Serves(Here, c, timers[c], <<>>) /\ CallReadable("socket_readable", c)
      /\ net[fd].state # "connecting" /\ <<fd, "R">> \notin ToDo'
      /\ net[fd].in # <<>> \/ net[fd].eof \/ net[fd].state # "up"
  BY Dispatched
<1>2. Here \in Part /\ TypeOK /\ fd = Here.conn[c].fd
  BY HereInPart, HereIs DEF IInv
<1>3. net[fd] \in Socket /\ net[fd].in \in Seq(Tokens) /\ fd \in Open(Here)
  <2>1. net[fd] \in Socket /\ fd \in Open(Here)
    BY <1>1, <1>2, HereIs DEF Owns, Open, Part
  <2> QED BY <2>1 DEF Socket
<1>4. \A x \in Ev : <<fd, x>> \in ToDo' => fd \notin stale
  BY <1>1, <1>2, ServedFresh, HereIs
<1>5. /\ ae.rproc[fd] = "socket_readable" /\ ae.wproc[fd] = "socket_writeable"
      /\ \E w \in BOOLEAN : /\ w <=> "W" \in ae.mask[fd]
                            /\ Serving(conn[c], net[fd], w, timers[c], net[fd].in)
  <2>1. Here.net[fd].in \in Seq(Tokens)
    BY <1>3, HereIs
  <2>2. /\ Here.ae.rproc[fd] = "socket_readable" /\ Here.ae.wproc[fd] = "socket_writeable"
        /\ \E w \in BOOLEAN : /\ w <=> "W" \in Here.ae.mask[fd]
                              /\ Serving(Here.conn[c], Here.net[fd], w, timers[c], Here.net[fd].in)
    BY <1>1, <1>2, <2>1, ServesStream
  <2> QED BY <2>2, HereIs
<1>6. PICK w \in BOOLEAN : (w <=> "W" \in ae.mask[fd]) /\ Serving(conn[c], net[fd], w, timers[c], net[fd].in)
  BY <1>5
<1>7. timers[c] = 0
  <2> SUFFICES ASSUME timers[c] # 0 PROVE FALSE
    OBVIOUS
  <2>1. timers[c] \in Nat /\ timers[c] > 0
    BY <1>2 DEF TypeOK
  <2>2. cfg.delay
    BY DEF CycleInv
  <2>3. conn[c] \in Connection
    BY <1>2 DEF TypeOK
  <2>4. Well(net[fd]) /\ net[fd].in = <<>>
    BY <1>2, <1>3, <1>6, <2>1, <2>2, <2>3, HeldStream
  <2> QED BY <1>1, <2>4 DEF Well
<1> QED BY <1>1, <1>3, <1>4, <1>5, <1>6, <1>7

LEMMA ReadFailsStep ==
    ASSUME IInv, TypeOK', CycleInv, NEW c \in Conns, ReadFails(c)
    PROVE  Stepped(c)
<1> DEFINE fd == conn[c].fd
<1>1. Called("socket_readable", c) /\ UNCHANGED quietVars
  BY DEF ReadFails
<1>2. Reading' /\ step' # "inR" /\ CalledFor("socket_readable", c)
  BY <1>1, NotReading DEF Called, CalledFor
<1>3. /\ c \in Live /\ fd \in Fds /\ Owns(Here, c) /\ fd \in Open(Here)
      /\ Loose(Here, c, ToDo') /\ Distinct' /\ timers[c] = 0
      /\ net[fd] \in Socket /\ net[fd].state # "connecting"
      /\ net[fd].in # <<>> \/ net[fd].eof \/ net[fd].state # "up"
  BY <1>2, ReadFacts
<1>4. /\ timers' = timers /\ cfg' = cfg
      /\ \A d \in Conns : Rest(d)' = Rest(d) /\ timers'[d] = timers[d]
  BY <1>1, QuietRest
<1>5. net[fd].in = <<>> /\ IF SslRetries(fd) THEN Become(Here) ELSE ReadError(c)
  BY <1>3 DEF ReadFails
<1>6. CASE SslRetries(fd)
  <2>1. Become(Here) /\ Fit(Here, ToDo')
    BY <1>3, <1>5, <1>6 DEF Loose
  <2> QED BY <1>2, <1>3, <1>4, <2>1, StillStep
<1>7. CASE ~SslRetries(fd)
  <2>1. PICK ok \in Connecting : Become(reconnect_socket(Count(Here, "read"), c, ok))
    BY <1>5, <1>7 DEF ReadError
  <2>2. Only(Here, Here, c) /\ "read" \in ErrorKinds
    BY OnlySelf DEF ErrorKinds
  <2>3. /\ ~cfg.delay => ~Here.conn[c].delayed
        /\ cfg.answers = {"K"} => Here.conn[c].parser # "dead"
    BY HereIs DEF CycleInv
  <2>4. ~Healthy(fd)
    BY <1>3, <1>5 DEF Healthy
  <2>5. \A x \in Sockets : x \in (Here.stale \ stale) \cup ({Here.conn[c].fd} \cap Open(Here)) =>
                cfg.ssl \/ cfg.answers # {"K"} \/ ~Healthy(x)
    BY <2>4, HereIs
  <2> QED BY <1>2, <1>3, <1>4, <2>1, <2>2, <2>3, <2>5, ErrorStep
<1> QED BY <1>6, <1>7

(* response_complete, for a response that is expected.                     *)
LEMMA CompletedEffect ==
    ASSUME IInv, NEW c \in Conns, c \in Live, Owns(Here, c), conn[c].pending > 0,
           NEW fd, fd = conn[c].fd, ae.wproc[fd] = "socket_writeable"
    PROVE  LET r == Completed(Here, c) IN
           /\ Kept(Here, r, c) /\ r.net = net /\ r.conn[c] \in Connection
           /\ r.conn[c].fd = fd /\ r.conn[c].parser = conn[c].parser
           /\ r.conn[c].written = conn[c].written /\ r.conn[c].pending = conn[c].pending - 1
           /\ conn[c].pending # 1 => r.conn[c].timed = conn[c].timed
           /\ ~cfg.delay /\ ~conn[c].delayed => ~r.conn[c].delayed
           /\ r.ae.rproc[fd] = ae.rproc[fd] /\ r.ae.wproc[fd] = "socket_writeable"
           /\ "W" \in r.ae.mask[fd] <=> "W" \in ae.mask[fd] \/ conn[c].pending = 1
<1>1. Here \in Part /\ Sound(Here, Live) /\ TypeOK /\ fd = Here.conn[c].fd
  BY HereInPart, HereIs DEF IInv
<1>2. conn[c] \in Connection
  BY <1>1 DEF TypeOK
<1>3. PICK p \in 0 .. PendingMod - 1 : p = conn[c].pending - 1 /\ p = (conn[c].pending - 1) % PendingMod
  <2>1. PendingMod \in Nat \ {0, 1}
    BY <1>1, ConfigTyped
  <2>2. PICK q \in Nat : q = conn[c].pending /\ q > 0 /\ q < PendingMod
    BY <1>2, <2>1 DEF Connection
  <2>3. q - 1 \in 0 .. PendingMod - 1 /\ (q - 1) % PendingMod = q - 1
    BY <2>1, <2>2
  <2> QED BY <2>2, <2>3
<1>4. p = 0 <=> conn[c].pending = 1
  <2>1. conn[c].pending \in Int
    BY <1>1, <1>2, ConfigTyped DEF Connection
  <2> QED BY <1>3, <2>1
<1>5. CASE p # 0
  <2> DEFINE k == [conn[c] EXCEPT !.pending = p]
             r == [Here EXCEPT !.conn[c] = k]
  <2>1. /\ k \in Connection /\ k.fd = Here.conn[c].fd /\ k.fd = fd /\ k.parser = conn[c].parser
        /\ k.written = conn[c].written /\ k.pending = conn[c].pending - 1
        /\ k.timed = conn[c].timed /\ k.delayed = conn[c].delayed
    BY <1>1, <1>2, <1>3, HereIs DEF Connection
  <2>2. Completed(Here, c) = r
    BY <1>1, <1>2, <1>3, <1>5, HereIs DEF Completed, Part, Connection
  <2> HIDE DEF k
  <2>3. Kept(Here, r, c) /\ r.conn[c] = k /\ r.net = Here.net /\ r.ae = Here.ae
    BY <1>1, <2>1, StructEffect
  <2> HIDE DEF r
  <2> QED BY <1>4, <1>5, <2>1, <2>2, <2>3, HereIs
<1>6. CASE p = 0
  <2> DEFINE k == [conn[c] EXCEPT !.pending = p, !.delayed = cfg.delay, !.timed = FALSE, !.late = FALSE]
             u == IF conn[c].late THEN Count(Here, "timeout") ELSE Here
             v == [u EXCEPT !.conn[c] = k]
             r == Register(v, fd, {"W"}, "socket_writeable", c)
  <2>1. /\ k \in Connection /\ k.fd = fd /\ k.parser = conn[c].parser
        /\ k.written = conn[c].written /\ k.pending = conn[c].pending - 1
        /\ k.delayed = cfg.delay
    <3>1. cfg.delay \in BOOLEAN
      BY <1>1, ConfigTyped
    <3> QED BY <1>1, <1>2, <1>3, <3>1 DEF Connection
  <2>2. Completed(Here, c) = r
    <3>1. (conn[c].pending - 1) % PendingMod = 0
      BY <1>3, <1>6
    <3>2. Here.conn[c].pending = conn[c].pending /\ Here.conn[c].late = conn[c].late
      BY HereIs
    <3> DEFINE t == [Here EXCEPT !.conn[c].pending = p]
               y == IF Here.conn[c].late THEN Count(t, "timeout") ELSE t
               z == [y EXCEPT !.conn[c].delayed = cfg.delay,
                              !.conn[c].timed = FALSE, !.conn[c].late = FALSE]
    <3>3. Completed(Here, c) = Register(z, z.conn[c].fd, {"W"}, "socket_writeable", c)
      BY <1>3, <1>6, <3>1, <3>2 DEF Completed
    <3>4. z = v
      <4>1. PICK C1 \in [Conns -> Connection], C2 \in [Conns -> Connection] :
              /\ C1 = [conn EXCEPT ![c].pending = p] /\ C2 = [conn EXCEPT ![c] = k]
              /\ C2 = [C1 EXCEPT ![c].delayed = cfg.delay, ![c].timed = FALSE, ![c].late = FALSE]
        <5>1. conn \in [Conns -> Connection]
          BY <1>1 DEF TypeOK
        <5>2. PICK j \in Connection : j = [conn[c] EXCEPT !.pending = p]
          BY <1>2, <1>3 DEF Connection
        <5>3. k = [j EXCEPT !.delayed = cfg.delay, !.timed = FALSE, !.late = FALSE]
          BY <1>2, <5>2 DEF Connection
        <5>4. PICK C1 \in [Conns -> Connection] : C1 = [conn EXCEPT ![c] = j]
          BY <5>1, <5>2
        <5>5. [conn EXCEPT ![c] = k] = [C1 EXCEPT ![c] = k]
          BY <5>1, <5>4
        <5>6. C1 = [conn EXCEPT ![c].pending = p]
          BY <5>1, <5>2, <5>4
        <5>7. [C1 EXCEPT ![c] = k] = [C1 EXCEPT ![c].delayed = cfg.delay, ![c].timed = FALSE, ![c].late = FALSE]
          <6>1. C1[c] = j
            BY <5>1, <5>4
          <6> HIDE DEF k
          <6> QED BY <5>3, <6>1
        <5>8. [conn EXCEPT ![c] = k] \in [Conns -> Connection]
          <6> HIDE DEF k
          <6> QED BY <2>1, <5>1
        <5> QED BY <5>5, <5>6, <5>7, <5>8
      <4>2. t = [Here EXCEPT !.conn = C1] /\ v = [u EXCEPT !.conn = C2]
        <5>1. u.conn = conn /\ Here.conn = conn
          BY <1>1, HereIs DEF Count, Part
        <5> QED BY <1>1, <4>1, <5>1 DEF Part, Count
      <4>3. y = [u EXCEPT !.conn = C1]
        BY <1>1, <4>2, HereIs DEF Count, Part
      <4>4. z = [y EXCEPT !.conn = C2]
        <5>1. u \in Part
          BY <1>1, CountEffect DEF ErrorKinds
        <5>2. y.conn = C1 /\ y \in Part
          <6> HIDE DEF u, y
          <6> QED BY <4>1, <4>3, <5>1 DEF Part
        <5> HIDE DEF y
        <5> QED BY <4>1, <5>2 DEF Part
      <4>5. u \in Part
        BY <1>1, CountEffect DEF ErrorKinds
      <4> HIDE DEF u, v, z, y
      <4> QED BY <4>2, <4>3, <4>4, <4>5 DEF Part
    <3>5. v.conn[c].fd = fd
      BY <1>1, <1>2 DEF Part, Connection, Count
    <3> QED BY <3>3, <3>4, <3>5
  <2>3. /\ u \in Part /\ u.ae = ae /\ u.net = net /\ u.conn = conn /\ u.stale = stale
    BY <1>1, CountEffect, HereIs DEF ErrorKinds
  <2> HIDE DEF k, u
  <2>4. Kept(Here, u, c) /\ Sound(u, Live)
    <3>1. Sound(u, Live)
      BY <1>1, <2>3, SameSound, HereIs DEF Same, Open
    <3>2. Owns(u, c)
      BY <2>3, HereIs DEF Owns, Open
    <3> QED BY <1>1, <2>3, <3>1, <3>2, HereIs DEF Kept, Only, SameAt, Registered, Open
  <2>5. Kept(u, v, c) /\ v.conn[c] = k /\ v.net = u.net /\ v.ae = u.ae
    <3>1. Owns(u, c) /\ k.fd = u.conn[c].fd
      BY <1>1, <2>1, <2>3, <2>4, HereIs DEF Kept
    <3> QED BY <2>1, <2>3, <2>4, <3>1, StructEffect
  <2> HIDE DEF v
  <2>6. Kept(Here, v, c) /\ v \in Part /\ Sound(v, Live) /\ Owns(v, c) /\ fd = v.conn[c].fd
    <3>1. Kept(Here, v, c)
      BY <2>4, <2>5, KeptTransitive
    <3> QED BY <1>1, <3>1 DEF Kept
  <2>7. /\ Kept(v, r, c) /\ r.net = v.net /\ r.conn = v.conn
        /\ r.ae.mask[fd] = v.ae.mask[fd] \cup {"W"}
        /\ r.ae.rproc[fd] = v.ae.rproc[fd]
        /\ r.ae.wproc[fd] = "socket_writeable"
    BY <2>6, ArmWrite
  <2> HIDE DEF r
  <2>8. Kept(Here, r, c)
    BY <2>6, <2>7, KeptTransitive
  <2>9. /\ r.net = net /\ r.conn[c] = k /\ r.ae.rproc[fd] = ae.rproc[fd]
        /\ "W" \in r.ae.mask[fd] /\ conn[c].pending = 1
    BY <1>4, <1>6, <2>3, <2>5, <2>7
  <2> QED BY <2>1, <2>2, <2>7, <2>8, <2>9
<1> QED BY <1>5, <1>6

LEMMA ReadEofStep ==
    ASSUME IInv, TypeOK', CycleInv, NEW c \in Conns, ReadEof(c)
    PROVE  Stepped(c)
<1> DEFINE fd == conn[c].fd
<1>1. Called("socket_readable", c) /\ UNCHANGED quietVars /\ net[fd].eof
  BY DEF ReadEof
<1>2. Reading' /\ step' # "inR" /\ CalledFor("socket_readable", c)
  BY <1>1, NotReading DEF Called, CalledFor
<1>3. /\ c \in Live /\ fd \in Fds /\ Owns(Here, c) /\ fd \in Open(Here)
      /\ Loose(Here, c, ToDo') /\ Distinct' /\ timers[c] = 0
      /\ net[fd] \in Socket /\ ae.wproc[fd] = "socket_writeable"
      /\ \A x \in Ev : <<fd, x>> \in ToDo' => fd \notin stale
      /\ net[fd].in \in Seq(Tokens)
  BY <1>2, ReadFacts
<1>4. /\ timers' = timers /\ cfg' = cfg
      /\ \A d \in Conns : Rest(d)' = Rest(d) /\ timers'[d] = timers[d]
  BY <1>1, QuietRest
<1>5. "read" \in ErrorKinds /\ ~Healthy(fd)
  BY <1>1 DEF ErrorKinds, Healthy
<1>6. /\ ~cfg.delay => ~conn[c].delayed
      /\ cfg.answers = {"K"} => conn[c].parser # "dead"
  BY DEF CycleInv
<1>7. CASE conn[c].parser # "toeof"
  <2>1. PICK ok \in Connecting : Become(reconnect_socket(Count(Here, "read"), c, ok))
    BY <1>7 DEF ReadEof
  <2>2. Only(Here, Here, c)
    BY OnlySelf
  <2>3. \A x \in Sockets : x \in (Here.stale \ stale) \cup ({Here.conn[c].fd} \cap Open(Here)) =>
                cfg.ssl \/ cfg.answers # {"K"} \/ ~Healthy(x)
    BY <1>5, HereIs
  <2>4. /\ ~cfg.delay => ~Here.conn[c].delayed
        /\ cfg.answers = {"K"} => Here.conn[c].parser # "dead"
    BY <1>6, HereIs
  <2> QED BY <1>2, <1>3, <1>4, <1>5, <2>1, <2>2, <2>3, <2>4, ErrorStep
<1>8. CASE conn[c].parser = "toeof"
  <2>1. PICK ok1 \in Connecting, ok2 \in Connecting :
          Become(reconnect_socket(Count(reconnect_socket(Completed(Here, c), c, ok1), "read"),
                                  c, ok2))
    BY <1>8 DEF ReadEof
  <2> DEFINE t == Completed(Here, c)
             s == reconnect_socket(t, c, ok1)
  <2>2. conn[c].pending > 0
    <3>1. PICK w \in BOOLEAN : Serving(conn[c], net[fd], w, 0, net[fd].in)
      BY <1>2, ReadFacts
    <3>2. TypeOK /\ conn[c] \in Connection
      BY DEF IInv, TypeOK
    <3>3. PICK k \in Connection, n \in Socket, u \in Seq(Tokens), z \in Nat :
            k = conn[c] /\ n = net[fd] /\ u = net[fd].in /\ z = 0
      BY <1>3, <3>2
    <3>4. Serving(k, n, w, z, u) /\ k.parser = "toeof" /\ TypeOK
      BY <1>8, <3>1, <3>2, <3>3
    <3>5. k.pending > 0
      BY <3>4, ExpectedServing
    <3> QED BY <3>3, <3>5
  <2>3. /\ Kept(Here, t, c) /\ t.net = net /\ t.conn[c].fd = fd
        /\ t.conn[c].parser = conn[c].parser
        /\ ~cfg.delay /\ ~conn[c].delayed => ~t.conn[c].delayed
    BY <1>3, <2>2, CompletedEffect
  <2> HIDE DEF t
  <2>4. Fit(t, ToDo')
    <3>1. \A x \in Ev : <<Here.conn[c].fd, x>> \in ToDo' => Here.conn[c].fd \notin Here.stale
      BY <1>3, HereIs
    <3>2. Fit(Here, ToDo') /\ Here.conn[c].fd \in Fds /\ t.net = Here.net
      BY <1>3, <2>3, HereIs DEF Loose
    <3> QED BY <2>3, <3>1, <3>2, SameFit
  <2>5. Loose(t, c, ToDo') /\ Only(Here, t, c)
    BY <1>3, <2>3, <2>4, KeptLoose
  <2>6. Loose(s, c, ToDo') /\ Only(t, s, c) /\ Anew(t, s, c)
    BY <1>3, <2>5, Reconnected
  <2>7. Become(reconnect_socket(Count(s, "read"), c, ok2))
    BY <2>1 DEF t
  <2> HIDE DEF s
  <2>8. Only(Here, s, c)
    BY <2>5, <2>6, OnlyTransitive
  <2>9. t.stale = stale /\ Open(t) = Open(Here)
    BY <2>3, HereIs DEF Kept, Open
  <2>10. /\ s.conn[c].parser = "toeof"
         /\ ~cfg.delay => ~s.conn[c].delayed
    BY <1>6, <1>8, <2>3, <2>6 DEF Anew
  <2>11. ASSUME NEW x \in Sockets, x \in (s.stale \ stale) \cup ({s.conn[c].fd} \cap Open(s))
         PROVE  cfg.ssl \/ cfg.answers # {"K"} \/ ~Healthy(x)
    <3>1. x = fd \/ x \notin Open(Here)
      BY <2>3, <2>6, <2>9, <2>11 DEF Anew
    <3>2. x \notin Open(Here) => net[x].state = "closed"
      BY HereIs DEF Open
    <3> QED BY <1>5, <3>1, <3>2 DEF Healthy
  <2> QED BY <1>2, <1>3, <1>4, <1>5, <2>6, <2>7, <2>8, <2>10, <2>11, ErrorStep
<1> QED BY <1>7, <1>8

(* The socket differs in what is there to read.                            *)
LEMMA AlikeServing ==
    ASSUME NEW k, NEW n, NEW o, NEW w, NEW t, NEW s, Serving(k, n, w, t, s),
           o.state = n.state, o.eof = n.eof, o.owed = n.owed
    PROVE  Serving(k, o, w, t, s) /\ Left(k, o, s) = Left(k, n, s)
<1>1. Due(k, o, s) = Due(k, n, s) /\ Left(k, o, s) = Left(k, n, s) /\ (Well(o) <=> Well(n))
  BY DEF Due, Left, Well
<1>2. Coming(k, o, s)
  BY <1>1 DEF Coming, Serving, Ending, KeptAlive
<1> QED BY <1>1, <1>2 DEF Serving, Batch

LEMMA SplitStream ==
    ASSUME NEW s \in Seq(Tokens), NEW n \in 0 .. Len(s)
    PROVE  /\ SubSeq(s, 1, n) \o SubSeq(s, n + 1, Len(s)) = s
           /\ SubSeq(s, 1, n) \in Seq(Tokens) /\ SubSeq(s, n + 1, Len(s)) \in Seq(Tokens)
<1> DEFINE u == SubSeq(s, 1, n)
           v == SubSeq(s, n + 1, Len(s))
           q == u \o v
<1>1. /\ u \in Seq(Tokens) /\ Len(u) = n /\ \A i \in 1 .. n : u[i] = s[i]
      /\ v \in Seq(Tokens) /\ Len(v) = Len(s) - n /\ \A i \in 1 .. Len(s) - n : v[i] = s[i + n]
  OBVIOUS
<1> HIDE DEF u, v
<1>2. /\ q \in Seq(Tokens) /\ Len(q) = Len(u) + Len(v)
      /\ \A i \in 1 .. Len(u) : q[i] = u[i]
      /\ \A i \in 1 .. Len(v) : q[Len(u) + i] = v[i]
  BY <1>1
<1> HIDE DEF q
<1>3. Len(q) = Len(s)
  BY <1>1, <1>2
<1>4. ASSUME NEW i \in 1 .. Len(s)
      PROVE  q[i] = s[i]
  <2>1. CASE i \in 1 .. n
    BY <1>1, <1>2, <2>1
  <2>2. CASE i \notin 1 .. n
    <3>1. i - n \in 1 .. Len(s) - n /\ (i - n) + n = i /\ n + (i - n) = i
      BY <2>2
    <3>2. v[i - n] = s[i]
      BY <1>1, <3>1
    <3>3. q[n + (i - n)] = v[i - n]
      BY <1>1, <1>2, <3>1
    <3> QED BY <3>1, <3>2, <3>3
  <2> QED BY <2>1, <2>2
<1>5. q = s
  BY <1>2, <1>3, <1>4
<1> QED BY <1>1, <1>5 DEF q, u, v

LEMMA ReadBytesStep ==
    ASSUME IInv, TypeOK', CycleInv, NEW c \in Conns, ReadBytes(c)
    PROVE  Stepped(c)
<1> DEFINE fd == conn[c].fd
<1>1. /\ CallReadable("socket_readable", c) /\ reader' = c /\ step' = "inR"
      /\ UNCHANGED <<cfg, ae, conn, errors, timers, todo, stop, loopStop, stale>>
  BY DEF ReadBytes
<1>2. CalledFor("socket_readable", c)
  BY <1>1 DEF CalledFor
<1>3. /\ c \in Live /\ fd \in Fds /\ Owns(Here, c) /\ fd \in Open(Here)
      /\ Loose(Here, c, ToDo') /\ Distinct' /\ timers[c] = 0
      /\ net[fd] \in Socket /\ net[fd].state # "connecting"
      /\ net[fd].in \in Seq(Tokens)
      /\ <<fd, "R">> \notin ToDo'
      /\ ae.rproc[fd] = "socket_readable" /\ ae.wproc[fd] = "socket_writeable"
      /\ \A x \in Ev : <<fd, x>> \in ToDo' => fd \notin stale
      /\ \A d \in Conns : Rest(d) = <<>>
  BY <1>2, ReadFacts
<1>4. PICK w \in BOOLEAN : (w <=> "W" \in ae.mask[fd]) /\ Serving(conn[c], net[fd], w, 0, net[fd].in)
  BY <1>2, ReadFacts
<1>5. Here \in Part /\ Sound(Here, Live) /\ TypeOK /\ fd = Here.conn[c].fd /\ fd \in Sockets
  BY <1>3, HereInPart, HereIs DEF IInv, Open
<1>6. PICK n \in 1 .. Len(net[fd].in) :
        /\ buf' = SubSeq(net[fd].in, 1, n)
        /\ net' = [net EXCEPT ![fd].in = SubSeq(@, n + 1, Len(@))]
  BY DEF ReadBytes
<1>7. PICK i \in Seq(Tokens), g \in Seq(Tokens), u \in Seq(Tokens) :
        /\ i = net[fd].in /\ g = buf' /\ u = SubSeq(i, n + 1, Len(i)) /\ g \o u = i
  <2>1. PICK i \in Seq(Tokens) : i = net[fd].in
    BY <1>3
  <2>2. n \in 0 .. Len(i) /\ buf' = SubSeq(i, 1, n)
    BY <1>6, <2>1
  <2>3. PICK g, u : g = SubSeq(i, 1, n) /\ u = SubSeq(i, n + 1, Len(i))
    OBVIOUS
  <2>4. g \o u = i /\ g \in Seq(Tokens) /\ u \in Seq(Tokens)
    BY <2>2, <2>3, SplitStream
  <2> QED BY <2>1, <2>2, <2>3, <2>4
<1>8. PICK o \in Socket : o = [net[fd] EXCEPT !.in = u]
  BY <1>3, <1>7 DEF Socket
<1>9. o.state = net[fd].state /\ o.eof = net[fd].eof /\ o.owed = net[fd].owed /\ o.in = u
  BY <1>3, <1>8 DEF Socket
<1>10. PICK N \in [Sockets -> Socket] : N = [net EXCEPT ![fd] = o] /\ net' = N
  <2>1. net \in [Sockets -> Socket]
    BY <1>5 DEF TypeOK
  <2>2. net' = [net EXCEPT ![fd] = o]
    BY <1>6, <1>7, <1>8, <2>1 DEF Socket
  <2>3. [net EXCEPT ![fd] = o] \in [Sockets -> Socket]
    BY <1>5, <2>1
  <2> QED BY <2>2, <2>3
<1>11. PICK r \in Part : /\ r.ae = ae /\ r.conn = conn /\ r.stale = stale /\ r.net = N
                         /\ r.errors = errors
  <2> DEFINE r == [Here EXCEPT !.net = N]
  <2>1. r \in Part /\ r.ae = ae /\ r.conn = conn /\ r.stale = stale /\ r.net = N /\ r.errors = errors
    BY <1>5 DEF Part, Here
  <2> QED BY <2>1
<1>12. Become(r)
  BY <1>1, <1>10, <1>11 DEF Become
<1>13. Kept(Here, r, c)
  <2>1. o.state # "closed" /\ (o.state = "connecting" => Here.net[Here.conn[c].fd].state = "connecting")
    BY <1>3, <1>5, <1>9, HereIs DEF Open
  <2>2. \A x \in Sockets : N[x] = IF x = fd THEN o ELSE net[x]
    BY <1>5, <1>10 DEF TypeOK
  <2>3. PICK k \in Connection : k = conn[c]
    BY <1>5 DEF TypeOK
  <2>4. /\ r.ae = Here.ae /\ r.stale = Here.stale /\ k.fd = Here.conn[c].fd
        /\ \A d \in Conns : r.conn[d] = IF d = c THEN k ELSE Here.conn[d]
        /\ \A x \in Sockets : r.net[x] = IF x = Here.conn[c].fd THEN o ELSE Here.net[x]
    BY <1>5, <1>11, <2>2, <2>3, HereIs
  <2> QED BY <1>3, <1>5, <2>1, <2>4, AlterEffect
<1>14. r.net[fd] = o /\ r.conn[c] = conn[c]
  BY <1>5, <1>10, <1>11 DEF TypeOK
<1>15. Fit(r, ToDo')
  <2>1. fd \in Open(r)
    BY <1>3, <1>5, <1>9, <1>14, HereIs DEF Open
  <2>2. FitAt(r, ToDo', fd)
    BY <1>3, <1>9, <1>11, <1>14, <2>1 DEF FitAt, Ev
  <2>3. Fit(Here, ToDo') /\ FitAt(r, ToDo', Here.conn[c].fd) /\ ToDo' \subseteq ToDo'
    BY <1>3, <1>5, <2>2 DEF Loose
  <2> QED BY <1>13, <2>3, KeptFit
<1>16. /\ Serving(r.conn[c], r.net[fd], w, 0, i)
       /\ Left(r.conn[c], r.net[fd], i) = Left(conn[c], net[fd], i)
  <2>1. PICK k, n0, t : k = conn[c] /\ n0 = net[fd] /\ t = 0
    OBVIOUS
  <2>2. Serving(k, n0, w, t, i) /\ o.state = n0.state /\ o.eof = n0.eof /\ o.owed = n0.owed
    BY <1>4, <1>7, <1>9, <2>1
  <2>3. Serving(k, o, w, t, i) /\ Left(k, o, i) = Left(k, n0, i)
    BY <2>2, AlikeServing
  <2> QED BY <1>14, <2>1, <2>3
<1>17. /\ Rest(c)' = buf' /\ Rest(c) = <<>> /\ cfg' = cfg
       /\ \A d \in Conns \ {c} : timers'[d] = timers[d] /\ Rest(d)' = Rest(d)
       /\ timers'[c] = 0
  BY <1>1, <1>3 DEF Rest
<1>18. /\ i = Rest(c)' \o r.net[fd].in /\ i = Rest(c) \o net[fd].in
  <2>1. <<>> \o i = i
    BY <1>7
  <2> QED BY <1>7, <1>9, <1>14, <1>17, <2>1
<1>19. /\ r.ae.rproc[fd] = "socket_readable" /\ r.ae.wproc[fd] = "socket_writeable"
       /\ w <=> "W" \in r.ae.mask[fd]
  BY <1>3, <1>4, <1>11
<1>20. Here' = r /\ Owns(r, c)
  BY <1>12, <1>13, HereBecomes DEF Kept
<1>21. Reading'
  <2>1. Serves(r, c, 0, Rest(c)')
    BY <1>11, <1>14, <1>16, <1>18, <1>19, ServesBy
  <2>2. Serves(Here', c, timers'[c], buf')
    BY <1>17, <1>20, <2>1
  <2>3. ~Both(ToDo', conn'[c].fd) /\ Owns(Here', c)
    BY <1>1, <1>3, <1>20 DEF Both
  <2> QED BY <1>1, <1>17, <2>2, <2>3, ReadingOf
<1>22. /\ ~cfg.delay => ~r.conn[c].delayed
       /\ cfg.answers = {"K"} => r.conn[c].parser # "dead"
  BY <1>14 DEF CycleInv
<1>23. r.net[fd].state = "up" /\ ~r.net[fd].eof =>
            /\ net[fd].state = "up" /\ ~net[fd].eof
            /\ Follows(Left(conn[c], net[fd], i), Left(r.conn[c], r.net[fd], i))
  BY <1>9, <1>14, <1>16 DEF Follows
<1> QED BY <1>3, <1>12, <1>13, <1>15, <1>16, <1>17, <1>18, <1>19, <1>21, <1>22, <1>23, ServedStep

ParseStart(c, fd) ==    \* the parser takes the next token of the buffer
    /\ step = "inR" /\ reader = c /\ UNCHANGED parseQuietVars
    /\ fd = conn[c].fd
    /\ ParseOn \/ ParseFails

LEMMA ParseFacts ==
    ASSUME IInv, CycleInv, NEW c \in Conns, NEW fd, ParseStart(c, fd)
    PROVE  /\ c \in Live /\ Rest(c) = buf /\ buf \in Seq(Tokens) /\ buf # <<>>
           /\ timers[c] = 0 /\ timers' = timers /\ cfg' = cfg /\ timers'[c] = 0
           /\ \A d \in Conns \ {c} : Rest(d)' = Rest(d) /\ timers'[d] = timers[d]
           /\ Loose(Here, c, ToDo') /\ Distinct' /\ ~Both(ToDo', fd)
           /\ step' \in {"inR", "W"} /\ (step' = "inR" => reader' = c /\ Rest(c)' = buf')
           /\ ParseOn => Rest(c)' = Tail(buf)
           /\ conn[c].parser # "dead" => Owns(Here, c) /\ Serves(Here, c, 0, buf)
<1>1. /\ step = "inR" /\ reader = c /\ UNCHANGED parseQuietVars /\ fd = conn[c].fd
      /\ ParseOn \/ ParseFails
  BY DEF ParseStart
<1>2. c \in Live /\ c \in Conns /\ buf \in Seq(Tokens) /\ buf # <<>> /\ fired \in Seq(Entry)
  BY <1>1 DEF IInv, TypeOK, Control
<1>3. /\ Rest(c) = buf /\ timers' = timers /\ cfg' = cfg /\ fired' = fired
      /\ c # NoOwner
  BY <1>1, NoneAssumption DEF Rest, parseQuietVars, Conns
<1>4. /\ timers[c] = 0 /\ ~Both(ToDo, fd) /\ (fd \in Open(Here) => Owns(Here, c))
      /\ conn[c].parser = "dead" \/ (Owns(Here, c) /\ Serves(Here, c, timers[c], buf))
  BY <1>1 DEF CycleInv, Reading
<1>5. /\ step' \in {"inR", "W"} /\ (step' = "inR" => reader' = c /\ Rest(c)' = buf')
      /\ ParseOn => Rest(c)' = Tail(buf)
      /\ reader' \in {c, NoOwner}
  BY <1>1, <1>3 DEF ParseOn, ParseFails, Rest
<1>6. \A d \in Conns \ {c} : Rest(d)' = Rest(d) /\ timers'[d] = timers[d]
  BY <1>1, <1>3, <1>5, NoneAssumption DEF Rest, Conns
<1>7. Registered(Here) /\ Fit(Here, ToDo) /\ Distinct
  BY DEF CycleInv
<1>8. ToDo' \subseteq ToDo /\ Distinct'
  BY <1>2, <1>3, <1>5, <1>7, ToDoOnward
<1>9. Fit(Here, ToDo')
  <2> SUFFICES ASSUME NEW x \in Fds PROVE FitAt(Here, ToDo', x)
    BY DEF Fit
  <2>1. FitAt(Here, ToDo, x)
    BY <1>7 DEF Fit
  <2> QED BY <1>8, <2>1, FitKept
<1>10. ~Both(ToDo', fd)
  BY <1>4, <1>8 DEF Both
<1>11. Loose(Here, c, ToDo')
  <2>1. Here \in Part /\ Sound(Here, Live)
    BY HereInPart DEF IInv
  <2>2. fd = Here.conn[c].fd
    BY <1>1, HereIs
  <2> QED BY <1>4, <1>7, <1>9, <1>10, <2>1, <2>2 DEF Loose
<1> QED BY <1>2, <1>3, <1>4, <1>5, <1>6, <1>8, <1>10, <1>11

LEMMA ParseServed ==
    ASSUME IInv, CycleInv, NEW c \in Conns, NEW fd, ParseStart(c, fd), conn[c].parser # "dead"
    PROVE  /\ fd \in Fds /\ Owns(Here, c) /\ fd \in Open(Here)
           /\ \A x \in Ev : <<fd, x>> \in ToDo' => fd \notin stale
           /\ net[fd] \in Socket /\ net[fd].in \in Seq(Tokens) /\ conn[c] \in Connection
           /\ ae.rproc[fd] = "socket_readable" /\ ae.wproc[fd] = "socket_writeable"
           /\ \E w \in BOOLEAN : /\ w <=> "W" \in ae.mask[fd]
                                 /\ Serving(conn[c], net[fd], w, 0, buf \o net[fd].in)
<1>1. /\ Owns(Here, c) /\ Serves(Here, c, 0, buf) /\ Loose(Here, c, ToDo')
  BY ParseFacts
<1>2. fd = Here.conn[c].fd /\ Here.conn = conn
  BY HereIs DEF ParseStart
<1>3. /\ fd \in Open(Here) /\ fd \in Sockets
      /\ net \in [Sockets -> Socket] /\ conn \in [Conns -> Connection]
  BY <1>1, <1>2 DEF Owns, Open, IInv, TypeOK
<1>4. fd \in Fds
  BY <1>3 DEF IInv, Sound, Held
<1>5. net[fd] \in Socket /\ net[fd].in \in Seq(Tokens) /\ conn[c] \in Connection
  BY <1>3 DEF Socket
<1>6. FitAt(Here, ToDo', fd)
  BY <1>1, <1>4 DEF Loose, Fit
<1>7. \A x \in Ev : <<fd, x>> \in ToDo' => fd \notin stale
  <2>1. \A x \in Ev : <<fd, x>> \in ToDo' => fd \notin Here.stale
    BY <1>1, <1>2, <1>6, ServedFresh
  <2> QED BY <2>1, HereIs
<1>8. /\ ae.rproc[fd] = "socket_readable" /\ ae.wproc[fd] = "socket_writeable"
      /\ \E w \in BOOLEAN : /\ w <=> "W" \in ae.mask[fd]
                            /\ Serving(conn[c], net[fd], w, 0, buf \o net[fd].in)
  <2>1. /\ Here.ae.rproc[fd] = "socket_readable" /\ Here.ae.wproc[fd] = "socket_writeable"
        /\ \E w \in BOOLEAN : /\ w <=> "W" \in Here.ae.mask[fd]
                              /\ Serving(Here.conn[c], Here.net[fd], w, 0, buf \o Here.net[fd].in)
    BY <1>1, <1>2, ServesSays
  <2> QED BY <2>1, HereIs
<1> QED BY <1>1, <1>3, <1>4, <1>5, <1>7, <1>8

(* The handler has taken a token and goes on with the connection.          *)
LEMMA ParseGoes ==
    ASSUME IInv, TypeOK', CycleInv, NEW c \in Conns, NEW fd, ParseStart(c, fd), ParseOn,
           conn[c].parser # "dead",
           NEW r, Become(r), Kept(Here, r, c), r.net = net,
           r.ae.rproc[fd] = ae.rproc[fd], r.ae.wproc[fd] = ae.wproc[fd],
           NEW w \in BOOLEAN, w <=> "W" \in r.ae.mask[fd],
           NEW k \in Connection, r.conn[c] = k, k.parser # "dead",
           ~cfg.delay /\ ~conn[c].delayed => ~k.delayed,
           NEW u, u = Tail(buf) \o net[fd].in, Serving(k, net[fd], w, 0, u),
           NEW v, v = buf \o net[fd].in,
           Well(net[fd]) => Follows(Left(conn[c], net[fd], v), Left(k, net[fd], u))
    PROVE  Stepped(c)
<1>1. /\ Rest(c) = buf /\ timers' = timers /\ cfg' = cfg /\ timers'[c] = 0
      /\ \A d \in Conns \ {c} : Rest(d)' = Rest(d) /\ timers'[d] = timers[d]
      /\ Loose(Here, c, ToDo') /\ Distinct' /\ ~Both(ToDo', fd)
      /\ step' = "inR" => reader' = c /\ Rest(c)' = buf'
      /\ Rest(c)' = Tail(buf)
  BY ParseFacts
<1>2. /\ fd \in Fds /\ Owns(Here, c) /\ fd = conn[c].fd
      /\ \A x \in Ev : <<fd, x>> \in ToDo' => fd \notin stale
      /\ ae.rproc[fd] = "socket_readable" /\ ae.wproc[fd] = "socket_writeable"
  BY ParseServed DEF ParseStart
<1>3. Fit(r, ToDo')
  <2>1. \A x \in Ev : <<Here.conn[c].fd, x>> \in ToDo' => Here.conn[c].fd \notin Here.stale
    BY <1>2, HereIs
  <2>2. Fit(Here, ToDo') /\ Here.conn[c].fd \in Fds /\ r.net = Here.net
    BY <1>1, <1>2, HereIs DEF Loose
  <2> QED BY <2>1, <2>2, SameFit
<1>4. Here' = r /\ Owns(r, c) /\ conn' = r.conn /\ r.conn[c].fd = fd
  BY <1>2, HereBecomes, HereIs DEF Kept
<1>5. Reading'
  <2>1. CASE step' # "inR"
    BY <2>1 DEF Reading
  <2>2. CASE step' = "inR"
    <3>1. Serves(r, c, 0, Rest(c)')
      <4>1. u = Rest(c)' \o r.net[fd].in /\ Serving(r.conn[c], r.net[fd], w, 0, u)
        BY <1>1
      <4>2. r.ae.rproc[fd] = "socket_readable" /\ r.ae.wproc[fd] = "socket_writeable"
            /\ fd = r.conn[c].fd
        BY <1>2, <1>4
      <4> QED BY <4>1, <4>2, ServesBy
    <3>2. Serves(Here', c, timers'[c], buf')
      BY <1>1, <1>4, <2>2, <3>1
    <3> QED BY <1>1, <1>4, <2>2, <3>2, ReadingOf
  <2> QED BY <2>1, <2>2
<1>6. /\ ~cfg.delay => ~r.conn[c].delayed
      /\ cfg.answers = {"K"} => r.conn[c].parser # "dead"
  BY DEF CycleInv
<1>7. /\ r.ae.rproc[fd] = "socket_readable" /\ r.ae.wproc[fd] = "socket_writeable"
      /\ u = Rest(c)' \o r.net[fd].in /\ Serving(r.conn[c], r.net[fd], w, 0, u)
      /\ v = Rest(c) \o net[fd].in
  BY <1>1, <1>2
<1>8. r.net[fd].state = "up" /\ ~r.net[fd].eof =>
            /\ net[fd].state = "up" /\ ~net[fd].eof
            /\ Follows(Left(conn[c], net[fd], v), Left(r.conn[c], r.net[fd], u))
  BY DEF Well
<1> QED BY <1>1, <1>2, <1>3, <1>5, <1>6, <1>7, <1>8, ServedStep

LEMMA TailJoin ==
    ASSUME NEW s \in Seq(Tokens), s # <<>>, NEW u \in Seq(Tokens)
    PROVE  /\ s \o u \in Seq(Tokens) /\ s \o u # <<>>
           /\ Head(s \o u) = Head(s) /\ Tail(s \o u) = Tail(s) \o u
<1> DEFINE q == s \o u
           t == Tail(s)
           v == t \o u
           p == Tail(q)
<1>1. /\ q \in Seq(Tokens) /\ Len(q) = Len(s) + Len(u) /\ Len(s) \in Nat \ {0} /\ Len(u) \in Nat
      /\ \A i \in 1 .. Len(s) : q[i] = s[i]
      /\ \A i \in 1 .. Len(u) : q[Len(s) + i] = u[i]
      /\ q # <<>> /\ q[1] = s[1]
  OBVIOUS
<1>2. /\ t \in Seq(Tokens) /\ Len(t) = Len(s) - 1 /\ Head(s) = s[1]
      /\ \A i \in 1 .. Len(s) - 1 : t[i] = s[i + 1]
  OBVIOUS
<1> HIDE DEF q, t
<1>3. /\ v \in Seq(Tokens) /\ Len(v) = Len(t) + Len(u)
      /\ \A i \in 1 .. Len(t) : v[i] = t[i]
      /\ \A i \in 1 .. Len(u) : v[Len(t) + i] = u[i]
  <2>1. t \in Seq(Tokens) /\ u \in Seq(Tokens)
    BY <1>2
  <2> QED BY <2>1
<1>4. /\ p \in Seq(Tokens) /\ Len(p) = Len(q) - 1 /\ Head(q) = q[1]
      /\ \A i \in 1 .. Len(q) - 1 : p[i] = q[i + 1]
  BY <1>1
<1> HIDE DEF v, p
<1>5. Len(p) = Len(v)
  BY <1>1, <1>2, <1>3, <1>4
<1>6. ASSUME NEW i \in 1 .. Len(p)
      PROVE  p[i] = v[i]
  <2>1. p[i] = q[i + 1] /\ i + 1 \in 1 .. Len(q)
    BY <1>1, <1>4
  <2>2. CASE i <= Len(t)
    <3>1. i \in 1 .. Len(t) /\ i \in 1 .. Len(s) - 1 /\ i + 1 \in 1 .. Len(s)
      BY <1>1, <1>2, <2>2
    <3> QED BY <1>1, <1>2, <1>3, <2>1, <3>1
  <2>3. CASE ~(i <= Len(t))
    <3>1. i - Len(t) \in 1 .. Len(u)
      BY <1>1, <1>2, <1>3, <1>5, <2>3
    <3>2. PICK m \in 1 .. Len(u) : m = i - Len(t)
      BY <3>1
    <3>3. i = Len(t) + m /\ i + 1 = Len(s) + m
      BY <1>1, <1>2, <3>2
    <3>4. v[i] = u[m] /\ q[i + 1] = u[m]
      BY <1>1, <1>3, <3>3
    <3> QED BY <2>1, <3>4
  <2> QED BY <2>2, <2>3
<1>7. p = v
  BY <1>3, <1>4, <1>5, <1>6
<1>8. s \o u = q /\ Tail(s) = t /\ Tail(q) = p /\ Tail(s) \o u = v
  BY DEF q, t, p, v
<1> QED BY <1>1, <1>2, <1>4, <1>7, <1>8

(* What the parser has of a connection that is served: its struct, the     *)
(* socket, and the stream from the next token on.                          *)
Parses(c, fd, k, n, s, w) ==
    /\ k = conn[c] /\ n = net[fd] /\ s = buf \o n.in /\ s # <<>>
    /\ Head(s) = Head(buf) /\ Tail(s) = Tail(buf) \o n.in
    /\ w <=> "W" \in ae.mask[fd]
    /\ Serving(k, n, w, 0, s)
    /\ cfg.answers = {"K"} => KeptAlive(k, n, s)

LEMMA ParseStream ==
    ASSUME IInv, CycleInv, NEW c \in Conns, NEW fd, ParseStart(c, fd), conn[c].parser # "dead"
    PROVE  \E k \in Connection, n \in Socket, s \in Seq(Tokens), w \in BOOLEAN :
             Parses(c, fd, k, n, s, w)
<1>1. /\ net[fd] \in Socket /\ net[fd].in \in Seq(Tokens) /\ conn[c] \in Connection
  BY ParseServed
<1>2. PICK w \in BOOLEAN : /\ w <=> "W" \in ae.mask[fd]
                           /\ Serving(conn[c], net[fd], w, 0, buf \o net[fd].in)
  BY ParseServed
<1>3. buf \in Seq(Tokens) /\ buf # <<>>
  BY ParseFacts
<1>4. PICK k \in Connection, n \in Socket, u \in Seq(Tokens) :
        k = conn[c] /\ n = net[fd] /\ u = n.in
  BY <1>1
<1>5. PICK s \in Seq(Tokens) :
        s = buf \o u /\ s # <<>> /\ Head(s) = Head(buf) /\ Tail(s) = Tail(buf) \o u
  BY <1>3, TailJoin
<1>6. Serving(k, n, w, 0, s)
  BY <1>2, <1>4, <1>5
<1>7. cfg.answers = {"K"} => KeptAlive(k, n, s)
  BY <1>6 DEF Serving, Coming
<1>8. Parses(c, fd, k, n, s, w)
  BY <1>2, <1>4, <1>5, <1>6, <1>7 DEF Parses
<1> QED BY <1>8

LEMMA ParseBeginStep ==
    ASSUME IInv, TypeOK', CycleInv, NEW c \in Conns, ParseBegin(c)
    PROVE  Stepped(c)
<1> DEFINE fd == conn[c].fd
<1>1. /\ ParseStart(c, fd) /\ ParseOn /\ conn[c].parser # "dead"
      /\ UNCHANGED <<ae, net, errors, stale>>
  BY DEF ParseBegin, ParseStart
<1>0. PICK k \in Connection, n \in Socket, s \in Seq(Tokens), w \in BOOLEAN :
        Parses(c, fd, k, n, s, w)
  BY <1>1, ParseStream
<1>2. /\ k = conn[c] /\ n = net[fd] /\ s = buf \o n.in /\ s # <<>>
      /\ Head(s) = Head(buf) /\ Tail(s) = Tail(buf) \o n.in
      /\ w <=> "W" \in ae.mask[fd]
      /\ Serving(k, n, w, 0, s)
  BY <1>0 DEF Parses
<1>3. /\ k.parser = "toeof" \/ (k.parser = "start" /\ Head(s) \in {"H", "E"})
      /\ conn' = [conn EXCEPT ![c].parser =
                     IF k.parser = "start" /\ Head(s) = "H" THEN "mid" ELSE "toeof"]
  BY <1>2 DEF ParseBegin
<1>4. PICK p \in {"mid", "toeof"} :
        p = IF k.parser = "start" /\ Head(s) = "H" THEN "mid" ELSE "toeof"
  OBVIOUS
<1>5. PICK j \in Connection :
        /\ j = [k EXCEPT !.parser = p] /\ j.parser = p
        /\ j.fd = k.fd /\ j.written = k.written /\ j.pending = k.pending /\ j.timed = k.timed
        /\ j.delayed = k.delayed
  <2> DEFINE j == [k EXCEPT !.parser = p]
  <2>1. j \in Connection
    BY DEF Connection
  <2>2. /\ j.parser = p
        /\ j.fd = k.fd /\ j.written = k.written /\ j.pending = k.pending /\ j.timed = k.timed
        /\ j.delayed = k.delayed
    BY DEF Connection
  <2> QED BY <2>1, <2>2
<1>6. /\ Serving(j, n, w, 0, Tail(s))
      /\ Well(n) => Left(j, n, Tail(s)) = Left(k, n, s)
  <2>1. TypeOK
    BY DEF IInv
  <2>2. j.parser = IF k.parser = "start" /\ Head(s) = "H" THEN "mid" ELSE "toeof"
    BY <1>4, <1>5
  <2>3. /\ Serving(k, n, w, 0, s) /\ s # <<>>
        /\ j.written = k.written /\ j.pending = k.pending /\ j.timed = k.timed
    BY <1>2, <1>5
  <2> QED BY <1>3, <2>1, <2>2, <2>3, BegunServing
<1>7. /\ fd \in Fds /\ Owns(Here, c) /\ Here \in Part /\ Sound(Here, Live)
  BY <1>1, ParseServed, HereInPart DEF IInv
<1> DEFINE r == [Here EXCEPT !.conn[c] = j]
<1>8. /\ Kept(Here, r, c) /\ r.conn[c] = j /\ r.net = net /\ r.ae = ae
  <2>1. j.fd = Here.conn[c].fd
    BY <1>2, <1>5, HereIs
  <2> QED BY <1>7, <2>1, StructEffect, HereIs
<1>9. Become(r)
  <2>1. conn \in [Conns -> Connection]
    BY DEF IInv, TypeOK
  <2>2. conn' = [conn EXCEPT ![c] = j]
    BY <1>2, <1>3, <1>4, <1>5, <2>1 DEF Connection
  <2>3. /\ r.conn = [conn EXCEPT ![c] = j] /\ r.ae = ae /\ r.net = net /\ r.errors = errors
        /\ r.stale = stale
    BY DEF Here
  <2> QED BY <1>1, <2>2, <2>3 DEF Become
<1> HIDE DEF r
<1>10. PICK u : u = Tail(s)
  OBVIOUS
<1>11. /\ u = Tail(buf) \o net[fd].in /\ s = buf \o net[fd].in
       /\ Serving(j, net[fd], w, 0, u)
       /\ Well(net[fd]) => Follows(Left(conn[c], net[fd], s), Left(j, net[fd], u))
  BY <1>2, <1>6, <1>10 DEF Follows
<1>12. /\ r.ae.rproc[fd] = ae.rproc[fd] /\ r.ae.wproc[fd] = ae.wproc[fd]
       /\ w <=> "W" \in r.ae.mask[fd]
       /\ j.parser # "dead" /\ (~cfg.delay /\ ~conn[c].delayed => ~j.delayed)
  BY <1>2, <1>5, <1>8
<1> HIDE DEF fd
<1> QED BY <1>1, <1>8, <1>9, <1>11, <1>12, ParseGoes

LEMMA ParseErrorStep ==
    ASSUME IInv, TypeOK', CycleInv, NEW c \in Conns, ParseError(c)
    PROVE  Stepped(c)
<1> DEFINE fd == conn[c].fd
<1>1. /\ ParseStart(c, fd) /\ ParseFails
  BY DEF ParseError, ParseStart
<1>2. /\ c \in Live /\ timers[c] = 0 /\ timers' = timers /\ cfg' = cfg
      /\ \A d \in Conns \ {c} : Rest(d)' = Rest(d)
      /\ Loose(Here, c, ToDo') /\ Distinct'
  BY <1>1, ParseFacts
<1>3. cfg.answers # {"K"}
  <2> SUFFICES ASSUME cfg.answers = {"K"} PROVE FALSE
    OBVIOUS
  <2>1. conn[c].parser # "dead"
    BY DEF CycleInv
  <2>0. PICK k \in Connection, n \in Socket, s \in Seq(Tokens), w \in BOOLEAN :
          Parses(c, fd, k, n, s, w)
    BY <1>1, <2>1, ParseStream
  <2>2. k = conn[c] /\ s # <<>> /\ Head(s) = Head(buf) /\ KeptAlive(k, n, s)
    BY <2>0 DEF Parses
  <2>3. k.parser \in {"start", "mid"} /\ Alternates(k.parser, s)
    BY <2>2 DEF KeptAlive
  <2>4. Head(s) = IF k.parser = "start" THEN "H" ELSE "K"
    BY <2>2, <2>3, StreamTail
  <2> QED BY <2>1, <2>2, <2>3, <2>4 DEF ParseError
<1>4. PICK ok \in Connecting : Become(reconnect_socket(Count(Here, "read"), c, ok))
  BY DEF ParseError, ReadError
<1>5. Only(Here, Here, c) /\ "read" \in ErrorKinds /\ step' # "inR"
  BY <1>1, OnlySelf DEF ErrorKinds, ParseFails
<1>6. /\ ~cfg.delay => ~Here.conn[c].delayed
      /\ cfg.answers = {"K"} => Here.conn[c].parser # "dead"
      /\ \A x \in Sockets : x \in (Here.stale \ stale) \cup ({Here.conn[c].fd} \cap Open(Here)) =>
                cfg.ssl \/ cfg.answers # {"K"} \/ ~Healthy(x)
  BY <1>3, HereIs DEF CycleInv
<1> QED BY <1>2, <1>4, <1>5, <1>6, ErrorStep

(* A response has ended which was expected.                                *)
LEMMA ParseCompletes ==
    ASSUME IInv, CycleInv, NEW c \in Conns, NEW fd, ParseStart(c, fd), conn[c].parser = "mid",
           Head(buf) # "H"
    PROVE  LET t == Completed(Here, c) IN
           /\ conn[c].pending > 0
           /\ Kept(Here, t, c) /\ t.net = net /\ t.conn[c] \in Connection
           /\ t.conn[c].fd = fd
           /\ t.conn[c].written = conn[c].written /\ t.conn[c].pending = conn[c].pending - 1
           /\ conn[c].pending # 1 => t.conn[c].timed = conn[c].timed
           /\ ~cfg.delay /\ ~conn[c].delayed => ~t.conn[c].delayed
           /\ t.ae.rproc[fd] = ae.rproc[fd] /\ t.ae.wproc[fd] = ae.wproc[fd]
           /\ "W" \in t.ae.mask[fd] <=> "W" \in ae.mask[fd] \/ conn[c].pending = 1
<1>1. PICK k \in Connection, n \in Socket, s \in Seq(Tokens), w \in BOOLEAN :
        Parses(c, fd, k, n, s, w)
  BY ParseStream
<1>2. k = conn[c] /\ s # <<>> /\ Head(s) # "H" /\ Serving(k, n, w, 0, s)
  BY <1>1 DEF Parses
<1>3. k.pending > 0
  <2>1. TypeOK
    BY DEF IInv
  <2>2. PICK z \in Nat : z = 0
    OBVIOUS
  <2>3. Serving(k, n, w, z, s)
    BY <1>2, <2>2
  <2> QED BY <1>2, <2>1, <2>3, ExpectedServing
<1>4. c \in Live /\ Owns(Here, c) /\ fd = conn[c].fd /\ ae.wproc[fd] = "socket_writeable"
  BY ParseFacts, ParseServed DEF ParseStart
<1>5. conn[c].pending > 0
  BY <1>2, <1>3
<1> QED BY <1>4, <1>5, CompletedEffect

LEMMA ParseCompleteKeep ==
    ASSUME IInv, TypeOK', CycleInv, NEW c \in Conns, NEW fd, ParseStart(c, fd), ParseOn,
           conn[c].parser = "mid", Head(buf) = "K",
           Become([Completed(Here, c) EXCEPT !.conn[c].parser = "start"])
    PROVE  Stepped(c)
<1> DEFINE t == Completed(Here, c)
<1>1. /\ conn[c].pending > 0
      /\ Kept(Here, t, c) /\ t.net = net /\ t.conn[c] \in Connection
      /\ t.conn[c].fd = fd
      /\ t.conn[c].written = conn[c].written /\ t.conn[c].pending = conn[c].pending - 1
      /\ conn[c].pending # 1 => t.conn[c].timed = conn[c].timed
      /\ ~cfg.delay /\ ~conn[c].delayed => ~t.conn[c].delayed
      /\ t.ae.rproc[fd] = ae.rproc[fd] /\ t.ae.wproc[fd] = ae.wproc[fd]
      /\ "W" \in t.ae.mask[fd] <=> "W" \in ae.mask[fd] \/ conn[c].pending = 1
  BY ParseCompletes
<1>2. Become([t EXCEPT !.conn[c].parser = "start"])
  OBVIOUS
<1> HIDE DEF t
<1>3. PICK k \in Connection, n \in Socket, s \in Seq(Tokens), w \in BOOLEAN :
        Parses(c, fd, k, n, s, w)
  BY ParseStream
<1>4. /\ k = conn[c] /\ n = net[fd] /\ s = buf \o n.in /\ s # <<>>
      /\ Head(s) = Head(buf) /\ Tail(s) = Tail(buf) \o n.in
      /\ w <=> "W" \in ae.mask[fd]
      /\ Serving(k, n, w, 0, s)
  BY <1>3 DEF Parses
<1>5. PICK j \in Connection :
        /\ j = [t.conn[c] EXCEPT !.parser = "start"]
        /\ j.parser = "start" /\ j.fd = fd /\ j.written = k.written /\ j.pending = k.pending - 1
        /\ k.pending # 1 => j.timed = k.timed
        /\ ~cfg.delay /\ ~conn[c].delayed => ~j.delayed
  <2>1. PICK i \in Connection : i = t.conn[c]
    BY <1>1
  <2> DEFINE j == [i EXCEPT !.parser = "start"]
  <2>2. j \in Connection
    BY DEF Connection
  <2>3. /\ j.parser = "start" /\ j.fd = i.fd /\ j.written = i.written /\ j.pending = i.pending
        /\ j.timed = i.timed /\ j.delayed = i.delayed
    BY DEF Connection
  <2> QED BY <1>1, <1>4, <2>1, <2>2, <2>3
<1> DEFINE r == [t EXCEPT !.conn[c] = j]
<1>6. /\ Kept(Here, r, c) /\ r.conn[c] = j /\ r.net = net /\ r.ae = t.ae
  <2>1. t \in Part /\ Sound(t, Live) /\ Owns(t, c) /\ j.fd = t.conn[c].fd
    BY <1>1, <1>5 DEF Kept
  <2>2. Kept(t, r, c) /\ r.conn[c] = j /\ r.net = t.net /\ r.ae = t.ae
    BY <2>1, StructEffect
  <2> HIDE DEF r
  <2> QED BY <1>1, <2>2, KeptTransitive
<1>7. Become(r)
  <2>1. t \in Part
    BY <1>1 DEF Kept
  <2>2. PICK C \in [Conns -> Connection] : C = t.conn
    BY <2>1 DEF Part
  <2>3. [C EXCEPT ![c].parser = "start"] = [C EXCEPT ![c] = j]
    BY <1>5, <2>2
  <2>4. [t EXCEPT !.conn[c].parser = "start"] = r
    BY <2>1, <2>2, <2>3 DEF Part
  <2> QED BY <1>2, <2>4
<1> HIDE DEF r
<1>8. PICK x \in BOOLEAN : x <=> w \/ k.pending = 1
  OBVIOUS
<1>9. PICK u : u = Tail(s)
  OBVIOUS
<1>10. /\ Serving(j, n, x, 0, u)
       /\ Left(k, n, s) > 0 /\ Left(j, n, u) = Left(k, n, s) - 1
  <2>1. TypeOK
    BY DEF IInv
  <2>2. /\ Serving(k, n, w, 0, s) /\ s # <<>> /\ Head(s) = "K" /\ k.parser = "mid"
        /\ j.parser = "start" /\ j.written = k.written /\ j.pending = k.pending - 1
        /\ k.pending # 1 => j.timed = k.timed
    BY <1>4, <1>5
  <2>3. /\ Serving(j, n, w \/ k.pending = 1, 0, Tail(s))
        /\ Left(k, n, s) > 0 /\ Left(j, n, Tail(s)) = Left(k, n, s) - 1
    BY <2>1, <2>2, CompletedServing
  <2>4. x = (w \/ k.pending = 1)
    BY <1>8
  <2> QED BY <1>9, <2>3, <2>4
<1>11. /\ u = Tail(buf) \o net[fd].in /\ s = buf \o net[fd].in
       /\ Serving(j, net[fd], x, 0, u)
       /\ Well(net[fd]) => Follows(Left(conn[c], net[fd], s), Left(j, net[fd], u))
  BY <1>4, <1>9, <1>10 DEF Follows
<1>12. /\ r.ae.rproc[fd] = ae.rproc[fd] /\ r.ae.wproc[fd] = ae.wproc[fd]
       /\ x <=> "W" \in r.ae.mask[fd]
       /\ j.parser # "dead" /\ (~cfg.delay /\ ~conn[c].delayed => ~j.delayed)
       /\ conn[c].parser # "dead"
  BY <1>1, <1>4, <1>5, <1>6, <1>8
<1> QED BY <1>6, <1>7, <1>11, <1>12, ParseGoes

LEMMA ParseCompleteClose ==
    ASSUME IInv, TypeOK', CycleInv, NEW c \in Conns, NEW fd, ParseStart(c, fd), ParseOn,
           conn[c].parser = "mid", Head(buf) = "C", NEW ok,
           Become(reconnect_socket([Completed(Here, c) EXCEPT !.conn[c].parser = "dead"], c, ok))
    PROVE  Stepped(c)
<1> DEFINE t == Completed(Here, c)
           s == [t EXCEPT !.conn[c].parser = "dead"]
<1>1. /\ Kept(Here, t, c) /\ t.net = net /\ t.conn[c] \in Connection
      /\ t.conn[c].fd = fd
      /\ ~cfg.delay /\ ~conn[c].delayed => ~t.conn[c].delayed
  BY ParseCompletes
<1>2. Become(reconnect_socket(s, c, ok))
  OBVIOUS
<1> HIDE DEF t
<1>3. /\ c \in Live /\ timers[c] = 0 /\ timers' = timers /\ cfg' = cfg
      /\ \A d \in Conns \ {c} : Rest(d)' = Rest(d)
      /\ Loose(Here, c, ToDo') /\ Distinct' /\ (step' = "inR" => reader' = c)
  BY ParseFacts
<1>4. /\ fd \in Fds /\ fd = Here.conn[c].fd
      /\ \A x \in Ev : <<fd, x>> \in ToDo' => fd \notin Here.stale
  BY ParseServed, HereIs DEF ParseStart
<1>5. cfg.answers # {"K"}
  <2> SUFFICES ASSUME cfg.answers = {"K"} PROVE FALSE
    OBVIOUS
  <2>1. PICK k \in Connection, n \in Socket, u \in Seq(Tokens), w \in BOOLEAN :
          Parses(c, fd, k, n, u, w)
    BY ParseStream
  <2>2. k = conn[c] /\ u # <<>> /\ Head(u) = Head(buf) /\ KeptAlive(k, n, u)
    BY <2>1 DEF Parses
  <2>3. k.parser = "mid" /\ Alternates("mid", u)
    BY <2>2 DEF KeptAlive
  <2>4. Head(u) = "K"
    BY <2>2, <2>3, StreamTail
  <2> QED BY <2>2, <2>4
<1>6. PICK j \in Connection :
        /\ j = [t.conn[c] EXCEPT !.parser = "dead"]
        /\ j.parser = "dead" /\ j.fd = fd
        /\ ~cfg.delay /\ ~conn[c].delayed => ~j.delayed
  <2>1. PICK i \in Connection : i = t.conn[c]
    BY <1>1
  <2> DEFINE j == [i EXCEPT !.parser = "dead"]
  <2>2. j \in Connection
    BY DEF Connection
  <2>3. j.parser = "dead" /\ j.fd = i.fd /\ j.delayed = i.delayed
    BY DEF Connection
  <2> QED BY <1>1, <2>1, <2>2, <2>3
<1>7. s = [t EXCEPT !.conn[c] = j]
  <2>1. t \in Part
    BY <1>1 DEF Kept
  <2>2. PICK C \in [Conns -> Connection] : C = t.conn
    BY <2>1 DEF Part
  <2>3. [C EXCEPT ![c].parser = "dead"] = [C EXCEPT ![c] = j]
    BY <1>6, <2>2
  <2> QED BY <2>1, <2>2, <2>3 DEF Part
<1> HIDE DEF s
<1>8. Kept(Here, s, c) /\ s.conn[c] = j /\ s.net = net
  <2>1. t \in Part /\ Sound(t, Live) /\ Owns(t, c) /\ j.fd = t.conn[c].fd
    BY <1>1, <1>6 DEF Kept
  <2>2. Kept(t, s, c) /\ s.conn[c] = j /\ s.net = t.net
    BY <1>7, <2>1, StructEffect
  <2> QED BY <1>1, <2>2, KeptTransitive
<1>9. Fit(s, ToDo')
  <2>1. Fit(Here, ToDo') /\ s.net = Here.net
    BY <1>3, <1>8, HereIs DEF Loose
  <2> QED BY <1>4, <1>8, <2>1, SameFit
<1>10. Loose(s, c, ToDo') /\ Only(Here, s, c)
  BY <1>3, <1>8, <1>9, KeptLoose
<1>11. /\ ~cfg.delay => ~s.conn[c].delayed
       /\ cfg.answers = {"K"} => s.conn[c].parser # "dead"
       /\ step' = "inR" => reader' = c /\ s.conn[c].parser = "dead"
       /\ \A x \in Sockets : x \in (s.stale \ stale) \cup ({s.conn[c].fd} \cap Open(s)) =>
                cfg.ssl \/ cfg.answers # {"K"} \/ ~Healthy(x)
  BY <1>3, <1>5, <1>6, <1>8 DEF CycleInv
<1> QED BY <1>2, <1>3, <1>10, <1>11, CutStep

LEMMA ParseCompleteStep ==
    ASSUME IInv, TypeOK', CycleInv, NEW c \in Conns, ParseComplete(c)
    PROVE  Stepped(c)
<1>1. PICK fd : fd = conn[c].fd
  OBVIOUS
<1>2. ParseStart(c, fd) /\ ParseOn /\ conn[c].parser = "mid"
  BY <1>1 DEF ParseComplete, ParseStart
<1>3. CASE /\ Head(buf) = "K"
           /\ Become([Completed(Here, c) EXCEPT !.conn[c].parser = "start"])
  BY <1>2, <1>3, ParseCompleteKeep
<1>4. ASSUME Head(buf) = "C",
             NEW ok \in Connecting,
             Become(reconnect_socket([Completed(Here, c) EXCEPT !.conn[c].parser = "dead"], c, ok))
      PROVE  Stepped(c)
  BY <1>2, <1>4, ParseCompleteClose
<1> QED BY <1>3, <1>4 DEF ParseComplete

(* A delay has passed: the connection is armed to write.                   *)
LEMMA DelayStep ==
    ASSUME IInv, TypeOK', CycleInv, NEW c \in Conns, DelayRequest(c)
    PROVE  Stepped(c)
<1>0. PICK fd : fd = conn[c].fd
  OBVIOUS
<1>1. /\ step = "timers" /\ timers[c] > 0 /\ timers' = [timers EXCEPT ![c] = timers[c] - 1]
      /\ Become(Register([Here EXCEPT !.conn[c].delayed = FALSE], fd, {"W"},
                         "socket_writeable", c))
      /\ cfg' = cfg /\ fired' = fired /\ step' = step /\ reader' = reader /\ buf' = buf
  BY <1>0 DEF DelayRequest, loopVars
<1>2. c \in Live /\ fired = <<>> /\ reader = NoOwner /\ timers \in [Conns -> Nat]
      /\ conn \in [Conns -> Connection] /\ net \in [Sockets -> Socket] /\ TypeOK
  BY <1>1 DEF IInv, Control, TypeOK
<1>3. ToDo' = {} /\ Distinct' /\ Reading'
  BY <1>1, <1>2 DEF ToDo, Distinct, Reading
<1>4. \A d \in Conns : Rest(d) = <<>> /\ Rest(d)' = <<>>
  BY <1>1, <1>2, NoneAssumption DEF Rest, Conns
<1>5. /\ Lives(Here, c, timers[c], Rest(c)) /\ cfg.delay
      /\ cfg.answers = {"K"} => conn[c].parser # "dead"
  BY <1>1 DEF CycleInv
<1>6. Owns(Here, c) /\ Serves(Here, c, timers[c], <<>>)
  BY <1>1, <1>2, <1>4, <1>5 DEF Lives, Waits
<1>7. /\ fd \in Open(Here) /\ fd \in Sockets /\ net[fd] \in Socket /\ net[fd].in \in Seq(Tokens)
      /\ conn[c] \in Connection /\ Here.conn[c].fd = fd /\ Here \in Part /\ Sound(Here, Live)
  BY <1>0, <1>2, <1>6, HereIs, HereInPart DEF Owns, Open, IInv, Socket
<1>8. /\ ae.rproc[fd] = "socket_readable" /\ ae.wproc[fd] = "socket_writeable"
      /\ \E w \in BOOLEAN : Serving(conn[c], net[fd], w, timers[c], net[fd].in)
  <2>1. /\ Here.ae.rproc[fd] = "socket_readable" /\ Here.ae.wproc[fd] = "socket_writeable"
        /\ \E w \in BOOLEAN : /\ w <=> "W" \in Here.ae.mask[fd]
                              /\ Serving(Here.conn[c], Here.net[fd], w, timers[c], Here.net[fd].in)
    BY <1>6, <1>7, ServesStream, HereIs
  <2> QED BY <2>1, HereIs
<1>9. PICK k \in Connection, n \in Socket, s \in Seq(Tokens), w \in BOOLEAN, t \in Nat :
        /\ k = conn[c] /\ n = net[fd] /\ s = net[fd].in /\ t = timers[c]
        /\ Serving(k, n, w, t, s)
  BY <1>2, <1>7, <1>8
<1>10. PICK j \in Connection :
         /\ j = [k EXCEPT !.delayed = FALSE]
         /\ j.fd = fd /\ j.parser = k.parser /\ j.written = k.written /\ j.pending = k.pending
         /\ j.timed = k.timed /\ ~j.delayed
  <2> DEFINE j == [k EXCEPT !.delayed = FALSE]
  <2>1. j \in Connection
    BY DEF Connection
  <2>2. /\ j.fd = k.fd /\ j.parser = k.parser /\ j.written = k.written /\ j.pending = k.pending
        /\ j.timed = k.timed /\ ~j.delayed
    BY DEF Connection
  <2> QED BY <1>0, <1>9, <2>1, <2>2
<1>11. Serving(j, n, TRUE, 0, s) /\ t = 1
  <2>1. t > 0
    BY <1>1, <1>9
  <2>2. /\ TypeOK /\ Serving(k, n, w, t, s) /\ cfg.delay /\ t > 0
        /\ j.parser = k.parser /\ j.written = k.written /\ j.pending = k.pending
        /\ j.timed = k.timed
    BY <1>2, <1>5, <1>9, <1>10, <2>1
  <2> QED BY <2>2, DelayedServing
<1> DEFINE a == [Here EXCEPT !.conn[c] = j]
           r == Register(a, fd, {"W"}, "socket_writeable", c)
<1>12. Kept(Here, a, c) /\ a.conn[c] = j /\ a.net = net /\ a.ae = ae
  <2>1. Here \in Part /\ Sound(Here, Live) /\ Owns(Here, c) /\ j.fd = Here.conn[c].fd
    BY <1>6, <1>7, <1>10
  <2> QED BY <2>1, StructEffect, HereIs
<1>13. a = [Here EXCEPT !.conn[c].delayed = FALSE]
  <2>1. [conn EXCEPT ![c].delayed = FALSE] = [conn EXCEPT ![c] = j]
    BY <1>2, <1>9, <1>10
  <2> QED BY <1>7, <2>1 DEF Part, Here
<1> HIDE DEF a
<1>14. /\ Kept(a, r, c) /\ r.net = a.net /\ r.conn = a.conn
       /\ r.ae.mask[fd] = a.ae.mask[fd] \cup {"W"}
       /\ r.ae.rproc[fd] = a.ae.rproc[fd] /\ r.ae.wproc[fd] = "socket_writeable"
  <2>1. /\ a \in Part /\ Sound(a, Live) /\ c \in Live /\ Owns(a, c) /\ fd = a.conn[c].fd
        /\ Here.conn[c].fd = fd
    BY <1>2, <1>7, <1>10, <1>12 DEF Kept
  <2> QED BY <2>1, ArmWrite
<1>15. Become(r)
  BY <1>1, <1>13
<1> HIDE DEF r
<1>16. Kept(Here, r, c)
  BY <1>12, <1>14, KeptTransitive
<1>17. /\ timers'[c] = 0
       /\ \A d \in Conns \ {c} : timers'[d] = timers[d] /\ Rest(d)' = Rest(d)
  BY <1>1, <1>2, <1>4, <1>9, <1>11
<1>18. /\ s = Rest(c)' \o r.net[fd].in /\ s = Rest(c) \o net[fd].in
       /\ Serving(r.conn[c], r.net[fd], TRUE, 0, s)
       /\ "W" \in r.ae.mask[fd] /\ r.ae.rproc[fd] = "socket_readable"
       /\ ~r.conn[c].delayed /\ (cfg.answers = {"K"} => r.conn[c].parser # "dead")
  <2>1. <<>> \o s = s
    OBVIOUS
  <2>2. /\ s = Rest(c)' \o r.net[fd].in /\ s = Rest(c) \o net[fd].in
    BY <1>4, <1>9, <1>12, <1>14, <2>1
  <2>3. Serving(r.conn[c], r.net[fd], TRUE, 0, s)
    BY <1>9, <1>11, <1>12, <1>14
  <2>4. "W" \in r.ae.mask[fd] /\ r.ae.rproc[fd] = "socket_readable"
    BY <1>8, <1>12, <1>14
  <2>5. ~r.conn[c].delayed /\ (cfg.answers = {"K"} => r.conn[c].parser # "dead")
    <3>1. r.conn[c] = j
      BY <1>12, <1>14
    <3>2. j.parser = conn[c].parser /\ ~j.delayed
      BY <1>9, <1>10
    <3> QED BY <1>5, <3>1, <3>2
  <2> QED BY <2>2, <2>3, <2>4, <2>5
<1>19. r.net[fd].state = "up" /\ ~r.net[fd].eof =>
            /\ net[fd].state = "up" /\ ~net[fd].eof
            /\ Follows(Left(conn[c], net[fd], s), Left(r.conn[c], r.net[fd], s))
  <2>1. r.net[fd] = n /\ r.conn[c] = j /\ net[fd] = n /\ conn[c] = k
    BY <1>9, <1>12, <1>14
  <2>2. Left(j, n, s) = Left(k, n, s)
    BY <1>10 DEF Left
  <2> QED BY <2>1, <2>2 DEF Follows
<1>20. Fit(r, ToDo')
  BY <1>3 DEF Fit, FitAt
<1>21. TRUE \in BOOLEAN /\ (TRUE <=> "W" \in r.ae.mask[fd])
  BY <1>18
<1> QED BY <1>0, <1>1, <1>3, <1>6, <1>8, <1>14, <1>15, <1>16, <1>17, <1>18, <1>19, <1>20, <1>21, ServedStep

(* thread_main connects c.                                                 *)
LEMMA ConnectStep ==
    ASSUME IInv, TypeOK', CycleInv, NEW c \in Conns, ConnectNext(c)
    PROVE  Stepped(c)
<1>1. PICK ok \in Connecting : Become(connect_socket(Here, c, ok))
  BY DEF ConnectNext
<1>2. /\ step = "setup" /\ c \in todo /\ timers' = timers /\ cfg' = cfg /\ fired' = fired
      /\ step' = step /\ reader' = reader /\ buf' = buf
  BY DEF ConnectNext, loopVars
<1>3. c \notin Live /\ fired = <<>> /\ reader = NoOwner /\ timers[c] = 0
  BY <1>2 DEF IInv, Control, TypeOK, Live
<1>4. ToDo' = {} /\ Distinct' /\ Reading'
  BY <1>2, <1>3 DEF ToDo, Distinct, Reading
<1>5. \A d \in Conns : Rest(d) = <<>> /\ Rest(d)' = <<>>
  BY <1>2, <1>3, NoneAssumption DEF Rest, Conns
<1>6. Here \in Part /\ Sound(Here, Live)
  BY HereInPart DEF IInv
<1>7. ASSUME NEW x \in Open(Here)
      PROVE  x \in Fds /\ ae.data[x] # c
  <2>1. x \in Fds
    BY <1>6 DEF Sound, Held
  <2>2. Here.ae.data[x] \in Live \cup {NoOwner}
    BY <1>6, <2>1 DEF Sound
  <2> QED BY <1>3, <2>1, <2>2, HereIs, NoneAssumption DEF Conns
<1> DEFINE r == connect_socket(Here, c, ok)
<1>8. r \in Part /\ Tried(Here, r, c)
  <2>1. \A x \in Open(Here) : Here.ae.data[x] # c
    BY <1>7, HereIs
  <2> QED BY <1>6, <2>1, ConnectSound DEF Keeps
<1> HIDE DEF r
<1>9. Here' = r /\ stale' = r.stale /\ conn' = r.conn
  BY <1>1, <1>8, HereBecomes DEF r
<1>10. r.stale = stale
  BY <1>8, HereIs DEF Tried
<1>11. KeepsHealthy
  BY <1>9, <1>10 DEF KeepsHealthy
<1>12. Fit(r, ToDo')
  BY <1>4 DEF Fit, FitAt
<1>13. Registered(Here) /\ ~Owns(Here, c) /\ Here.conn \in [Conns -> Connection]
  BY <1>6, <1>7, HereIs DEF CycleInv, Owns, Part
<1>14. /\ Only(Here, r, c) /\ Registered(r)
       /\ r.conn[c].parser = conn[c].parser /\ r.conn[c].delayed = conn[c].delayed
       /\ Lives(r, c, 0, <<>>) /\ ~Works(r, c)
  <2>1. CASE r.ae = Here.ae /\ r.net = Here.net /\ r.conn = Here.conn
    <3>1. Only(Here, r, c)
      BY <2>1 DEF Only, SameAt
    <3>2. Open(r) = Open(Here) /\ ~Owns(r, c)
      BY <1>13, <2>1 DEF Open, Owns
    <3> QED BY <1>13, <2>1, <3>1, <3>2, HereIs DEF Registered, Lives, Works
  <2>2. ASSUME NEW fd \in Fds, Taken(Here, r, c, fd)
        PROVE  /\ Only(Here, r, c) /\ Registered(r)
               /\ r.conn[c].parser = conn[c].parser /\ r.conn[c].delayed = conn[c].delayed
               /\ Lives(r, c, 0, <<>>) /\ ~Works(r, c)
    <3>1. /\ fd \in Sockets /\ fd \notin Open(Here)
          /\ Open(r) = Open(Here) \cup {fd}
          /\ r.conn = [Here.conn EXCEPT ![c].fd = fd]
          /\ r.net[fd] = Fresh /\ r.ae.data[fd] = c
          /\ r.ae.rproc[fd] = "socket_connected" /\ r.ae.wproc[fd] = "socket_connected"
          /\ \A x \in Fds \ {fd} : SameAt(Here, r, x)
      BY <2>2 DEF Taken
    <3>2. \A d \in Conns \ {c} : r.conn[d] = Here.conn[d]
      BY <1>13, <3>1
    <3>3. /\ r.conn[c].fd = fd /\ r.conn[c].parser = conn[c].parser
          /\ r.conn[c].delayed = conn[c].delayed
      BY <1>13, <3>1, HereIs DEF Connection
    <3>4. Only(Here, r, c)
      BY <3>1, <3>2 DEF Only
    <3>5. Registered(r)
      BY <1>13, <3>1 DEF Registered, SameAt
    <3>6. Waits(r, c, 0) /\ Owns(r, c)
      BY <3>1, <3>3 DEF Waits, Silent, Well, Fresh, Closed, Owns
    <3> QED BY <3>1, <3>3, <3>4, <3>5, <3>6 DEF Lives, Works
  <2> QED BY <1>8, <2>1, <2>2 DEF Tried
<1>15. Moves(c)
  BY <1>9, <1>14 DEF Moves
<1>16. Own(Here', c, timers'[c], Rest(c)')
  <2>1. /\ ~cfg.delay => timers[c] = 0 /\ ~conn[c].delayed
        /\ cfg.answers = {"K"} => conn[c].parser # "dead"
    BY DEF CycleInv
  <2> QED BY <1>2, <1>3, <1>5, <1>9, <1>14, <2>1 DEF Own
<1> QED BY <1>2, <1>4, <1>5, <1>9, <1>11, <1>12, <1>14, <1>15, <1>16, CycleStep

---------------------------------------------------------------------------
(* The steps of the loop that call no handler, of the main thread, of the  *)
(* clock and of the server.                                                *)

(* Only what there is to do changes.                                       *)
LEMMA IdleStep ==
    ASSUME IInv, TypeOK', CycleInv,
           UNCHANGED <<cfg, ae, net, conn, timers, reader, buf, stale>>,
           ToDo' \subseteq ToDo, Distinct', Reading'
    PROVE  Stepped(NoOwner)
<1>1. /\ cfg' = cfg /\ conn' = conn /\ ae' = ae /\ net' = net /\ stale' = stale
      /\ \A d \in Conns : timers'[d] = timers[d] /\ Rest(d)' = Rest(d)
  BY DEF Rest
<1>2. Only(Here, Here', NoOwner) /\ Registered(Here')
  BY <1>1, HereIs DEF CycleInv, Only, SameAt, Registered, Open
<1>3. Fit(Here', ToDo')
  <2> SUFFICES ASSUME NEW x \in Fds PROVE FitAt(Here', ToDo', x)
    BY DEF Fit
  <2>1. FitAt(Here, ToDo, x)
    BY DEF CycleInv, Fit
  <2>2. /\ x \in Sockets => Here'.net[x] = Here.net[x]
        /\ x \in Here'.stale <=> x \in Here.stale
        /\ Silent(Here, x) => Silent(Here', x)
    BY <1>1, HereIs DEF Silent
  <2> QED BY <2>1, <2>2, FitKept
<1>4. KeepsHealthy
  BY <1>1 DEF KeepsHealthy
<1>5. NoOwner \notin Conns
  BY NoneAssumption DEF Conns
<1>6. \A d \in Conns \ {NoOwner} : timers'[d] = timers[d] /\ Rest(d)' = Rest(d)
  BY <1>1
<1> QED BY <1>1, <1>2, <1>3, <1>4, <1>5, <1>6, CycleStep

LEMMA LoopStep ==
    ASSUME IInv, TypeOK', CycleInv,
           EnterMain \/ SkipReadable \/ SkipWritable \/ TimersDone \/ RecordRate
    PROVE  Stepped(NoOwner)
<1>1. /\ UNCHANGED <<cfg, ae, net, conn, timers, reader, buf, stale>>
      /\ step \in {"setup", "R", "W", "timers"} /\ step' # "inR"
      /\ \/ fired' = fired /\ (step' = "R" => step = "R")
         \/ step = "W" /\ fired' = Tail(fired)
  BY DEF EnterMain, SkipReadable, SkipWritable, NextEntry, TimersDone, RecordRate, loopVars
<1>2. fired \in Seq(Entry) /\ (step = "W" => fired # <<>>) /\ Distinct
  BY DEF IInv, TypeOK, CycleInv
<1>3. ToDo' \subseteq ToDo /\ Distinct'
  BY <1>1, <1>2, ToDoOnward
<1>4. Reading'
  BY <1>1 DEF Reading
<1> QED BY <1>1, <1>3, <1>4, IdleStep

(* Steps that leave the loop where it is.                                  *)
LEMMA ToDoSame ==
    ASSUME UNCHANGED <<fired, step>>
    PROVE  ToDo' = ToDo /\ (Distinct' <=> Distinct)
  BY DEF ToDo, Distinct

LEMMA StillStepped ==       \* SetStop, and steps that stutter
    ASSUME IInv, TypeOK', CycleInv,
           UNCHANGED <<cfg, ae, net, conn, timers, fired, step, reader, buf, stale>>
    PROVE  Stepped(NoOwner)
<1>1. ToDo' \subseteq ToDo /\ Distinct'
  BY ToDoSame DEF CycleInv
<1>2. Here'.conn = Here.conn /\ Here'.ae = Here.ae /\ Here'.net = Here.net
  BY HereIs
<1>3. Open(Here') = Open(Here)
  BY <1>2 DEF Open
<1>4. ASSUME NEW d \in Conns
      PROVE  Lives(Here', d, timers[d], Rest(d))
  <2>1. Lives(Here, d, timers[d], Rest(d))
    BY DEF CycleInv
  <2> QED BY <1>2, <1>3, <2>1 DEF Lives, Owns, Waits, Silent, Serves
<1>5. Reading'
  <2>1. /\ UNCHANGED <<cfg, step, fired, reader, buf, timers, ae>>
        /\ \A d \in Conns : conn'[d].fd = conn[d].fd /\ conn'[d].parser = conn[d].parser
    OBVIOUS
  <2> QED BY <1>3, <1>4, <2>1, ReadingKept
<1> QED BY <1>1, <1>5, IdleStep

(* The server, or the kernel, changes the socket of c.                     *)
LEMMA ServerKept ==
    ASSUME IInv, NEW c \in Conns, NEW fd, fd = conn[c].fd, Owns(Here, c),
           NEW o \in Socket, o.state \notin {"closed", "connecting"},
           NEW r \in Part, r.ae = ae, r.conn = conn, r.stale = stale,
           \A x \in Sockets : r.net[x] = IF x = fd THEN o ELSE net[x]
    PROVE  Kept(Here, r, c)
<1>1. Here \in Part /\ Sound(Here, Live) /\ conn \in [Conns -> Connection]
  BY HereInPart DEF IInv, TypeOK
<1>2. PICK k \in Connection : k = conn[c]
  BY <1>1
<1>3. /\ r.ae = Here.ae /\ r.stale = Here.stale /\ k.fd = Here.conn[c].fd
      /\ \A d \in Conns : r.conn[d] = IF d = c THEN k ELSE Here.conn[d]
      /\ \A x \in Sockets : r.net[x] = IF x = Here.conn[c].fd THEN o ELSE Here.net[x]
      /\ o.state # "closed"
      /\ o.state = "connecting" => Here.net[Here.conn[c].fd].state = "connecting"
  BY <1>2, HereIs
<1> QED BY <1>1, <1>3, AlterEffect

(* What is held of c's stream passes from the old socket to the new, o.    *)
Passes(c, fd, o, v, u) ==
    /\ v = Rest(c) \o net[fd].in /\ u = Rest(c) \o o.in
    /\ \A w \in BOOLEAN : Serving(conn[c], net[fd], w, timers[c], v) =>
         /\ Serving(conn[c], o, w, timers[c], u)
         /\ Well(o) =>
              IF net[fd].state = "up" THEN Left(conn[c], o, u) = Left(conn[c], net[fd], v)
                                      ELSE Left(conn[c], o, u) = 0

LEMMA ServerStep ==
    ASSUME IInv, TypeOK', CycleInv, NEW c \in Conns, NEW fd, fd = conn[c].fd, Owns(Here, c),
           UNCHANGED <<conn, othersVars>>,
           NEW o \in Socket, net' = [net EXCEPT ![fd] = o],
           o.state \in {"up", "refused", "reset"},
           Silent(Here, fd) => o.owed = 0 /\ o.in = <<>> /\ (cfg.delay => Well(o)),
           net[fd].state # "connecting" => \/ o.in # <<>> \/ o.eof \/ o.state # "up"
                                           \/ net[fd].in = <<>> /\ ~net[fd].eof /\ net[fd].state = "up",
           Well(o) => Well(net[fd]),
           NEW v, NEW u, Passes(c, fd, o, v, u)
    PROVE  Stepped(c)
<1>1. /\ cfg' = cfg /\ ae' = ae /\ timers' = timers /\ fired' = fired /\ step' = step
      /\ reader' = reader /\ buf' = buf /\ stale' = stale /\ conn' = conn /\ errors' = errors
  BY DEF othersVars, loopVars
<1>2. TypeOK /\ Here \in Part /\ Sound(Here, Live)
  BY HereInPart DEF IInv
<1>3. fd \in Open(Here) /\ fd \in Sockets /\ fd = Here.conn[c].fd /\ fd \in Fds
  BY <1>2, HereIs DEF Owns, Open, Sound, Held
<1>4. PICK r \in Part : Here' = r /\ r.ae = ae /\ r.conn = conn /\ r.stale = stale /\ r.net = net'
                        /\ Become(r)
  <2>1. Here' \in Part
    BY <1>1, PartHere
  <2> QED BY <1>1, <2>1, HereIs DEF Become, Here
<1>5. r.net[fd] = o /\ r.conn[c] = conn[c]
  BY <1>2, <1>3, <1>4 DEF TypeOK
<1>6. Kept(Here, r, c)
  <2>1. \A x \in Sockets : r.net[x] = IF x = fd THEN o ELSE net[x]
    BY <1>2, <1>3, <1>4 DEF TypeOK
  <2>2. o.state \notin {"closed", "connecting"}
    OBVIOUS
  <2>3. r \in Part /\ r.ae = ae /\ r.conn = conn /\ r.stale = stale
    BY <1>4
  <2>4. IInv /\ fd = conn[c].fd /\ Owns(Here, c) /\ o \in Socket
    OBVIOUS
  <2> QED BY ONLY <2>1, <2>2, <2>3, <2>4, ServerKept
<1>7. ToDo' = ToDo /\ Distinct' /\ Fit(Here, ToDo)
  BY <1>1, ToDoSame DEF CycleInv
<1>8. Fit(r, ToDo')
  <2>1. FitAt(Here, ToDo, fd) /\ fd \in Open(r)
    BY <1>3, <1>5, <1>7 DEF Fit, Open
  <2>2. Silent(Here, fd) => Silent(r, fd)
    BY <1>4, <1>5, HereIs DEF Silent
  <2>3. FitAt(r, ToDo, fd)
    <3>1. fd \in Open(Here) /\ r.stale = Here.stale /\ Here.net = net
      BY <1>3, <1>4, HereIs
    <3>2. ASSUME NEW b \in Ev, <<fd, b>> \in ToDo, fd \in r.stale
          PROVE  ~Both(ToDo, fd) /\ Silent(r, fd)
      BY <2>1, <2>2, <3>1, <3>2 DEF FitAt
    <3>3. ASSUME NEW b \in Ev, <<fd, b>> \in ToDo, fd \notin r.stale
          PROVE  /\ r.net[fd].state # "connecting"
                 /\ b = "R" => r.net[fd].in # <<>> \/ r.net[fd].eof \/ r.net[fd].state # "up"
      <4>1. /\ net[fd].state # "connecting"
            /\ b = "R" => net[fd].in # <<>> \/ net[fd].eof \/ net[fd].state # "up"
        BY <2>1, <3>1, <3>3 DEF FitAt
      <4> QED BY <1>5, <4>1
    <3> QED BY <2>1, <3>2, <3>3 DEF FitAt
  <2> QED BY <1>3, <1>6, <1>7, <2>3, KeptFit
<1>9. Lives(Here, c, timers[c], Rest(c))
  BY DEF CycleInv
<1>10. /\ Rest(c)' = Rest(c) /\ \A d \in Conns : timers'[d] = timers[d] /\ Rest(d)' = Rest(d)
  BY <1>1 DEF Rest
<1>11. Lives(r, c, timers[c], Rest(c)) /\ (Moves(c) \/ Unmoved(c))
  <2>1. Owns(r, c)
    BY <1>6 DEF Kept
  <2>2. CASE Waits(Here, c, timers[c])
    <3>1. Silent(Here, fd) /\ timers[c] = 0
      BY <1>3, <2>2 DEF Waits
    <3>2. Silent(r, fd)
      BY <1>4, <1>5, <3>1, HereIs DEF Silent
    <3>3. r.conn[c].fd = fd
      BY <1>3, <1>6 DEF Kept
    <3>4. Waits(r, c, timers[c]) /\ ~Works(r, c)
      BY <1>5, <3>1, <3>2, <3>3 DEF Waits, Works, Silent
    <3> QED BY <1>4, <2>1, <3>4 DEF Lives, Moves
  <2>3. CASE Serves(Here, c, timers[c], Rest(c))
    <3>1. PICK w \in BOOLEAN : (w <=> "W" \in ae.mask[fd]) /\ Serving(conn[c], net[fd], w, timers[c], v)
      <4>0. v = Rest(c) \o net[fd].in
        BY DEF Passes
      <4>1. \E w \in BOOLEAN : (w <=> "W" \in Here.ae.mask[fd])
              /\ Serving(Here.conn[c], Here.net[fd], w, timers[c], Rest(c) \o Here.net[fd].in)
        BY <1>3, <2>3, ServesSays
      <4> QED BY <4>0, <4>1, HereIs
    <3>2. ae.rproc[fd] = "socket_readable" /\ ae.wproc[fd] = "socket_writeable"
      BY <1>3, <2>3, ServesSays, HereIs
    <3>3. Serving(conn[c], o, w, timers[c], u)
      BY <3>1 DEF Passes
    <3>4. fd = r.conn[c].fd
      BY <1>3, <1>6 DEF Kept
    <3>5. Serves(r, c, timers[c], Rest(c))
      <4>1. /\ u = Rest(c) \o r.net[fd].in /\ Serving(r.conn[c], r.net[fd], w, timers[c], u)
            /\ r.ae.rproc[fd] = "socket_readable" /\ r.ae.wproc[fd] = "socket_writeable"
            /\ w <=> "W" \in r.ae.mask[fd]
        BY <1>4, <1>5, <3>1, <3>2, <3>3 DEF Passes
      <4> QED BY <3>4, <4>1, ServesBy
    <3>6. Amount(r, c, Rest(c)') = Left(conn[c], o, u) /\ Amount(Here, c, Rest(c)) = Left(conn[c], net[fd], v)
      BY <1>3, <1>5, <1>10, <3>4, HereIs DEF Amount, Passes
    <3>7. Works(r, c) <=> o.state = "up" /\ ~o.eof
      BY <1>4, <1>5, <2>1, <3>2, <3>4 DEF Works
    <3>8. Works(Here, c) <=> net[fd].state = "up" /\ ~net[fd].eof
      BY <1>3, <3>2, HereIs DEF Works
    <3>9. Well(o) => IF net[fd].state = "up" THEN Left(conn[c], o, u) = Left(conn[c], net[fd], v)
                                            ELSE Left(conn[c], o, u) = 0
      BY <3>1 DEF Passes
    <3>10. Moves(c) \/ Unmoved(c)
      <4>1. CASE ~Works(r, c)
        BY <1>4, <4>1 DEF Moves
      <4>2. CASE Works(r, c)
        <5>1. Well(o) /\ Well(net[fd])
          BY <3>7, <4>2 DEF Well
        <5>2. CASE net[fd].state = "up"
          BY <1>4, <3>6, <3>8, <3>9, <4>2, <5>1, <5>2 DEF Unmoved, Well
        <5>3. CASE net[fd].state # "up"
          BY <1>4, <3>6, <3>8, <3>9, <4>2, <5>1, <5>3 DEF Moves
        <5> QED BY <5>2, <5>3
      <4> QED BY <4>1, <4>2
    <3> QED BY <2>1, <3>5, <3>10 DEF Lives
  <2> QED BY <1>9, <2>2, <2>3 DEF Lives
<1>12. Moves(c)
  BY <1>11 DEF Moves
<1>13. Own(Here', c, timers'[c], Rest(c)')
  <2>1. /\ ~cfg.delay => timers[c] = 0 /\ ~conn[c].delayed
        /\ cfg.answers = {"K"} => conn[c].parser # "dead"
    BY DEF CycleInv
  <2> QED BY <1>4, <1>5, <1>10, <1>11, <2>1 DEF Own
<1>14. Reading'
  <2>1. Only(Here, r, c)
    BY <1>6 DEF Kept
  <2>2. ASSUME NEW d \in Conns
        PROVE  Lives(r, d, timers[d], Rest(d))
    <3>1. CASE d = c
      BY <1>11, <3>1
    <3>2. CASE d # c
      <4>1. Lives(Here, d, timers[d], Rest(d)) /\ d \in Conns \ {c}
        BY <3>2 DEF CycleInv
      <4> QED BY <1>2, <2>1, <4>1, OnlyOthers
    <3> QED BY <3>1, <3>2
  <2>3. Open(r) = Open(Here)
    <3>1. \A x \in Sockets : net'[x] = IF x = fd THEN o ELSE net[x]
      BY <1>2, <1>3 DEF TypeOK
    <3> QED BY <1>3, <1>4, <3>1, HereIs DEF Open
  <2>4. UNCHANGED <<cfg, step, fired, reader, buf, timers, ae>>
    BY <1>1
  <2>5. /\ Open(Here') = Open(Here)
        /\ \A d \in Conns : /\ conn'[d].fd = conn[d].fd /\ conn'[d].parser = conn[d].parser
                            /\ Lives(Here', d, timers[d], Rest(d))
    BY <1>1, <1>4, <2>2, <2>3
  <2> QED BY <2>4, <2>5, ReadingKept
<1>15. Kept(Here, Here', c) /\ Fit(Here', ToDo')
  BY <1>4, <1>6, <1>8
<1> QED BY <1>1, <1>7, <1>10, <1>12, <1>13, <1>14, <1>15, KeptStep

LEMMA SocketOf ==
    ASSUME IInv, CycleInv, NEW fd \in Sockets, net[fd].state # "closed"
    PROVE  \E c \in Conns :
             /\ fd = conn[c].fd /\ Owns(Here, c) /\ Lives(Here, c, timers[c], Rest(c))
             /\ Silent(Here, fd) /\ cfg.delay => Well(net[fd])
             /\ net[fd] \in Socket /\ net[fd].in \in Seq(Tokens) /\ Rest(c) \in Seq(Tokens)
             /\ conn[c] \in Connection /\ timers[c] \in Nat
<1>1. /\ TypeOK /\ fd \in Open(Here)
  BY HereIs DEF Open, IInv
<1>2. Held(Here, fd)
  BY <1>1 DEF IInv, Sound
<1>3. PICK c \in Conns : c = ae.data[fd] /\ conn[c].fd = fd
  BY <1>2, HereIs DEF Held
<1>4. Owns(Here, c)
  BY <1>1, <1>3, HereIs DEF Owns
<1>5. Lives(Here, c, timers[c], Rest(c))
  BY DEF CycleInv
<1>6. /\ net[fd] \in Socket /\ net[fd].in \in Seq(Tokens) /\ conn[c] \in Connection
      /\ timers[c] \in Nat /\ Rest(c) \in Seq(Tokens)
  BY <1>1, StreamEmpty DEF TypeOK, Socket, Rest
<1>7. Silent(Here, fd) /\ cfg.delay => Well(net[fd])
  <2> SUFFICES ASSUME Silent(Here, fd), cfg.delay PROVE Well(net[fd])
    OBVIOUS
  <2>1. ~Serves(Here, c, timers[c], Rest(c))
    BY <1>3, HereIs DEF Silent, Serves
  <2> QED BY <1>3, <1>4, <1>5, <2>1, HereIs DEF Lives, Waits
<1> QED BY <1>3, <1>4, <1>5, <1>6, <1>7

LEMMA AcceptStep ==
    ASSUME IInv, TypeOK', CycleInv, NEW fd \in Sockets, Accept(fd)
    PROVE  \E c : Stepped(c)
<1>1. /\ net[fd].state = "connecting" /\ UNCHANGED <<conn, othersVars>>
      /\ net' = [net EXCEPT ![fd].state = "up"]
  BY DEF Accept
<1>2. PICK c \in Conns :
             /\ fd = conn[c].fd /\ Owns(Here, c) /\ Lives(Here, c, timers[c], Rest(c))
             /\ Silent(Here, fd) /\ cfg.delay => Well(net[fd])
             /\ net[fd] \in Socket /\ net[fd].in \in Seq(Tokens) /\ Rest(c) \in Seq(Tokens)
             /\ conn[c] \in Connection /\ timers[c] \in Nat
  BY <1>1, SocketOf
<1>3. PICK o \in Socket : /\ o = [net[fd] EXCEPT !.state = "up"] /\ o.state = "up"
                          /\ o.eof = net[fd].eof /\ o.owed = net[fd].owed /\ o.in = net[fd].in
  <2> DEFINE o == [net[fd] EXCEPT !.state = "up"]
  <2>1. o \in Socket
    BY <1>2 DEF Socket
  <2>2. o.state = "up" /\ o.eof = net[fd].eof /\ o.owed = net[fd].owed /\ o.in = net[fd].in
    BY <1>2 DEF Socket
  <2> QED BY <2>1, <2>2
<1>4. net' = [net EXCEPT ![fd] = o]
  BY <1>1, <1>3 DEF IInv, TypeOK
<1>5. PICK v \in Seq(Tokens) : v = Rest(c) \o net[fd].in /\ v = Rest(c) \o o.in
  <2>1. PICK a \in Seq(Tokens), b \in Seq(Tokens) : a = Rest(c) /\ b = net[fd].in
    BY <1>2
  <2>2. a \o b \in Seq(Tokens)
    BY StreamJoin
  <2> QED BY <1>3, <2>1, <2>2
<1>6. /\ o.state \in {"up", "refused", "reset"}
      /\ Silent(Here, fd) => o.owed = 0 /\ o.in = <<>> /\ (cfg.delay => Well(o))
      /\ Well(o) => Well(net[fd])
      /\ net[fd].state # "connecting" => \/ o.in # <<>> \/ o.eof \/ o.state # "up"
                                         \/ net[fd].in = <<>> /\ ~net[fd].eof /\ net[fd].state = "up"
  BY <1>1, <1>2, <1>3, HereIs DEF Silent, Well
<1>7. ASSUME NEW w \in BOOLEAN, Serving(conn[c], net[fd], w, timers[c], v)
      PROVE  Serving(conn[c], o, w, timers[c], v) /\ Left(conn[c], o, v) = 0
  <2>1. PICK k \in Connection, n \in Socket, t \in Nat : k = conn[c] /\ n = net[fd] /\ t = timers[c]
    BY <1>2
  <2>2. /\ Serving(k, n, w, t, v) /\ n.state = "connecting" /\ o.state = "up" /\ o.eof = n.eof
        /\ o.owed = n.owed
    BY <1>1, <1>3, <1>7, <2>1
  <2>3. Serving(k, o, w, t, v) /\ Left(k, o, v) = Left(k, n, v) /\ Due(k, n, v) = 0
    BY <2>2, AcceptedServing
  <2>4. n.owed >= 0 /\ TypeOK
    BY <2>2 DEF Serving, Batch, IInv
  <2>5. Left(k, n, v) \in Nat
    BY <2>4, DueTyped
  <2>6. Left(k, n, v) = 0
    <3>1. PICK m \in Nat : m = Left(k, n, v)
      BY <2>5
    <3>2. m + (IF k.parser = "toeof" THEN 1 ELSE 0) = 0
      BY <2>3, <3>1 DEF Due
    <3> QED BY <3>1, <3>2
  <2> QED BY <2>1, <2>3, <2>6
<1>8. Stepped(c)
  <2>1. Passes(c, fd, o, v, v)
    BY <1>1, <1>5, <1>7 DEF Passes
  <2>3. IInv /\ TypeOK' /\ CycleInv
    OBVIOUS
  <2> QED BY ONLY <1>1, <1>2, <1>4, <1>5, <1>6, <2>1, <2>3, ServerStep
<1> QED BY <1>8

(* c->start becomes old.                                                   *)
LEMMA GrowOldStep ==
    ASSUME IInv, TypeOK', CycleInv, NEW c \in Conns, GrowOld(c)
    PROVE  Stepped(c)
<1>1. /\ UNCHANGED <<net, othersVars>> /\ conn' = [conn EXCEPT ![c].late = TRUE]
  BY DEF GrowOld
<1>2. /\ cfg' = cfg /\ ae' = ae /\ timers' = timers /\ fired' = fired /\ step' = step
      /\ reader' = reader /\ buf' = buf /\ stale' = stale /\ net' = net
  BY <1>1 DEF othersVars, loopVars
<1>3. TypeOK /\ conn \in [Conns -> Connection] /\ Here \in Part /\ Here' \in Part
  BY <1>2, HereInPart, PartHere DEF IInv, TypeOK
<1>4. PICK k \in Connection, j \in Connection :
        /\ k = conn[c] /\ j = conn'[c] /\ j.fd = k.fd /\ j.parser = k.parser
        /\ j.written = k.written /\ j.pending = k.pending /\ j.timed = k.timed
        /\ j.delayed = k.delayed
  <2>1. PICK k \in Connection : k = conn[c]
    BY <1>3
  <2> DEFINE j == [k EXCEPT !.late = TRUE]
  <2>2. j \in Connection
    BY DEF Connection
  <2>3. /\ j.fd = k.fd /\ j.parser = k.parser
        /\ j.written = k.written /\ j.pending = k.pending /\ j.timed = k.timed
        /\ j.delayed = k.delayed
    BY DEF Connection
  <2>4. conn'[c] = j
    BY <1>1, <1>3, <2>1
  <2> QED BY <2>1, <2>2, <2>3, <2>4
<1>5. \A d \in Conns \ {c} : conn'[d] = conn[d]
  BY <1>1, <1>3
<1>6. /\ Here'.ae = ae /\ Here'.net = net /\ Here'.stale = stale /\ Here'.conn = conn'
      /\ Open(Here') = Open(Here)
  BY <1>2, HereIs DEF Open
<1>7. Only(Here, Here', c) /\ Registered(Here')
  BY <1>5, <1>6, HereIs DEF Only, SameAt, Registered, CycleInv
<1>8. ToDo' = ToDo /\ Distinct'
  BY <1>2, ToDoSame DEF CycleInv
<1>9. Fit(Here', ToDo')
  <2> SUFFICES ASSUME NEW x \in Fds PROVE FitAt(Here', ToDo', x)
    BY DEF Fit
  <2>1. FitAt(Here, ToDo, x)
    BY DEF CycleInv, Fit
  <2>2. /\ x \in Sockets => Here'.net[x] = Here.net[x]
        /\ x \in Here'.stale <=> x \in Here.stale
        /\ Silent(Here, x) => Silent(Here', x)
    BY <1>6, HereIs DEF Silent
  <2> QED BY <1>8, <2>1, <2>2, FitKept
<1>10. Rest(c) \in Seq(Tokens) /\ \A d \in Conns : timers'[d] = timers[d] /\ Rest(d)' = Rest(d)
  BY <1>2, <1>3, StreamEmpty DEF Rest, TypeOK
<1>11. Lives(Here, c, timers[c], Rest(c))
  BY DEF CycleInv
<1>12. PICK fd : fd = conn[c].fd /\ fd = conn'[c].fd
  BY <1>4
<1>13. Owns(Here', c) <=> Owns(Here, c)
  BY <1>6, <1>12, HereIs DEF Owns
<1>14. \A s : Left(j, net[fd], s) = Left(k, net[fd], s)
  BY <1>4 DEF Left
<1>15. Lives(Here', c, timers[c], Rest(c))
  <2>1. CASE ~Owns(Here, c)
    BY <1>11, <1>13, <2>1 DEF Lives
  <2>2. CASE Waits(Here, c, timers[c])
    BY <1>6, <1>11, <1>12, <1>13, <2>2, HereIs DEF Lives, Waits, Silent
  <2>3. CASE Owns(Here, c) /\ Serves(Here, c, timers[c], Rest(c))
    <3>1. PICK w \in BOOLEAN : (w <=> "W" \in ae.mask[fd])
            /\ Serving(conn[c], net[fd], w, timers[c], Rest(c) \o net[fd].in)
      <4>1. \E w \in BOOLEAN : (w <=> "W" \in Here.ae.mask[fd])
              /\ Serving(Here.conn[c], Here.net[fd], w, timers[c], Rest(c) \o Here.net[fd].in)
        <5>1. Serves(Here, c, timers[c], Rest(c)) /\ fd = Here.conn[c].fd
          BY <1>12, <2>3, HereIs
        <5> QED BY <5>1, ServesSays
      <4> QED BY <4>1, HereIs
    <3>2. ae.rproc[fd] = "socket_readable" /\ ae.wproc[fd] = "socket_writeable"
      BY <1>12, <2>3, ServesSays, HereIs
    <3>3. PICK n, t, s : n = net[fd] /\ t = timers[c] /\ s = Rest(c) \o net[fd].in
      OBVIOUS
    <3>4. /\ Serving(k, n, w, t, s) /\ j.parser = k.parser /\ j.written = k.written
          /\ j.pending = k.pending /\ j.timed = k.timed
      BY <1>4, <3>1, <3>3
    <3>5. Serving(j, n, w, t, s)
      BY ONLY <3>4, SameServing
    <3>6. /\ Here'.ae.rproc[fd] = "socket_readable" /\ Here'.ae.wproc[fd] = "socket_writeable"
          /\ fd = Here'.conn[c].fd /\ (w <=> "W" \in Here'.ae.mask[fd])
          /\ s = Rest(c) \o Here'.net[fd].in
          /\ Serving(Here'.conn[c], Here'.net[fd], w, timers[c], s)
      BY <1>4, <1>6, <1>12, <3>1, <3>2, <3>3, <3>5
    <3>7. Serves(Here', c, timers[c], Rest(c))
      BY ONLY <3>6, ServesBy
    <3> QED BY <1>13, <2>3, <3>7 DEF Lives
  <2> QED BY <1>11, <2>1, <2>2, <2>3 DEF Lives
<1>16. Unmoved(c) /\ Moves(c)
  <2>1. Works(Here', c) <=> Works(Here, c)
    BY <1>6, <1>12, <1>13, HereIs DEF Works
  <2>2. Amount(Here', c, Rest(c)') = Amount(Here, c, Rest(c))
    BY <1>4, <1>6, <1>10, <1>12, <1>14, HereIs DEF Amount
  <2> QED BY <2>1, <2>2 DEF Unmoved, Moves
<1>17. Own(Here', c, timers'[c], Rest(c)')
  <2>1. /\ ~cfg.delay => timers[c] = 0 /\ ~conn[c].delayed
        /\ cfg.answers = {"K"} => conn[c].parser # "dead"
    BY DEF CycleInv
  <2>2. conn'[c].delayed = conn[c].delayed /\ conn'[c].parser = conn[c].parser
    BY <1>4
  <2> QED BY <1>6, <1>10, <1>15, <2>1, <2>2 DEF Own
<1>18. Reading'
  <2>1. ASSUME NEW d \in Conns
        PROVE  /\ conn'[d].fd = conn[d].fd /\ conn'[d].parser = conn[d].parser
               /\ Lives(Here', d, timers[d], Rest(d))
    <3>1. CASE d = c
      BY <1>4, <1>15, <3>1
    <3>2. CASE d # c
      <4>1. Lives(Here, d, timers[d], Rest(d)) /\ d \in Conns \ {c}
        BY <3>2 DEF CycleInv
      <4> QED BY <1>3, <1>5, <1>7, <4>1, OnlyOthers
    <3> QED BY <3>1, <3>2
  <2>2. UNCHANGED <<cfg, step, fired, reader, buf, timers, ae>>
    BY <1>2
  <2> QED BY <1>6, <2>1, <2>2, ReadingKept
<1>19. KeepsHealthy
  BY <1>2 DEF KeepsHealthy
<1>20. cfg' = cfg /\ \A d \in Conns \ {c} : timers'[d] = timers[d] /\ Rest(d)' = Rest(d)
  BY <1>2, <1>10
<1> QED BY <1>7, <1>8, <1>9, <1>16, <1>17, <1>18, <1>19, <1>20, CycleStep

(* A stream that keeps its beginning and loses its end.                    *)
Shorter(s, r) ==
    /\ Ends(r) <= Ends(s) /\ (~Cut(s) /\ Cut(r) => Ends(r) < Ends(s))
    /\ s = <<>> => r = <<>>
    /\ \A p \in {"start", "mid"} : Alternates(p, s) => Alternates(p, r)

LEMMA FrontJoin ==
    ASSUME NEW s \in Seq(Tokens), NEW u \in Seq(Tokens), u # <<>>
    PROVE  Front(s \o u) = s \o Front(u)
<1> DEFINE q == s \o u
           f == Front(u)
           g == Front(q)
           h == s \o f
<1>1. /\ q \in Seq(Tokens) /\ Len(q) = Len(s) + Len(u) /\ Len(s) \in Nat /\ Len(u) \in Nat \ {0}
      /\ \A i \in 1 .. Len(s) : q[i] = s[i]
      /\ \A i \in 1 .. Len(u) : q[Len(s) + i] = u[i]
      /\ q # <<>>
  OBVIOUS
<1>2. /\ f \in Seq(Tokens) /\ Len(f) = Len(u) - 1
      /\ \A i \in 1 .. Len(u) - 1 : f[i] = u[i]
  <2>1. PICK m : m = Len(u) - 1 /\ m \in 0 .. Len(u) /\ f = SubSeq(u, 1, m)
    BY <1>1 DEF Front
  <2>2. LET v == SubSeq(u, 1, m) IN v \in Seq(Tokens) /\ Len(v) = m /\ \A i \in 1 .. m : v[i] = u[i]
    BY ONLY u \in Seq(Tokens), <2>1
  <2> QED BY <2>1, <2>2
<1> HIDE DEF q, f
<1>3. /\ g \in Seq(Tokens) /\ Len(g) = Len(q) - 1
      /\ \A i \in 1 .. Len(q) - 1 : g[i] = q[i]
  BY <1>1 DEF Front
<1>4. /\ h \in Seq(Tokens) /\ Len(h) = Len(s) + Len(f)
      /\ \A i \in 1 .. Len(s) : h[i] = s[i]
      /\ \A i \in 1 .. Len(f) : h[Len(s) + i] = f[i]
  <2>1. f \in Seq(Tokens)
    BY <1>2
  <2> QED BY <2>1
<1> HIDE DEF g, h
<1>5. Len(g) = Len(h) /\ Len(f) \in Nat
  BY <1>1, <1>2, <1>3, <1>4
<1>6. ASSUME NEW i \in 1 .. Len(g)
      PROVE  g[i] = h[i]
  <2>1. CASE i <= Len(s)
    <3>1. i \in 1 .. Len(s) /\ i \in 1 .. Len(q) - 1
      BY <1>1, <1>3, <2>1
    <3> QED BY <1>1, <1>3, <1>4, <3>1
  <2>2. CASE ~(i <= Len(s))
    <3>1. i - Len(s) \in 1 .. Len(f)
      BY <1>1, <1>2, <1>3, <1>4, <1>5, <2>2
    <3>2. PICK m \in 1 .. Len(f) : m = i - Len(s)
      BY <3>1
    <3>3. i = Len(s) + m /\ m \in 1 .. Len(u) - 1 /\ m \in 1 .. Len(u) /\ i \in 1 .. Len(q) - 1
      BY <1>1, <1>2, <1>3, <3>2
    <3>4. g[i] = u[m] /\ h[i] = u[m]
      BY <1>1, <1>2, <1>3, <1>4, <3>3
    <3> QED BY <3>4
  <2> QED BY <2>1, <2>2
<1>7. g = h
  BY <1>3, <1>4, <1>5, <1>6
<1> QED BY <1>7 DEF g, h, q, f

LEMMA JoinNothing ==
    ASSUME NEW s \in Seq(Tokens)
    PROVE  s \o <<>> = s /\ <<>> \o s = s
  OBVIOUS

LEMMA Shortened ==
    ASSUME NEW b \in Seq(Tokens), NEW i \in Seq(Tokens), NEW j \in Seq(Tokens),
           j = i \/ j = <<>> \/ (i # <<>> /\ j = Front(i))
    PROVE  Shorter(b \o i, b \o j)
<1>1. CASE i = <<>>
  <2>1. j = i
    BY <1>1 DEF Front
  <2>2. PICK s \in Seq(Tokens) : s = b \o i
    BY StreamJoin
  <2>3. Ends(s) \in Nat
    BY EndsTyped
  <2> QED BY <2>1, <2>2, <2>3 DEF Shorter
<1>2. CASE i # <<>> /\ j = i
  <2>1. PICK s \in Seq(Tokens) : s = b \o i
    BY StreamJoin
  <2>2. Ends(s) \in Nat
    BY EndsTyped
  <2> QED BY <1>2, <2>1, <2>2 DEF Shorter
<1>3. CASE i # <<>> /\ j = <<>>
  <2>1. PICK s \in Seq(Tokens) : s = b \o i
    BY StreamJoin
  <2>2. b \o j = b
    BY <1>3, JoinNothing
  <2>3. /\ Ends(s) = Ends(b) + Ends(i) /\ s # <<>> /\ (Cut(s) <=> Cut(i))
        /\ \A p : Alternates(p, s) => Alternates(p, b)
    BY <1>3, <2>1, StreamJoin
  <2>4. PICK e \in Nat, f \in Nat : e = Ends(b) /\ f = Ends(i)
    BY EndsTyped
  <2>5. ~Cut(i) => f > 0
    <3>1. Front(i) \in Seq(Tokens) /\ Ends(i) = (IF Cut(i) THEN 0 ELSE 1) + Ends(Front(i))
      BY <1>3, StreamFront
    <3>2. PICK g \in Nat : g = Ends(Front(i))
      BY <3>1, EndsTyped
    <3> QED BY <2>4, <3>1, <3>2
  <2>6. PICK d \in Nat : d = Ends(s) /\ d = e + f
    BY <2>3, <2>4
  <2>7. e <= d /\ (~Cut(i) => e < d)
    BY <2>5, <2>6
  <2> QED BY <2>1, <2>2, <2>3, <2>4, <2>6, <2>7 DEF Shorter
<1>4. CASE i # <<>> /\ j = Front(i)
  <2>1. PICK s \in Seq(Tokens) : s = b \o i
    BY StreamJoin
  <2>2. s # <<>> /\ (Cut(s) <=> Cut(i))
    BY <1>4, <2>1, StreamJoin
  <2>3. b \o j = Front(s)
    BY <1>4, <2>1, FrontJoin
  <2>4. /\ Front(s) \in Seq(Tokens) /\ Ends(s) = (IF Cut(s) THEN 0 ELSE 1) + Ends(Front(s))
        /\ \A p \in {"start", "mid"} : Alternates(p, s) => Alternates(p, Front(s))
    BY <2>2, StreamFront
  <2>5. PICK d \in Nat, e \in Nat : d = Ends(s) /\ e = Ends(Front(s))
    BY <2>4, EndsTyped
  <2>6. e <= d /\ (~Cut(s) => e < d)
    BY <2>4, <2>5
  <2> QED BY <2>1, <2>2, <2>3, <2>4, <2>5, <2>6 DEF Shorter
<1> QED BY <1>1, <1>2, <1>3, <1>4

(* The server cuts the socket of c: o is what is left of it.               *)
LEMMA CutOffStep ==
    ASSUME IInv, TypeOK', CycleInv, ~cfg.delay, NEW fd \in Sockets, net[fd].state # "closed",
           UNCHANGED <<conn, othersVars>>, NEW o \in Socket, net' = [net EXCEPT ![fd] = o],
           o.state \in {"up", "refused", "reset"}, o.eof \/ o.state # "up", o.owed = 0,
           o.in = net[fd].in \/ o.in = <<>> \/ (net[fd].in # <<>> /\ o.in = Front(net[fd].in))
    PROVE  \E c : Stepped(c)
<1>1. PICK c \in Conns :
             /\ fd = conn[c].fd /\ Owns(Here, c)
             /\ net[fd] \in Socket /\ net[fd].in \in Seq(Tokens) /\ Rest(c) \in Seq(Tokens)
             /\ conn[c] \in Connection /\ timers[c] \in Nat
  BY SocketOf
<1>2. timers[c] = 0 /\ ~Well(o) /\ o.in \in Seq(Tokens)
  BY DEF CycleInv, Well, Socket
<1>3. PICK b \in Seq(Tokens), i \in Seq(Tokens), j \in Seq(Tokens) :
        b = Rest(c) /\ i = net[fd].in /\ j = o.in
  BY <1>1, <1>2
<1>4. PICK v \in Seq(Tokens), u \in Seq(Tokens) : v = b \o i /\ u = b \o j
  BY StreamJoin
<1>5. Shorter(v, u)
  <2>1. j = i \/ j = <<>> \/ (i # <<>> /\ j = Front(i))
    BY <1>3
  <2> QED BY <1>4, <2>1, Shortened
<1>6. ASSUME NEW w \in BOOLEAN, Serving(conn[c], net[fd], w, timers[c], v)
      PROVE  Serving(conn[c], o, w, timers[c], u)
  <2>1. PICK k \in Connection, n \in Socket : k = conn[c] /\ n = net[fd]
    BY <1>1
  <2>2. /\ Serving(k, n, w, 0, v) /\ ~cfg.delay /\ ~Well(o) /\ o.owed = 0
        /\ o.state # "connecting" /\ TypeOK
        /\ Ends(u) <= Ends(v) /\ (~Cut(v) /\ Cut(u) => Ends(u) < Ends(v)) /\ (v = <<>> => u = <<>>)
        /\ \A p \in {"start", "mid"} : Alternates(p, v) => Alternates(p, u)
    BY <1>2, <1>5, <1>6, <2>1 DEF Shorter, IInv
  <2>3. Serving(k, o, w, 0, u)
    BY <2>2, CutServing
  <2> QED BY <1>2, <2>1, <2>3
<1>7. Passes(c, fd, o, v, u)
  BY <1>2, <1>3, <1>4, <1>6 DEF Passes
<1>8. /\ Silent(Here, fd) => o.owed = 0 /\ o.in = <<>> /\ (cfg.delay => Well(o))
      /\ Well(o) => Well(net[fd])
      /\ net[fd].state # "connecting" => \/ o.in # <<>> \/ o.eof \/ o.state # "up"
                                         \/ net[fd].in = <<>> /\ ~net[fd].eof /\ net[fd].state = "up"
  BY <1>2, HereIs DEF Silent
<1>9. /\ IInv /\ TypeOK' /\ CycleInv /\ UNCHANGED <<conn, othersVars>>
      /\ o \in Socket /\ net' = [net EXCEPT ![fd] = o] /\ o.state \in {"up", "refused", "reset"}
  OBVIOUS
<1>10. Stepped(c)
  BY ONLY <1>1, <1>7, <1>8, <1>9, ServerStep
<1> QED BY <1>10

LEMMA RefuseStep ==
    ASSUME IInv, TypeOK', CycleInv, Orderly, NEW fd \in Sockets, RefuseOrReset(fd)
    PROVE  \E c : Stepped(c)
<1>1. /\ net[fd].state \in {"connecting", "up"} /\ UNCHANGED <<conn, othersVars>>
      /\ net' = [net EXCEPT ![fd] = [Closed EXCEPT
                  !.state = IF net[fd].state = "up" THEN "reset" ELSE "refused"]]
      /\ cfg.faults # {}
  BY DEF RefuseOrReset
<1>2. ~cfg.delay
  BY <1>1, ConfigTyped DEF Orderly, IInv
<1>3. PICK o \in Socket : /\ net' = [net EXCEPT ![fd] = o] /\ o.state \in {"refused", "reset"}
                          /\ o.owed = 0 /\ o.in = <<>>
  <2>1. PICK x \in {"refused", "reset"} : x = IF net[fd].state = "up" THEN "reset" ELSE "refused"
    OBVIOUS
  <2> DEFINE o == [Closed EXCEPT !.state = x]
  <2>2. o \in Socket /\ o.state = x /\ o.owed = 0 /\ o.in = <<>>
    BY FreshTyped DEF Socket, Closed
  <2> QED BY <1>1, <2>1, <2>2
<1> QED BY <1>1, <1>2, <1>3, CutOffStep

LEMMA HangUpStep ==
    ASSUME IInv, TypeOK', CycleInv, Orderly, NEW fd \in Sockets, HangUp(fd)
    PROVE  \E c : Stepped(c)
<1>1. /\ net[fd].state = "up" /\ UNCHANGED <<conn, othersVars>> /\ cfg.faults # {}
  BY DEF HangUp
<1>2. ~cfg.delay
  BY <1>1, ConfigTyped DEF Orderly, IInv
<1>3. net \in [Sockets -> Socket] /\ net[fd] \in Socket /\ net[fd].in \in Seq(Tokens)
  BY DEF IInv, TypeOK, Socket
<1>4. PICK s \in {net[fd].in, IF net[fd].in = <<>> THEN <<>> ELSE Front(net[fd].in)} :
         net' = [net EXCEPT ![fd].eof = TRUE, ![fd].owed = 0, ![fd].in = s]
  BY DEF HangUp
<1>5. s \in Seq(Tokens) /\ (s = net[fd].in \/ (net[fd].in # <<>> /\ s = Front(net[fd].in)))
  BY <1>3, <1>4, StreamFront
<1>6. PICK o \in Socket : /\ net' = [net EXCEPT ![fd] = o] /\ o.state = "up"
                          /\ o.eof /\ o.owed = 0 /\ o.in = s
  <2>0. PICK n \in Socket, i \in Seq(Tokens) : n = net[fd] /\ i = s
    BY <1>3, <1>5
  <2>4. PICK x \in BOOLEAN, a \in Int : x /\ a = 0
    BY 0 \in Int, TRUE \in BOOLEAN
  <2> DEFINE o == [n EXCEPT !.in = i, !.eof = x, !.owed = a]
  <2>1. o \in Socket
    BY DEF Socket
  <2>2. o.state = n.state /\ o.eof = x /\ o.owed = a /\ o.in = i
    BY DEF Socket
  <2>3. net' = [net EXCEPT ![fd] = o]
    <3>1. x = TRUE
      BY <2>4
    <3> QED BY <1>3, <1>4, <2>0, <2>4, <3>1
  <2> QED BY <1>1, <2>0, <2>1, <2>2, <2>3, <2>4
<1>7. /\ net[fd].state # "closed" /\ o.state \in {"up", "refused", "reset"}
      /\ o.eof \/ o.state # "up"
      /\ o.in = net[fd].in \/ o.in = <<>> \/ (net[fd].in # <<>> /\ o.in = Front(net[fd].in))
  BY <1>1, <1>5, <1>6
<1> QED BY <1>1, <1>2, <1>6, <1>7, CutOffStep

LEMMA JoinTwice ==
    ASSUME NEW a \in Seq(Tokens), NEW b \in Seq(Tokens), NEW d \in Seq(Tokens)
    PROVE  a \o (b \o d) = (a \o b) \o d
  OBVIOUS

LEMMA AnswerStep ==
    ASSUME IInv, TypeOK', CycleInv, Orderly, NEW fd \in Sockets, NEW kind \in cfg.answers,
           Answer(fd, kind)
    PROVE  \E c : Stepped(c)
<1>1. /\ net[fd].state = "up" /\ ~net[fd].eof /\ net[fd].owed > 0
      /\ UNCHANGED <<conn, othersVars>>
      /\ net' = [net EXCEPT ![fd].in = @ \o What(kind), ![fd].eof = kind = "E",
                            ![fd].owed = IF kind = "E" THEN 0 ELSE @ - 1]
  BY DEF Answer, Orderly, InTurn, What
<1>2. PICK c \in Conns :
             /\ fd = conn[c].fd /\ Owns(Here, c)
             /\ net[fd] \in Socket /\ net[fd].in \in Seq(Tokens) /\ Rest(c) \in Seq(Tokens)
             /\ conn[c] \in Connection /\ timers[c] \in Nat
  BY <1>1, SocketOf
<1>3. kind \in {"K", "C", "E", "X"} /\ net \in [Sockets -> Socket] /\ TypeOK
  BY WorkerAssumption DEF IInv, TypeOK, Configurations
<1>4. What(kind) \in Seq(Tokens) /\ What(kind) # <<>>
  BY <1>3, AnswerStream
<1>5. PICK b \in Seq(Tokens), i \in Seq(Tokens), d \in Seq(Tokens), a \in Int, x \in BOOLEAN :
        /\ b = Rest(c) /\ i = net[fd].in /\ d = What(kind) /\ a = IF kind = "E" THEN 0 ELSE net[fd].owed - 1
        /\ x = (kind = "E")
  <2>1. net[fd].owed \in Int
    BY <1>2 DEF Socket
  <2>2. PICK a \in Int : a = IF kind = "E" THEN 0 ELSE net[fd].owed - 1
    BY <2>1
  <2>3. PICK x \in BOOLEAN : x = (kind = "E")
    OBVIOUS
  <2>4. PICK b \in Seq(Tokens), i \in Seq(Tokens), d \in Seq(Tokens) :
          b = Rest(c) /\ i = net[fd].in /\ d = What(kind)
    BY <1>2, <1>4
  <2> QED BY <2>2, <2>3, <2>4
<1>6. PICK j \in Seq(Tokens), v \in Seq(Tokens), u \in Seq(Tokens) :
        j = i \o d /\ v = b \o i /\ u = b \o j /\ u = v \o d /\ j # <<>>
  <2>1. PICK j \in Seq(Tokens), v \in Seq(Tokens) : j = i \o d /\ v = b \o i
    BY StreamJoin
  <2>2. PICK u \in Seq(Tokens) : u = b \o j
    BY StreamJoin
  <2>3. u = v \o d
    BY <2>1, <2>2, JoinTwice
  <2>4. j # <<>>
    BY <1>4, <1>5, <2>1, StreamJoin
  <2> QED BY <2>1, <2>2, <2>3, <2>4
<1>7. PICK o \in Socket : /\ net' = [net EXCEPT ![fd] = o] /\ o.state = "up"
                          /\ (o.eof <=> kind = "E") /\ o.owed = a /\ o.in = j
  <2>1. PICK n \in Socket : n = net[fd]
    BY <1>2
  <2> DEFINE o == [n EXCEPT !.in = j, !.eof = x, !.owed = a]
  <2>2. o \in Socket
    BY DEF Socket
  <2>3. o.state = n.state /\ o.eof = x /\ o.owed = a /\ o.in = j
    BY DEF Socket
  <2>4. net' = [net EXCEPT ![fd] = o]
    BY <1>1, <1>3, <1>5, <1>6, <2>1
  <2> QED BY <1>1, <1>5, <2>1, <2>2, <2>3, <2>4
<1>8. ASSUME NEW w \in BOOLEAN, Serving(conn[c], net[fd], w, timers[c], v)
      PROVE  /\ Serving(conn[c], o, w, timers[c], u)
             /\ Well(o) => Left(conn[c], o, u) = Left(conn[c], net[fd], v)
  <2>1. PICK k \in Connection, n \in Socket, t \in Nat : k = conn[c] /\ n = net[fd] /\ t = timers[c]
    BY <1>2
  <2>2. /\ TypeOK /\ Serving(k, n, w, t, v) /\ n.state = "up" /\ ~n.eof /\ n.owed > 0
        /\ o.state = "up" /\ (o.eof <=> kind = "E")
        /\ o.owed = IF kind = "E" THEN 0 ELSE n.owed - 1
        /\ kind \in cfg.answers
    BY <1>1, <1>3, <1>5, <1>7, <1>8, <2>1
  <2>3. /\ Serving(k, o, w, t, v \o What(kind))
        /\ Well(o) => Left(k, o, v \o What(kind)) = Left(k, n, v)
    BY <2>2, AnsweredServing
  <2> QED BY <1>5, <1>6, <2>1, <2>3
<1>9. Passes(c, fd, o, v, u)
  BY <1>1, <1>5, <1>6, <1>7, <1>8 DEF Passes
<1>10. /\ Silent(Here, fd) => o.owed = 0 /\ o.in = <<>> /\ (cfg.delay => Well(o))
       /\ Well(o) => Well(net[fd])
       /\ net[fd].state # "connecting" => \/ o.in # <<>> \/ o.eof \/ o.state # "up"
                                          \/ net[fd].in = <<>> /\ ~net[fd].eof /\ net[fd].state = "up"
  <2>1. ~Silent(Here, fd)
    BY <1>1, HereIs DEF Silent
  <2> QED BY <1>1, <1>6, <1>7, <2>1 DEF Well
<1>11. /\ IInv /\ TypeOK' /\ CycleInv /\ UNCHANGED <<conn, othersVars>>
       /\ o \in Socket /\ net' = [net EXCEPT ![fd] = o] /\ o.state \in {"up", "refused", "reset"}
  BY <1>1, <1>7
<1>12. Stepped(c)
  BY ONLY <1>2, <1>9, <1>10, <1>11, ServerStep
<1> QED BY <1>12

---------------------------------------------------------------------------
(* A poll reports what can be done, and no event twice.                    *)
LEMMA FiredReady ==
    ASSUME NEW a \in EventLoop, NEW r, NEW e \in Fired(a, r)
    PROVE  /\ "R" \in e.mask => "R" \in r[e.fd]
           /\ \A f \in Fired(a, r) : e.fd = f.fd /\ e # f => e.mask \cap f.mask = {}
<1>1. a.api \in {"epoll", "kqueue", "select", "evport"}
  BY BackendAssumption DEF EventLoop
<1>2. "R" \in e.mask => "R" \in r[e.fd]
  <2>1. CASE a.api = "epoll"
    BY <2>1 DEF Fired, EpollFired, Hangup
  <2>2. CASE a.api = "kqueue"
    BY <2>2 DEF Fired, KqueueFired
  <2>3. CASE a.api = "select"
    BY <2>3 DEF Fired, SelectFired
  <2>4. CASE a.api = "evport"
    BY <2>4 DEF Fired, EvportFired
  <2> QED BY <1>1, <2>1, <2>2, <2>3, <2>4
<1>3. ASSUME NEW f \in Fired(a, r), e.fd = f.fd, e # f
      PROVE  e.mask \cap f.mask = {}
  <2>1. a.api = "kqueue"
    BY <1>3, OneEntry
  <2>2. e \in Entry /\ f \in Entry /\ (\E x : e.mask = {x}) /\ (\E x : f.mask = {x})
    BY <1>3, <2>1 DEF Fired, KqueueFired
  <2>3. e.mask # f.mask
    BY <1>3, <2>2 DEF Entry
  <2> QED BY <2>2, <2>3
<1> QED BY <1>2, <1>3

LEMMA PollStep ==
    ASSUME IInv, TypeOK', CycleInv, Poll
    PROVE  Stepped(NoOwner)
<1> DEFINE S == Fired(ae, Readiness)
<1>1. /\ step = "poll" /\ fired' \in Orders(ae, S) /\ ae' = AfterPoll(ae, S)
      /\ step' = (IF S = {} THEN "timers" ELSE "R") /\ stale' = {}
      /\ UNCHANGED <<cfg, net, conn, timers, reader, buf>>
  BY DEF Poll
<1>2. ae \in EventLoop
  BY DEF IInv, TypeOK
<1>3. S \subseteq Entry /\ IsFiniteSet(S)
  BY <1>2, FiredTyped
<1>4. /\ \A i \in DOMAIN fired' : fired'[i] \in S
      /\ \A i, j \in DOMAIN fired' : fired'[i] = fired'[j] => i = j
  BY <1>1, <1>3, OrdersTyped
<1>5. \A e \in S : /\ e.mask # {} => Readiness[e.fd] # {}
                   /\ "R" \in e.mask => "R" \in Readiness[e.fd]
                   /\ \A f \in S : e.fd = f.fd /\ e # f => e.mask \cap f.mask = {}
  BY <1>2, OneEntry, FiredReady
<1>6. /\ ae'.mask = ae.mask /\ ae'.data = ae.data
      /\ ae'.rproc = ae.rproc /\ ae'.wproc = ae.wproc
  BY <1>1, <1>2, PollEffect
<1> HIDE DEF S
<1>7. Distinct'
  <2>1. ASSUME NEW i \in DOMAIN fired', NEW j \in DOMAIN fired', i # j,
               fired'[i].fd = fired'[j].fd
        PROVE  fired'[i].mask \cap fired'[j].mask = {}
    BY <1>4, <1>5, <2>1
  <2> QED BY <2>1 DEF Distinct
<1>8. Reading'
  BY <1>1 DEF Reading
<1>9. /\ Here'.conn = conn /\ Here'.net = net /\ Here'.stale = {} /\ Here'.ae = ae'
      /\ Open(Here') = Open(Here)
  BY <1>1, HereIs DEF Open
<1>10. /\ Only(Here, Here', NoOwner) /\ Registered(Here')
  BY <1>6, <1>9, HereIs DEF CycleInv, Only, SameAt, Registered
<1>11. ASSUME NEW x \in Fds, NEW b \in Ev, <<x, b>> \in ToDo'
       PROVE  /\ x \in Open(Here') /\ net[x].state # "connecting"
              /\ b = "R" => net[x].in # <<>> \/ net[x].eof \/ net[x].state # "up"
  <2>1. PICK i \in DOMAIN fired' : fired'[i].fd = x /\ b \in fired'[i].mask
    BY <1>11, ToDoHasNext
  <2>2. PICK e \in S : e.fd = x /\ b \in e.mask
    BY <1>4, <2>1
  <2>3. Readiness[x] # {} /\ (b = "R" => "R" \in Readiness[x])
    BY <1>5, <2>2
  <2>4. x \in Open(Here) /\ net[x].state # "connecting"
    BY <2>3 DEF Readiness
  <2>5. net[x].state = "up" /\ b = "R" => net[x].in # <<>> \/ net[x].eof
    BY <2>3, <2>4 DEF Readiness
  <2> QED BY <1>9, <2>4, <2>5
<1>12. Fit(Here', ToDo')
  <2> SUFFICES ASSUME NEW x \in Fds PROVE FitAt(Here', ToDo', x)
    BY DEF Fit
  <2>1. x \notin Here'.stale /\ Here'.net = net
    BY <1>9
  <2> QED BY <1>11, <2>1 DEF FitAt
<1>13. KeepsHealthy
  BY <1>1 DEF KeepsHealthy
<1>14. cfg' = cfg /\ \A d \in Conns \ {NoOwner} : timers'[d] = timers[d] /\ Rest(d)' = Rest(d)
  BY <1>1 DEF Rest
<1>15. NoOwner \notin Conns
  BY NoneAssumption DEF Conns
<1> QED BY <1>7, <1>8, <1>10, <1>12, <1>13, <1>14, <1>15, CycleStep

(* Every step of an orderly thread is of one connection.                   *)
LEMMA NextSteps ==
    ASSUME IInv, TypeOK', CycleInv, Orderly, [Next]_vars
    PROVE  \E c : Stepped(c)
<1>1. ASSUME NEW c \in Conns,
             \/ SocketConnected(c) \/ HoldRequest(c) \/ SendRequest(c)
             \/ ReadFails(c) \/ ReadEof(c) \/ ReadBytes(c)
             \/ ParseBegin(c) \/ ParseComplete(c) \/ ParseError(c)
      PROVE  Stepped(c)
  BY <1>1, ConnectedStep, HoldStep, SendStep, ReadFailsStep, ReadEofStep, ReadBytesStep,
     ParseBeginStep, ParseCompleteStep, ParseErrorStep
<1>2. ASSUME NEW c \in Conns, ConnectNext(c) \/ DelayRequest(c) \/ GrowOld(c)
      PROVE  Stepped(c)
  BY <1>2, ConnectStep, DelayStep, GrowOldStep
<1>3. CASE EnterMain \/ SkipReadable \/ SkipWritable \/ TimersDone \/ RecordRate
  BY <1>3, LoopStep
<1>4. CASE Poll
  BY <1>4, PollStep
<1>5. CASE SetStop \/ Ended \/ UNCHANGED vars
  <2>1. UNCHANGED <<cfg, ae, net, conn, timers, fired, step, reader, buf, stale>>
    BY <1>5 DEF SetStop, Ended, vars, othersVars, loopVars
  <2> QED BY <2>1, StillStepped
<1>6. ASSUME NEW fd \in Sockets, Accept(fd) \/ RefuseOrReset(fd) \/ HangUp(fd)
      PROVE  \E c : Stepped(c)
  BY <1>6, AcceptStep, RefuseStep, HangUpStep
<1>7. ASSUME NEW fd \in Sockets, NEW kind \in cfg.answers, Answer(fd, kind)
      PROVE  \E c : Stepped(c)
  BY <1>7, AnswerStep
<1>8. CASE Loop
  BY <1>1, <1>2, <1>3, <1>4, <1>8 DEF Loop, Setup, Handler
<1>9. CASE Timer
  BY <1>2, <1>3, <1>9 DEF Timer
<1>10. CASE Server
  BY <1>6, <1>7, <1>10 DEF Server
<1> QED BY <1>2, <1>5, <1>8, <1>9, <1>10 DEF Next

---------------------------------------------------------------------------
(* Along a behaviour.                                                      *)

LEMMA CfgStays == [Next]_vars => cfg' = cfg
<1> SUFFICES ASSUME [Next]_vars PROVE cfg' = cfg
  OBVIOUS
<1>1. ASSUME NEW c \in Conns,
             \/ SocketConnected(c) \/ HoldRequest(c) \/ SendRequest(c)
             \/ ReadFails(c) \/ ReadEof(c) \/ ReadBytes(c)
             \/ ParseBegin(c) \/ ParseComplete(c) \/ ParseError(c)
      PROVE  cfg' = cfg
  <2>1. CASE SocketConnected(c)
    BY <2>1 DEF SocketConnected, quietVars
  <2>2. CASE HoldRequest(c)
    BY <2>2 DEF HoldRequest
  <2>3. CASE SendRequest(c)
    BY <2>3 DEF SendRequest, quietVars
  <2>4. CASE ReadFails(c)
    BY <2>4 DEF ReadFails, quietVars
  <2>5. CASE ReadEof(c)
    BY <2>5 DEF ReadEof, quietVars
  <2>6. CASE ReadBytes(c)
    BY <2>6 DEF ReadBytes
  <2>7. CASE ParseBegin(c) \/ ParseComplete(c) \/ ParseError(c)
    BY <2>7 DEF ParseBegin, ParseComplete, ParseError, parseQuietVars
  <2> QED BY <1>1, <2>1, <2>2, <2>3, <2>4, <2>5, <2>6, <2>7
<1>2. ASSUME NEW c \in Conns, ConnectNext(c) \/ DelayRequest(c) \/ GrowOld(c)
      PROVE  cfg' = cfg
  BY <1>2 DEF ConnectNext, DelayRequest, GrowOld, othersVars
<1>3. CASE EnterMain \/ SkipReadable \/ SkipWritable \/ TimersDone \/ RecordRate \/ Poll
  BY <1>3 DEF EnterMain, SkipReadable, SkipWritable, TimersDone, RecordRate, Poll
<1>4. CASE SetStop \/ Ended \/ UNCHANGED vars
  BY <1>4 DEF SetStop, Ended, vars, othersVars
<1>5. CASE Server
  BY <1>5 DEF Server, Accept, RefuseOrReset, HangUp, Answer, othersVars
<1>6. CASE Loop
  BY <1>1, <1>2, <1>3, <1>6 DEF Loop, Setup, Handler
<1>7. CASE Timer
  BY <1>2, <1>3, <1>7 DEF Timer
<1> QED BY <1>2, <1>4, <1>5, <1>6, <1>7 DEF Next

LEMMA CycleInit == Init => CycleInv
<1> SUFFICES ASSUME Init PROVE CycleInv
  OBVIOUS
<1>1. IInv
  BY IInvInit
<1>2. /\ ae = CreateEventLoop(cfg.api)
      /\ net = [fd \in Sockets |-> Closed]
      /\ conn = [c \in Conns |-> [fd |-> 0, parser |-> "start", written |-> 0,
                                  pending |-> 0, delayed |-> cfg.delay,
                                  timed |-> FALSE, late |-> FALSE]]
      /\ timers = [c \in Conns |-> 0] /\ fired = <<>> /\ step = "setup"
  BY DEF Init
<1>3. Open(Here) = {}
  BY <1>2 DEF Open, Here, Closed
<1>4. Registered(Here)
  <2>1. \A fd \in Fds : ae.mask[fd] = {}
    BY <1>2 DEF CreateEventLoop
  <2> QED BY <2>1 DEF Registered, Here
<1>5. ToDo = {} /\ Distinct
  BY <1>2 DEF ToDo, Distinct
<1>6. Fit(Here, ToDo)
  BY <1>5 DEF Fit, FitAt
<1>7. Reading
  BY <1>2 DEF Reading
<1>8. ASSUME NEW c \in Conns
      PROVE  /\ Lives(Here, c, timers[c], Rest(c))
             /\ ~cfg.delay => timers[c] = 0 /\ ~conn[c].delayed
             /\ cfg.answers = {"K"} => conn[c].parser # "dead"
  <2>1. ~Owns(Here, c)
    BY <1>3 DEF Owns
  <2> QED BY <1>2, <2>1 DEF Lives
<1> QED BY <1>4, <1>5, <1>6, <1>7, <1>8 DEF CycleInv

LEMMA CycleNext ==
    ASSUME IInv, Orderly => CycleInv, [Next]_vars
    PROVE  /\ (Orderly => CycleInv)'
           /\ cfg' = cfg /\ (Orderly' <=> Orderly)
           /\ Orderly => \E c : Stepped(c)
<1>1. cfg' = cfg
  BY CfgStays
<1>2. Orderly' <=> Orderly
  BY <1>1 DEF Orderly, InTurn
<1>3. TypeOK'
  BY IInvNext DEF IInv
<1>4. Orderly => \E c : Stepped(c)
  BY <1>3, NextSteps
<1>5. (\E c : Stepped(c)) => CycleInv'
  BY DEF Stepped
<1> QED BY <1>1, <1>2, <1>4, <1>5

CycleHolding == IInv /\ (Orderly => CycleInv)

LEMMA CycleHolds == Spec => []CycleHolding
<1>1. Init => CycleHolding
  BY IInvInit, CycleInit DEF CycleHolding
<1>2. CycleHolding /\ [Next]_vars => CycleHolding'
  BY IInvNext, CycleNext DEF CycleHolding
<1> QED BY <1>1, <1>2, PTL DEF Spec

---------------------------------------------------------------------------
(* Working and ToCome are Works and Amount of the state.                   *)

LEMMA WorkingWorks ==
    ASSUME IInv, NEW c \in Conns
    PROVE  Working(c) <=> Works(Here, c)
<1>1. Working(c) <=> c \notin todo /\ Works(Here, c)
  BY DEF Working, Works, Owns, Here
<1>2. Works(Here, c) => c \notin todo
  <2> SUFFICES ASSUME Works(Here, c) PROVE c \notin todo
    OBVIOUS
  <2>1. conn[c].fd \in Open(Here) /\ ae.data[conn[c].fd] = c
    BY DEF Works, Owns, Here
  <2>2. Held(Here, conn[c].fd) /\ Sound(Here, Live)
    BY <2>1 DEF IInv, Sound
  <2>3. ae.data[conn[c].fd] \in Live \cup {NoOwner}
    BY <2>2 DEF Sound, Held, Here
  <2> QED BY <2>1, <2>3, NoneAssumption DEF Conns, Live
<1> QED BY <1>1, <1>2

LEMMA ToComeAmount ==
    ASSUME IInv, NEW c \in Conns, Works(Here, c)
    PROVE  ToCome(c) = Amount(Here, c, Rest(c))
<1> DEFINE fd == conn[c].fd
<1>1. TypeOK /\ fd \in Sockets
  BY DEF IInv, Works, Owns, Open, Here
<1>2. net[fd] \in Socket /\ buf \in Seq(Tokens) /\ conn[c] \in Connection
  BY <1>1 DEF TypeOK
<1>3. net[fd].in \in Seq(Tokens) /\ net[fd].owed \in Int /\ conn[c].written \in 0 .. BatchLen - 1
  BY <1>2 DEF Socket, Connection
<1>4. Rest(c) \in Seq(Tokens)
  BY <1>2 DEF Rest
<1>5. Ends(Rest(c) \o net[fd].in) = Ends(Rest(c)) + Ends(net[fd].in)
  BY <1>3, <1>4, EndsJoin
<1>6. Ends(Rest(c)) = IF reader = c THEN Ends(buf) ELSE 0
  BY EndsEmpty DEF Rest
<1>7. Unsent(conn[c].written) \in Nat /\ Ends(net[fd].in) \in Nat /\ Ends(Rest(c)) \in Nat
  <2>1. cfg.pipeline \in Nat
    BY <1>1, ConfigTyped
  <2>2. conn[c].written \in 0 .. 2 * cfg.pipeline - 1
    BY <1>3 DEF BatchLen
  <2>3. PICK v \in 0 .. 2 * cfg.pipeline - 1 : v = conn[c].written
    BY <2>2
  <2>4. PICK p \in Nat : p = cfg.pipeline
    BY <2>1
  <2>5. v \in 0 .. 2 * p - 1
    BY <2>3, <2>4
  <2>6. p - v \div 2 \in Nat
    BY <2>4, <2>5
  <2>7. Unsent(conn[c].written) \in Nat
    BY <2>3, <2>4, <2>6 DEF Unsent
  <2> QED BY <1>3, <1>4, <2>7, EndsTyped
<1>8. PICK a \in Nat, b \in Int, e \in Nat, g \in Nat :
        /\ a = Unsent(conn[c].written) /\ b = net[fd].owed
        /\ e = Ends(net[fd].in) /\ g = Ends(Rest(c))
  BY <1>3, <1>7
<1>9. ToCome(c) = a + b + e + g
  BY <1>6, <1>8 DEF ToCome, Unsent
<1>10. Amount(Here, c, Rest(c)) = a + b + (g + e)
  BY <1>5, <1>8 DEF Amount, Left, Here
<1>11. a + b + e + g = a + b + (g + e)
  OBVIOUS
<1> QED BY <1>9, <1>10, <1>11

(* A connection that works is served.                                      *)
LEMMA WorksServed ==
    ASSUME IInv, CycleInv, NEW c \in Conns, Works(Here, c)
    PROVE  Serves(Here, c, timers[c], Rest(c)) /\ Owns(Here, c) /\ Well(net[conn[c].fd])
<1>1. Lives(Here, c, timers[c], Rest(c)) /\ Owns(Here, c)
  BY DEF CycleInv, Works
<1>2. ~Waits(Here, c, timers[c])
  BY DEF Works, Waits, Silent
<1> QED BY <1>1, <1>2 DEF Lives, Works, Well, Here

(* While a connection works, c->pending is what is still to come, and when *)
(* nothing is the connection is armed to write, or its delay timer runs    *)
(* (wrk.c:343-349, 395-401, 413-417).                                      *)
THEOREM PendingCounts == Spec => []PendingMatches
<1>1. CycleHolding => PendingMatches
  <2> SUFFICES ASSUME CycleHolding, NEW c \in Conns, Orderly, Working(c)
               PROVE  IF ToCome(c) > 0 THEN conn[c].pending = ToCome(c)
                      ELSE "W" \in ae.mask[conn[c].fd] \/ timers[c] > 0
    BY DEF PendingMatches
  <2>1. IInv /\ CycleInv
    BY DEF CycleHolding
  <2>2. Works(Here, c) /\ ToCome(c) = Amount(Here, c, Rest(c))
    BY <2>1, WorkingWorks, ToComeAmount
  <2> DEFINE n == net[conn[c].fd]
             s == Rest(c) \o n.in
             w == "W" \in ae.mask[conn[c].fd]
  <2>3. Serving(conn[c], n, w, timers[c], s) /\ Well(n)
    BY <2>1, <2>2, WorksServed DEF Serves, Here
  <2>4. Amount(Here, c, Rest(c)) = Left(conn[c], n, s)
    BY DEF Amount, Here
  <2> HIDE DEF n, s, w
  <2>5. Due(conn[c], n, s) = Left(conn[c], n, s)
    <3>1. conn[c].parser # "toeof"
      BY <2>3 DEF Serving, Coming, Ending
    <3>2. Left(conn[c], n, s) \in Int
      <4>1. n \in Socket /\ s \in Seq(Tokens) /\ conn[c] \in Connection /\ TypeOK
        <5>1. TypeOK /\ conn[c].fd \in Sockets
          BY <2>1, <2>2 DEF IInv, Works, Owns, Open, Here
        <5>2. net[conn[c].fd] \in Socket /\ buf \in Seq(Tokens) /\ conn[c] \in Connection
          BY <5>1 DEF TypeOK
        <5>3. net[conn[c].fd].in \in Seq(Tokens) /\ Rest(c) \in Seq(Tokens)
          BY <5>2 DEF Socket, Rest
        <5> QED BY <5>1, <5>2, <5>3, StreamJoin DEF n, s
      <4>2. n.owed >= 0
        BY <2>3 DEF Serving, Batch
      <4> QED BY <4>1, <4>2, DueTyped
    <3>3. PICK l \in Int : l = Left(conn[c], n, s)
      BY <3>2
    <3> QED BY <3>1, <3>3 DEF Due
  <2>6. IF Due(conn[c], n, s) > 0 THEN Due(conn[c], n, s) = conn[c].pending ELSE w \/ timers[c] > 0
    BY <2>3 DEF Serving, Batch
  <2> QED BY <2>2, <2>4, <2>5, <2>6 DEF w
<1> QED BY <1>1, CycleHolds, PTL

(* The handler that is about to be called is called for the connection that *)
(* has the socket.                                                         *)
LEMMA CalledOwner ==
    ASSUME IInv, CycleInv, CallsHandler, NEW c \in Conns, ae.data[CalledOn] = c
    PROVE  /\ CalledOn = conn[c].fd /\ CalledOn \in Sockets /\ Rest(c) = <<>>
           /\ Waits(Here, c, timers[c]) \/ Serves(Here, c, timers[c], <<>>)
           /\ step = "R" => CalledProc = ae.rproc[conn[c].fd]
           /\ step = "W" => /\ CalledProc = ae.wproc[conn[c].fd]
                            /\ "W" \in ae.mask[conn[c].fd]
           /\ step \in {"R", "W"}
<1>1. step \in {"R", "W"} /\ fired # <<>> /\ fired \in Seq(Entry)
  BY DEF CallsHandler, IInv, TypeOK
<1>2. /\ step = "R" => CallsReadable(ae, Head(fired))
      /\ step = "W" => CallsWritable(ae, Head(fired), rfired)
  BY <1>1 DEF CallsHandler
<1>3. CalledOn \in Fds
  <2>1. Head(fired) \in Entry
    BY <1>1
  <2> QED BY <2>1 DEF CalledOn, Entry
<1>4. ae.mask[CalledOn] # {} /\ (step = "W" => "W" \in ae.mask[CalledOn])
  BY <1>1, <1>2 DEF CallsReadable, CallsWritable, CalledOn
<1>5. CalledOn \in Open(Here)
  BY <1>3, <1>4 DEF CycleInv, Registered, Here
<1>6. CalledOn = conn[c].fd /\ Owns(Here, c)
  <2>1. Held(Here, CalledOn)
    BY <1>5 DEF IInv, Sound
  <2> QED BY <1>5, <2>1 DEF Held, Owns, Here
<1>7. Rest(c) = <<>>
  <2>1. reader = NoOwner /\ NoOwner \notin Conns
    BY <1>1, NoneAssumption DEF IInv, TypeOK, Conns
  <2> QED BY <2>1 DEF Rest
<1>8. Waits(Here, c, timers[c]) \/ Serves(Here, c, timers[c], <<>>)
  BY <1>6, <1>7 DEF CycleInv, Lives
<1>9. CalledOn \in Sockets
  BY <1>5 DEF Open
<1> QED BY <1>1, <1>4, <1>6, <1>7, <1>8, <1>9 DEF CalledProc

(* A script's request() and response() calls alternate: a new batch is     *)
(* only begun when nothing of the last one is still to come on the socket  *)
(* it goes to (wrk/SCRIPTING:72-73), where no delay timer can outlive its  *)
(* socket.                                                                 *)
THEOREM BatchesAlternate == Spec => [](Orderly => DelayedCycle)
<1>1. CycleHolding => (Orderly => DelayedCycle)
  <2> SUFFICES ASSUME CycleHolding, Orderly, NEW c \in Conns, BeginsTooSoon(c) PROVE FALSE
    BY DEF DelayedCycle
  <2>1. IInv /\ CycleInv
    BY DEF CycleHolding
  <2> DEFINE fd == conn[c].fd
  <2>2. /\ CallsHandler /\ CalledProc = "socket_writeable" /\ ae.data[CalledOn] = c
        /\ conn[c].written = 0
        /\ net[fd].owed # 0 \/ net[fd].in # <<>>
    BY DEF BeginsTooSoon
  <2>3. /\ fd \in Sockets /\ step \in {"R", "W"}
        /\ Waits(Here, c, timers[c]) \/ Serves(Here, c, timers[c], <<>>)
        /\ step = "R" => ae.rproc[fd] = "socket_writeable"
        /\ step = "W" => ae.wproc[fd] = "socket_writeable" /\ "W" \in ae.mask[fd]
    BY <2>1, <2>2, CalledOwner
  <2> DEFINE n == net[fd]
  <2>9. n \in Socket /\ n.in \in Seq(Tokens) /\ conn[c] \in Connection /\ TypeOK
    <3>1. TypeOK
      BY <2>1 DEF IInv
    <3>2. net[fd] \in Socket /\ conn[c] \in Connection
      BY <2>3, <3>1 DEF TypeOK
    <3> QED BY <3>1, <3>2 DEF Socket
  <2>10. step = "W" /\ "W" \in ae.mask[fd] /\ Serves(Here, c, timers[c], <<>>)
    BY <2>3 DEF Serves, Waits, Silent, Here
  <2> HIDE DEF n
  <2>11. Batch(conn[c], n, TRUE, timers[c], <<>> \o n.in)
    <3>1. ("W" \in ae.mask[fd]) = TRUE
      BY <2>10
    <3> QED BY <2>10, <3>1 DEF Serves, Serving, Here, n
  <2>12. n.owed >= 0 /\ Due(conn[c], n, <<>> \o n.in) = 0 /\ <<>> \o n.in = <<>>
    BY <2>2, <2>11 DEF Batch
  <2>13. n.in = <<>>
    BY <2>9, <2>12
  <2>14. n.owed = 0
    <3>1. Ends(<<>> \o n.in) = 0
      BY <2>12, EndsEmpty
    <3>2. Unsent(conn[c].written) = 0
      BY <2>2 DEF Unsent
    <3>3. PICK o \in Nat : o = n.owed
      BY <2>9, <2>12 DEF Socket
    <3>4. Left(conn[c], n, <<>> \o n.in) = 0 + o + 0
      BY <3>1, <3>2, <3>3 DEF Left
    <3>5. Due(conn[c], n, <<>> \o n.in) >= o
      BY <3>3, <3>4 DEF Due
    <3> QED BY <2>12, <3>3, <3>5
  <2> QED BY <2>2, <2>13, <2>14 DEF n
<1> QED BY <1>1, CycleHolds, PTL

(* A response only completes when one is expected, so that --c->pending     *)
(* never wraps, and the last one of a batch has the batch's own start to   *)
(* measure its latency from (wrk.c:343-347), where no delay timer can      *)
(* outlive its socket.                                                     *)
THEOREM OnlyExpectedResponses == Spec => []ResponseExpected
<1>1. CycleHolding => ResponseExpected
  <2> SUFFICES ASSUME CycleHolding, Orderly, NEW c \in Conns, Completing(c)
               PROVE  conn[c].pending > 0 /\ conn[c].timed
    BY DEF ResponseExpected
  <2>1. IInv /\ CycleInv /\ TypeOK
    BY DEF CycleHolding, IInv
  <2> DEFINE fd == conn[c].fd
             n  == net[fd]
             s  == Rest(c) \o n.in
             w  == "W" \in ae.mask[fd]
  <2>2. /\ Serves(Here, c, timers[c], Rest(c)) /\ fd \in Sockets
        /\ conn[c].parser = "toeof" \/ (Rest(c) # <<>> /\ Head(Rest(c)) # "H")
    <3>1. CASE step = "inR" /\ reader = c /\ conn[c].parser = "mid" /\ Head(buf) \in {"K", "C"}
      <4>1. Owns(Here, c) /\ Serves(Here, c, timers[c], buf)
        BY <2>1, <3>1 DEF CycleInv, Reading
      <4>2. Rest(c) = buf /\ buf # <<>>
        BY <2>1, <3>1 DEF Rest, TypeOK
      <4> QED BY <3>1, <4>1, <4>2 DEF Owns, Open, Here
    <3>2. CASE /\ CallsHandler /\ CalledProc = "socket_readable" /\ ae.data[CalledOn] = c
               /\ conn[c].parser = "toeof"
      <4>1. /\ fd \in Sockets /\ Rest(c) = <<>> /\ step \in {"R", "W"}
            /\ Waits(Here, c, timers[c]) \/ Serves(Here, c, timers[c], <<>>)
            /\ step = "R" => ae.rproc[fd] = "socket_readable"
            /\ step = "W" => ae.wproc[fd] = "socket_readable"
        BY <2>1, <3>2, CalledOwner
      <4>2. ~Waits(Here, c, timers[c])
        BY <4>1 DEF Waits, Silent, Here
      <4> QED BY <3>2, <4>1, <4>2
    <3> QED BY <3>1, <3>2 DEF Completing
  <2>3. n \in Socket /\ n.in \in Seq(Tokens) /\ conn[c] \in Connection /\ Rest(c) \in Seq(Tokens)
    <3>1. n \in Socket /\ conn[c] \in Connection /\ buf \in Seq(Tokens)
      BY <2>1, <2>2 DEF TypeOK
    <3> QED BY <3>1 DEF Socket, Rest
  <2>4. Serving(conn[c], n, w, timers[c], s)
    BY <2>2 DEF Serves, Here
  <2>5. s \in Seq(Tokens) /\ (Rest(c) # <<>> => s # <<>> /\ Head(s) = Head(Rest(c)))
    BY <2>3, TailJoin, StreamJoin
  <2>6. timers[c] \in Nat /\ w \in BOOLEAN
    BY <2>1 DEF TypeOK
  <2> HIDE DEF n, s, w
  <2>7. conn[c].parser = "toeof" \/ (s # <<>> /\ Head(s) # "H")
    BY <2>2, <2>5
  <2> QED BY <2>1, <2>3, <2>4, <2>5, <2>6, <2>7, ExpectedServing
<1> QED BY <1>1, CycleHolds, PTL

(* The client drops no connection that works: where the server answers in  *)
(* turn and no delay timer can outlive its socket, and every answer keeps  *)
(* the connection alive, a step only closes a socket that the server has   *)
(* refused, reset or closed (wrk.c:266-271).                               *)
THEOREM HealthyNotDropped == Spec => HealthyKept
<1>1. CycleHolding /\ [Next]_vars => [Orderly => KeepsHealthy]_vars
  <2> SUFFICES ASSUME CycleHolding, [Next]_vars, Orderly PROVE KeepsHealthy
    OBVIOUS
  <2>1. PICK c : Stepped(c)
    BY CycleNext DEF CycleHolding
  <2> QED BY <2>1 DEF Stepped
<1> QED BY <1>1, CycleHolds, PTL DEF Spec, HealthyKept

---------------------------------------------------------------------------
(* The refinement of RequestCycle.                                         *)

CycleUp  == {c \in Conns : Orderly /\ Working(c)}
CycleDue == [c \in Conns |-> IF Orderly /\ Working(c) THEN ToCome(c) ELSE 0]

Bridged == \A c \in Conns :
    /\ Working(c) <=> Works(Here, c)
    /\ Works(Here, c) => ToCome(c) = Amount(Here, c, Rest(c))

LEMMA Bridge == CycleHolding => Bridged
BY WorkingWorks, ToComeAmount DEF CycleHolding, Bridged

(* Amount and Works of the next state, either way it is written.           *)
LEMMA NextAmount ==
    ASSUME cfg' = cfg, NEW c \in Conns
    PROVE  /\ Works(Here, c)' <=> Works(Here', c)
           /\ Amount(Here, c, Rest(c))' = Amount(Here', c, Rest(c)')
BY DEF Works, Owns, Open, Amount, Left, Unsent, Here, Rest

(* The connection c is the only one that moves in RequestCycle.            *)
LEMMA CycleMoves ==
    ASSUME Orderly, Orderly', cfg' = cfg, Bridged, Bridged', NEW c, Stepped(c)
    PROVE  /\ \A d \in Conns \ {c} : (d \in CycleUp' <=> d \in CycleUp) /\ CycleDue'[d] = CycleDue[d]
           /\ c \in Conns =>
                \/ (c \in CycleUp' <=> c \in CycleUp) /\ CycleDue'[c] = CycleDue[c]
                \/ c \in CycleUp /\ c \notin CycleUp' /\ CycleDue'[c] = 0
                \/ c \notin CycleUp /\ c \in CycleUp' /\ CycleDue'[c] = CycleDue[c]
                \/ /\ c \in CycleUp /\ c \in CycleUp' /\ CycleDue[c] = 0
                   /\ CycleDue'[c] = cfg.pipeline
                \/ /\ c \in CycleUp /\ c \in CycleUp' /\ CycleDue[c] > 0
                   /\ CycleDue'[c] = CycleDue[c] - 1
<1>1. ASSUME NEW d \in Conns
      PROVE  /\ d \in CycleUp <=> Works(Here, d)
             /\ CycleDue[d] = IF Works(Here, d) THEN Amount(Here, d, Rest(d)) ELSE 0
  BY <1>1 DEF CycleUp, CycleDue, Bridged
<1>2. ASSUME NEW d \in Conns
      PROVE  /\ d \in CycleUp' <=> Works(Here', d)
             /\ CycleDue'[d] = IF Works(Here', d) THEN Amount(Here', d, Rest(d)') ELSE 0
  <2>1. /\ Working(d)' <=> Works(Here, d)'
        /\ Works(Here, d)' => ToCome(d)' = Amount(Here, d, Rest(d))'
    BY DEF Bridged
  <2>2. d \in CycleUp' <=> Working(d)'
    BY DEF CycleUp
  <2>3. CycleDue'[d] = IF Working(d)' THEN ToCome(d)' ELSE 0
    BY DEF CycleDue
  <2> QED BY <2>1, <2>2, <2>3, NextAmount
<1>3. ASSUME NEW d \in Conns, Unmoved(d)
      PROVE  (d \in CycleUp' <=> d \in CycleUp) /\ CycleDue'[d] = CycleDue[d]
  BY <1>1, <1>2, <1>3 DEF Unmoved
<1>4. \A d \in Conns \ {c} : Unmoved(d)
  BY DEF Stepped
<1>5. ASSUME c \in Conns
      PROVE  \/ (c \in CycleUp' <=> c \in CycleUp) /\ CycleDue'[c] = CycleDue[c]
             \/ c \in CycleUp /\ c \notin CycleUp' /\ CycleDue'[c] = 0
             \/ c \notin CycleUp /\ c \in CycleUp' /\ CycleDue'[c] = CycleDue[c]
             \/ /\ c \in CycleUp /\ c \in CycleUp' /\ CycleDue[c] = 0
                /\ CycleDue'[c] = cfg.pipeline
             \/ /\ c \in CycleUp /\ c \in CycleUp' /\ CycleDue[c] > 0
                /\ CycleDue'[c] = CycleDue[c] - 1
  <2>1. Moves(c)
    BY <1>5 DEF Stepped
  <2>2. CASE Unmoved(c)
    BY <1>3, <1>5, <2>2
  <2>3. CASE ~Works(Here', c)
    BY <1>1, <1>2, <1>5, <2>3
  <2>4. CASE ~Works(Here, c)
    BY <1>1, <1>2, <1>5, <2>1, <2>2, <2>3, <2>4 DEF Moves
  <2>5. CASE Works(Here, c) /\ Works(Here', c) /\ ~Unmoved(c)
    BY <1>1, <1>2, <1>5, <2>1, <2>5 DEF Moves
  <2> QED BY <2>2, <2>3, <2>4, <2>5
<1> QED BY <1>3, <1>4, <1>5

(* A function that differs at c only.                                      *)
LEMMA DueAltered ==
    ASSUME NEW c \in Conns, \A d \in Conns \ {c} : CycleDue'[d] = CycleDue[d]
    PROVE  CycleDue' = [CycleDue EXCEPT ![c] = CycleDue'[c]]
BY DEF CycleDue

LEMMA CycleStepped ==
    ASSUME CycleHolding, Bridged, Bridged', [Next]_vars
    PROVE  [Cycle!Next]_(Cycle!vars)
<1>1. cfg' = cfg /\ (Orderly' <=> Orderly) /\ (Orderly => \E c : Stepped(c))
  BY CycleNext DEF CycleHolding
<1>2. cfg.pipeline' = cfg.pipeline
  BY <1>1
<1>3. CASE CycleUp' = CycleUp /\ CycleDue' = CycleDue
  BY <1>2, <1>3 DEF Cycle!vars, CycleUp, CycleDue
<1>4. CASE ~Orderly
  <2>1. CycleUp' = CycleUp /\ CycleDue' = CycleDue
    BY <1>1, <1>4 DEF CycleUp, CycleDue
  <2> QED BY <1>3, <2>1
<1>5. ASSUME Orderly, NEW c, Stepped(c), ~(CycleUp' = CycleUp /\ CycleDue' = CycleDue)
      PROVE  Cycle!Next
  <2>1. \A d \in Conns \ {c} : (d \in CycleUp' <=> d \in CycleUp) /\ CycleDue'[d] = CycleDue[d]
    BY <1>1, <1>5, CycleMoves
  <2>2. /\ CycleUp \subseteq Conns /\ CycleUp' \subseteq Conns
        /\ CycleDue = [d \in Conns |-> CycleDue[d]] /\ CycleDue' = [d \in Conns |-> CycleDue'[d]]
    BY DEF CycleUp, CycleDue
  <2>3. c \in Conns
    BY <1>5, <2>1, <2>2
  <2>4. \/ (c \in CycleUp' <=> c \in CycleUp) /\ CycleDue'[c] = CycleDue[c]
        \/ c \in CycleUp /\ c \notin CycleUp' /\ CycleDue'[c] = 0
        \/ c \notin CycleUp /\ c \in CycleUp' /\ CycleDue'[c] = CycleDue[c]
        \/ /\ c \in CycleUp /\ c \in CycleUp' /\ CycleDue[c] = 0
           /\ CycleDue'[c] = cfg.pipeline
        \/ /\ c \in CycleUp /\ c \in CycleUp' /\ CycleDue[c] > 0
           /\ CycleDue'[c] = CycleDue[c] - 1
    BY <1>1, <1>5, <2>3, CycleMoves
  <2>5. CycleDue' = [CycleDue EXCEPT ![c] = CycleDue'[c]]
    BY <2>1, <2>3, DueAltered
  <2>6. CASE (c \in CycleUp' <=> c \in CycleUp) /\ CycleDue'[c] = CycleDue[c]
    <3>1. CycleUp' = CycleUp
      BY <2>1, <2>2, <2>3, <2>6
    <3>2. CycleDue' = CycleDue
      BY <2>1, <2>2, <2>3, <2>6
    <3> QED BY <1>5, <3>1, <3>2
  <2>7. CASE c \in CycleUp /\ c \notin CycleUp' /\ CycleDue'[c] = 0
    <3>1. CycleUp' = CycleUp \ {c} /\ CycleDue' = [CycleDue EXCEPT ![c] = 0]
      BY <2>1, <2>2, <2>5, <2>7
    <3>2. Cycle!Lose(c)
      BY <2>7, <3>1 DEF Cycle!Lose, CycleUp, CycleDue
    <3> QED BY <1>2, <2>3, <3>2 DEF Cycle!Next
  <2>8. CASE c \notin CycleUp /\ c \in CycleUp' /\ CycleDue'[c] = CycleDue[c]
    <3>1. CycleUp' = CycleUp \cup {c} /\ CycleDue' = CycleDue
      BY <2>1, <2>2, <2>3, <2>8
    <3>2. Cycle!Connect(c)
      BY <2>8, <3>1 DEF Cycle!Connect, CycleUp, CycleDue
    <3> QED BY <1>2, <2>3, <3>2 DEF Cycle!Next
  <2>9. CASE /\ c \in CycleUp /\ c \in CycleUp' /\ CycleDue[c] = 0
             /\ CycleDue'[c] = cfg.pipeline
    <3>1. CycleUp' = CycleUp /\ CycleDue' = [CycleDue EXCEPT ![c] = cfg.pipeline]
      BY <2>1, <2>2, <2>5, <2>9
    <3>2. Cycle!Send(c)
      BY <2>9, <3>1 DEF Cycle!Send, CycleUp, CycleDue
    <3> QED BY <1>2, <2>3, <3>2 DEF Cycle!Next
  <2>10. CASE /\ c \in CycleUp /\ c \in CycleUp' /\ CycleDue[c] > 0
              /\ CycleDue'[c] = CycleDue[c] - 1
    <3>1. CycleUp' = CycleUp /\ CycleDue' = [CycleDue EXCEPT ![c] = CycleDue[c] - 1]
      BY <2>1, <2>2, <2>5, <2>10
    <3>2. Cycle!Receive(c)
      BY <2>10, <3>1 DEF Cycle!Receive, CycleUp, CycleDue
    <3> QED BY <1>2, <2>3, <3>2 DEF Cycle!Next
  <2> QED BY <2>4, <2>6, <2>7, <2>8, <2>9, <2>10
<1> QED BY <1>1, <1>3, <1>4, <1>5

LEMMA CycleStarts == Init => Cycle!Init
<1> SUFFICES ASSUME Init PROVE Cycle!Init
  OBVIOUS
<1>1. IInv
  BY IInvInit
<1>2. cfg.pipeline \in Nat \ {0}
  BY <1>1, ConfigTyped DEF IInv
<1>3. \A c \in Conns : ~Working(c)
  <2>1. \A fd \in Sockets : net[fd].state = "closed"
    BY DEF Init, Closed
  <2> QED BY <2>1 DEF Working, Open, Here
<1> QED BY <1>2, <1>3 DEF Cycle!Init

(* The thread implements RequestCycle: each of its steps, and each of the  *)
(* server's, is for one connection a connect, a batch sent, a response     *)
(* received or the loss of the connection, and nothing for the others      *)
(* (wrk.c:236-449).                                                        *)
THEOREM CycleImplemented == Spec => ImplementsCycle
<1>1. Spec => [](CycleHolding /\ Bridged)
  BY CycleHolds, Bridge, PTL
<1>2. CycleHolding /\ Bridged /\ Bridged' /\ [Next]_vars => [Cycle!Next]_(Cycle!vars)
  BY CycleStepped
<1> QED BY <1>1, <1>2, CycleStarts, PTL DEF Spec, ImplementsCycle, Cycle!Spec
=============================================================================
