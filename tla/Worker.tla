------------------------------ MODULE Worker ------------------------------
(***************************************************************************)
(* One worker thread of wrk (wrk/src/wrk.c): thread_main connects its      *)
(* connections and runs the event loop of wrk/src/ae.c, whose handlers     *)
(* socket_connected, socket_writeable, socket_readable, delay_request and  *)
(* record_rate drive each connection through connect, request, response    *)
(* and reconnect.  The server, the network and the main thread move        *)
(* between any two handlers, and while a read buffer is being parsed.      *)
(*                                                                         *)
(* A response is a few tokens of the byte stream:                          *)
(*   "H"  bytes that begin a response     "K"  its end, keep-alive         *)
(*   "C"  its end, "Connection: close"    "E"  a body that ends at EOF     *)
(*   "X"  bytes no HTTP parser accepts                                     *)
(* A request is two units long, so that a write can stop inside one.       *)
(***************************************************************************)
EXTENDS Ae, SequencesExt

CONSTANTS
    Reserved,       \* descriptors below this one are never sockets of ours
    PendingMod,     \* c->pending wraps modulo this (2^64 in the code)
    CounterMod,     \* the error counters wrap modulo this (2^32)
    MaxTimers,      \* bound: delay timers of one connection
    Configs         \* the configurations a behaviour may start with

Conns   == Owners
Sockets == Reserved .. SetSize      \* SetSize itself is beyond the tables

(* What may go wrong in a configuration:                                   *)
(*   sync     connect() may fail at once, or socket() itself               *)
(*   refuse   the server may refuse or reset a connection                  *)
(*   close    the server may close an idle or busy connection              *)
(*   early    the server may answer before it has the whole request        *)
(*   partial  write() may take a part, or nothing (EAGAIN)                 *)
(*   old      a batch may become older than cfg.timeout                    *)
Faults == {"sync", "refuse", "close", "early", "partial", "old"}

Configurations ==
    [api      : Backends,           \* the back end of the build
     conns    : SUBSET Conns,       \* thread->connections of them are used
     pipeline : 1 .. PendingMod - 1,    \* cfg.pipeline, requests in a batch
     delay    : BOOLEAN,            \* cfg.delay: the script defines delay()
     ssl      : BOOLEAN,            \* cfg.ctx # NULL
     answers  : SUBSET {"K", "C", "E", "X"},    \* how responses end
     faults   : SUBSET Faults]

ASSUME WorkerAssumption ==
    /\ Procs = {"socket_connected", "socket_writeable", "socket_readable"}
    /\ IsFiniteSet(Conns)
    /\ Reserved \in Nat
    /\ PendingMod \in Nat \ {0, 1}
    /\ CounterMod \in Nat \ {0}
    /\ MaxTimers \in Nat
    /\ Configs \subseteq Configurations

VARIABLES
    cfg,        \* the global cfg, the build and the server met
    ae,         \* the event loop (module Ae)
    net,        \* the sockets, as the kernel and the server see them
    conn,       \* the connection structs
    errors,     \* thread->errors
    timers,     \* timers[c]: delay_request events of c in the loop
    todo,       \* connections thread_main has not connected yet
    fired, rfired, step,    \* aeProcessEvents, as in AeFile
    reader,     \* the c of the socket_readable in progress, or NoOwner
    buf,        \* the bytes it has read and not parsed
    stop,       \* the global stop flag main sets
    loopStop,   \* eventLoop->stop
    stale       \* history: descriptors closed since the last poll

loopVars == <<fired, rfired, step>>
vars == <<cfg, ae, net, conn, errors, timers, todo, fired, rfired, step,
          reader, buf, stop, loopStop, stale>>

BatchLen == 2 * cfg.pipeline        \* c->length

Closed == [state |-> "closed", owed |-> 0, in |-> <<>>, eof |-> FALSE]
Fresh  == [Closed EXCEPT !.state = "connecting"]

Tokens == {"H", "K", "C", "E", "X"}

Socket ==           \* owed: requests it has whole; in: what it has sent
    [state : {"closed", "connecting", "up", "refused", "reset"},
     owed : Int, in : Seq(Tokens), eof : BOOLEAN]

Connection ==       \* timed: c->start is of this batch; late: it is old
    [fd : 0 .. SetSize - 1, parser : {"start", "mid", "toeof", "dead"},
     written : 0 .. BatchLen - 1, pending : 0 .. PendingMod - 1,
     delayed : BOOLEAN, timed : BOOLEAN, late : BOOLEAN]

ErrorKinds == {"connect", "read", "write", "timeout"}

TypeOK ==
    /\ cfg \in Configs
    /\ ae \in EventLoop
    /\ net \in [Sockets -> Socket]
    /\ \A fd \in Sockets : net[fd].state = "closed" => net[fd] = Closed
    /\ conn \in [Conns -> Connection]
    /\ errors \in [ErrorKinds -> 0 .. CounterMod - 1]
    /\ timers \in [Conns -> Nat]
    /\ todo \subseteq Conns
    /\ step \in {"setup", "poll", "R", "inR", "W", "timers", "exit"}
    /\ fired \in Seq(Entry)
    /\ step \in {"R", "inR", "W"} => fired # <<>>
    /\ buf \in Seq(Tokens)
    /\ IF step = "inR" THEN reader \in Conns /\ buf # <<>>
                       ELSE reader = NoOwner /\ buf = <<>>
    /\ stop \in BOOLEAN /\ loopStop \in BOOLEAN /\ rfired \in BOOLEAN
    /\ stale \subseteq 0 .. SetSize

Init ==
    /\ cfg \in Configs
    /\ ae = CreateEventLoop(cfg.api)
    /\ net = [fd \in Sockets |-> Closed]
    /\ conn = [c \in Conns |-> [fd |-> 0, parser |-> "start", written |-> 0,
                                pending |-> 0, delayed |-> cfg.delay,
                                timed |-> FALSE, late |-> FALSE]]
    /\ errors = [e \in ErrorKinds |-> 0]
    /\ timers = [c \in Conns |-> 0]
    /\ todo = cfg.conns
    /\ fired = <<>> /\ rfired = FALSE /\ step = "setup"
    /\ reader = NoOwner /\ buf = <<>>
    /\ stop = FALSE /\ loopStop = FALSE
    /\ stale = {}

---------------------------------------------------------------------------
(* The calls the handlers share, as operators on the part of the state     *)
(* they change.                                                            *)

Here == [ae |-> ae, net |-> net, conn |-> conn, errors |-> errors, stale |-> stale]

Become(s) ==
    /\ ae' = s.ae /\ net' = s.net /\ conn' = s.conn
    /\ errors' = s.errors /\ stale' = s.stale

Open(s) == {fd \in Sockets : s.net[fd].state # "closed"}

Count(s, e) == [s EXCEPT !.errors[e] = (s.errors[e] + 1) % CounterMod]

Register(s, fd, m, proc, c) ==
    [s EXCEPT !.ae = CreateFileEvent(s.ae, Open(s), fd, m, proc, c)]

Unregister(s, fd, m) == [s EXCEPT !.ae = DeleteFileEvent(s.ae, fd, m)]

(* socket() returns the lowest free descriptor.  ok says whether connect() *)
(* is in progress; when it is not, or the loop has no slot for fd, the     *)
(* socket is closed again and c->fd keeps its old value.                   *)
connect_socket(s, c, ok) ==
    LET free  == Sockets \ Open(s)
        fd    == CHOOSE n \in free : \A m \in free : n <= m
        sock  == [s EXCEPT !.net[fd] = Fresh]
    IN  IF ok /\ free # {} /\ CanCreate(s.ae, Open(sock), fd)
        THEN [Register(sock, fd, Ev, "socket_connected", c) EXCEPT !.conn[c].fd = fd]
        ELSE Count(s, "connect")

close_fd(s, fd) ==
    IF fd \notin Open(s) THEN s
    ELSE [s EXCEPT !.ae = CloseFd(s.ae, fd),
                   !.net[fd] = Closed,
                   !.stale = s.stale \cup {fd}]

(* Mutant: the old socket is not closed.                                   *)
reconnect_socket_NoClose(s, c, ok) ==
    connect_socket(Unregister(s, s.conn[c].fd, Ev), c, ok)

(* Mutant: the socket is closed while its events are registered.           *)
reconnect_socket_NoDelete(s, c, ok) ==
    connect_socket(close_fd(s, s.conn[c].fd), c, ok)

reconnect_socket(s, c, ok) ==
    LET fd == s.conn[c].fd IN
    connect_socket(close_fd(Unregister(s, fd, Ev), fd), c, ok)

Connecting == IF "sync" \in cfg.faults THEN BOOLEAN ELSE {TRUE}

(* Mutants: the next batch is armed after any response; it is armed one    *)
(* response early.                                                         *)
Completed_ArmsAlways(s, c) ==
    Register([s EXCEPT !.conn[c].pending = (@ - 1) % PendingMod],
             s.conn[c].fd, {"W"}, "socket_writeable", c)

Completed_OffByOne(s, c) ==
    LET left == (s.conn[c].pending - 1) % PendingMod
        t    == [s EXCEPT !.conn[c].pending = left]
    IN  IF left # 1 THEN t
        ELSE Register([t EXCEPT !.conn[c].timed = FALSE],
                      s.conn[c].fd, {"W"}, "socket_writeable", c)

(* response_complete up to its keep-alive test.                            *)
Completed(s, c) ==
    LET left == (s.conn[c].pending - 1) % PendingMod
        t    == [s EXCEPT !.conn[c].pending = left]
        u    == IF s.conn[c].late THEN Count(t, "timeout") ELSE t
        v    == [u EXCEPT !.conn[c].delayed = cfg.delay,
                          !.conn[c].timed = FALSE, !.conn[c].late = FALSE]
    IN  IF left # 0 THEN t
        ELSE Register(v, v.conn[c].fd, {"W"}, "socket_writeable", c)

---------------------------------------------------------------------------
(* thread_main: connect every connection, then enter aeMain                *)

ConnectNext(c) ==
    /\ step = "setup" /\ c \in todo
    /\ \E ok \in Connecting : Become(connect_socket(Here, c, ok))
    /\ todo' = todo \ {c}
    /\ UNCHANGED <<cfg, timers, loopVars, reader, buf, stop, loopStop>>

EnterMain ==
    /\ step = "setup" /\ todo = {}
    /\ step' = "poll"
    /\ loopStop' = FALSE
    /\ UNCHANGED <<cfg, ae, net, conn, errors, timers, todo, fired, rfired, reader, buf, stop, stale>>

---------------------------------------------------------------------------
(* aeProcessEvents                                                         *)

Readiness ==
    [fd \in Fds |->
        IF fd \notin Open(Here) THEN {}
        ELSE CASE net[fd].state = "connecting" -> {}
               [] net[fd].state \in {"refused", "reset"} -> {"R", "W", "H"}
               [] net[fd].state = "up" ->
                     {"W"} \cup (IF net[fd].in # <<>> \/ net[fd].eof THEN {"R"} ELSE {})]

Poll ==
    /\ step = "poll"
    /\ LET S == Fired(ae, Readiness) IN
       /\ \E s \in Orders(ae, S) : fired' = s
       /\ ae' = AfterPoll(ae, S)
       /\ step' = IF S = {} THEN "timers" ELSE "R"
    /\ rfired' = FALSE
    /\ stale' = {}
    /\ UNCHANGED <<cfg, net, conn, errors, timers, todo, reader, buf, stop, loopStop>>

NextEntry ==
    /\ fired' = Tail(fired)
    /\ rfired' = FALSE
    /\ step' = IF Tail(fired) = <<>> THEN "timers" ELSE "R"

SkipReadable ==
    /\ step = "R" /\ ~CallsReadable(ae, Head(fired))
    /\ rfired' = FALSE /\ step' = "W"
    /\ UNCHANGED <<cfg, ae, net, conn, errors, timers, todo, fired, reader, buf, stop, loopStop, stale>>

SkipWritable ==
    /\ step = "W" /\ ~CallsWritable(ae, Head(fired), rfired)
    /\ NextEntry
    /\ UNCHANGED <<cfg, ae, net, conn, errors, timers, todo, reader, buf, stop, loopStop, stale>>

(* The handler proc is called on the head entry, for reading or writing.   *)
CallReadable(proc, c) ==
    /\ step = "R" /\ CallsReadable(ae, Head(fired))
    /\ ae.rproc[Head(fired).fd] = proc /\ ae.data[Head(fired).fd] = c
    /\ rfired' = TRUE /\ fired' = fired

CallWritable(proc, c) ==
    /\ step = "W" /\ CallsWritable(ae, Head(fired), rfired)
    /\ ae.wproc[Head(fired).fd] = proc /\ ae.data[Head(fired).fd] = c
    /\ NextEntry

Called(proc, c) ==
    \/ CallReadable(proc, c) /\ step' = "W"
    \/ CallWritable(proc, c)

quietVars == <<cfg, timers, todo, reader, buf, stop, loopStop>>

---------------------------------------------------------------------------
(* socket_connected                                                        *)

(* Mutant: only the write event is registered.                             *)
Armed_WriteOnly(s, fd, c) == Register(s, fd, {"W"}, "socket_writeable", c)

Armed(s, fd, c) ==
    Register(Register(s, fd, {"R"}, "socket_readable", c),
             fd, {"W"}, "socket_writeable", c)

(* Mutants: c->written, or the parser, is left as the old socket left it.  *)
Connected_KeepsWritten(fd, c) == Armed([Here EXCEPT !.conn[c].parser = "start"], fd, c)
Connected_KeepsParser(fd, c)  == Armed([Here EXCEPT !.conn[c].written = 0], fd, c)

Connected(fd, c) ==
    Armed([Here EXCEPT !.conn[c].parser = "start", !.conn[c].written = 0], fd, c)

ConnectResults ==       \* sock_connect never fails, ssl_connect may
    IF cfg.ssl THEN {"OK", "RETRY", "ERROR"} ELSE {"OK"}

SocketConnected(c) ==
    /\ Called("socket_connected", c)
    /\ \E r \in ConnectResults, ok \in Connecting :
         CASE r = "RETRY" -> Become(Here)
           [] r = "ERROR" -> Become(reconnect_socket(Count(Here, "connect"), c, ok))
           [] r = "OK"    -> Become(Connected(Head(fired).fd, c))
    /\ UNCHANGED quietVars

---------------------------------------------------------------------------
(* socket_writeable                                                        *)

HoldRequest(c) ==           \* c->delayed: wait for the script's delay
    /\ Called("socket_writeable", c)
    /\ conn[c].delayed
    /\ timers' = [timers EXCEPT ![c] = timers[c] + 1]
    /\ Become(Unregister(Here, Head(fired).fd, {"W"}))
    /\ UNCHANGED <<cfg, todo, reader, buf, stop, loopStop>>

(* What write() of the rest of the request may return: -1 for an error, 0  *)
(* for EAGAIN, or the number of units the socket took.                     *)
WriteResults(fd, left) ==
    IF fd \notin Open(Here) THEN {-1}
    ELSE CASE net[fd].state = "connecting" -> {-1, 0}
           [] net[fd].state \in {"refused", "reset"} -> {-1}
           [] net[fd].state = "up" ->
                (IF net[fd].eof THEN {-1} ELSE {})
                    \cup (IF "partial" \in cfg.faults THEN 0 .. left ELSE {left})

Begun(c) == [Here EXCEPT !.conn[c].pending = cfg.pipeline,
                         !.conn[c].timed = TRUE, !.conn[c].late = FALSE]

SendRequest(c) ==
    /\ Called("socket_writeable", c)
    /\ ~conn[c].delayed
    /\ LET fd    == conn[c].fd
           w     == conn[c].written
           begun == IF w # 0 THEN Here ELSE Begun(c)
           Sent(n) ==
               LET whole == w + n = BatchLen
                   got   == (w + n) \div 2 - w \div 2
                   s     == [begun EXCEPT
                               !.conn[c].written = IF whole THEN 0 ELSE w + n,
                               !.net[fd].owed = IF net[fd].eof THEN @ ELSE @ + got]
               IN  IF whole THEN Unregister(s, Head(fired).fd, {"W"}) ELSE s
       IN \E n \in WriteResults(fd, BatchLen - w), ok \in Connecting :
             CASE n = -1 -> Become(reconnect_socket(Count(begun, "write"), c, ok))
               [] n = 0  -> Become(begun)
               [] OTHER  -> Become(Sent(n))
    /\ UNCHANGED quietVars

---------------------------------------------------------------------------
(* socket_readable                                                         *)

ReadError(c) == \E ok \in Connecting :
    Become(reconnect_socket(Count(Here, "read"), c, ok))

(* ssl_read asks to be called again: nothing to read on a live connection. *)
SslRetries(fd) ==
    cfg.ssl /\ net[fd].state \in {"connecting", "up"} /\ ~net[fd].eof

(* read() fails: no such socket, a reset one, or nothing to read; a clean  *)
(* SSL end of stream is an error too.                                      *)
ReadFails(c) ==
    /\ Called("socket_readable", c)
    /\ LET fd == conn[c].fd IN
       \/ fd \notin Open(Here) /\ ReadError(c)
       \/ /\ fd \in Open(Here)
          /\ net[fd].in = <<>>
          /\ ~net[fd].eof \/ cfg.ssl
          /\ IF SslRetries(fd) THEN Become(Here) ELSE ReadError(c)
    /\ UNCHANGED quietVars

(* n = 0.  The parser completes a response that ends at EOF, and the       *)
(* handler then still takes its error path, because http_body_is_final is  *)
(* only true inside a callback.                                            *)
ReadEof(c) ==
    /\ Called("socket_readable", c)
    /\ LET fd == conn[c].fd IN
       /\ fd \in Open(Here) /\ ~cfg.ssl
       /\ net[fd].in = <<>> /\ net[fd].eof
    /\ \E ok1, ok2 \in Connecting :
         LET s == IF conn[c].parser = "toeof"
                  THEN reconnect_socket(Completed(Here, c), c, ok1) ELSE Here
         IN  Become(reconnect_socket(Count(s, "read"), c, ok2))
    /\ UNCHANGED quietVars

(* n tokens stand for all the reads of one call: while a read fills        *)
(* RECVBUF and more is waiting the handler reads again.  Only bytes that   *)
(* come in while a full buffer is parsed would be taken by the code at     *)
(* once, and by the model at the next readable event.                      *)
ReadBytes(c) ==
    /\ CallReadable("socket_readable", c)
    /\ LET fd == conn[c].fd IN
       /\ fd \in Open(Here)
       /\ \E n \in 1 .. Len(net[fd].in) :
             /\ buf' = SubSeq(net[fd].in, 1, n)
             /\ net' = [net EXCEPT ![fd].in = SubSeq(@, n + 1, Len(@))]
    /\ reader' = c
    /\ step' = "inR"
    /\ UNCHANGED <<cfg, ae, conn, errors, timers, todo, stop, loopStop, stale>>

(* http_parser_execute on the next token of the buffer.                    *)
ParseOn ==              \* it goes on in the buffer, or the handler returns
    IF Tail(buf) = <<>>
    THEN buf' = <<>> /\ reader' = NoOwner /\ step' = "W"
    ELSE buf' = Tail(buf) /\ UNCHANGED <<reader, step>>

ParseFails ==           \* it stops here: goto error
    buf' = <<>> /\ reader' = NoOwner /\ step' = "W"

parseQuietVars == <<cfg, timers, todo, fired, rfired, stop, loopStop>>

ParseBegin(c) ==
    /\ step = "inR" /\ reader = c
    /\ LET p == conn[c].parser IN
       /\ \/ p = "start" /\ Head(buf) \in {"H", "E"}
          \/ p = "toeof"
       /\ conn' = [conn EXCEPT ![c].parser =
                     IF p = "start" /\ Head(buf) = "H" THEN "mid" ELSE "toeof"]
    /\ ParseOn
    /\ UNCHANGED <<ae, net, errors, stale, parseQuietVars>>

ParseComplete(c) ==
    /\ step = "inR" /\ reader = c
    /\ conn[c].parser = "mid"
    /\ LET done == Completed(Here, c) IN
       \/ Head(buf) = "K" /\ Become([done EXCEPT !.conn[c].parser = "start"])
       \/ /\ Head(buf) = "C"
          /\ \E ok \in Connecting :
               Become(reconnect_socket([done EXCEPT !.conn[c].parser = "dead"], c, ok))
    /\ ParseOn
    /\ UNCHANGED parseQuietVars

ParseError(c) ==
    /\ step = "inR" /\ reader = c
    /\ \/ conn[c].parser = "dead"
       \/ conn[c].parser = "start" /\ Head(buf) \notin {"H", "E"}
       \/ conn[c].parser = "mid" /\ Head(buf) \notin {"K", "C"}
    /\ ReadError(c)
    /\ ParseFails
    /\ UNCHANGED parseQuietVars

---------------------------------------------------------------------------
(* processTimeEvents                                                       *)

(* Mutant: c->delayed is not cleared.                                      *)
DelayRequest_StaysDelayed(c) ==
    /\ step = "timers" /\ timers[c] > 0
    /\ timers' = [timers EXCEPT ![c] = timers[c] - 1]
    /\ Become(Register(Here, conn[c].fd, {"W"}, "socket_writeable", c))
    /\ UNCHANGED <<cfg, todo, loopVars, reader, buf, stop, loopStop>>

DelayRequest(c) ==
    /\ step = "timers" /\ timers[c] > 0
    /\ timers' = [timers EXCEPT ![c] = timers[c] - 1]
    /\ Become(Register([Here EXCEPT !.conn[c].delayed = FALSE],
                       conn[c].fd, {"W"}, "socket_writeable", c))
    /\ UNCHANGED <<cfg, todo, loopVars, reader, buf, stop, loopStop>>

RecordRate ==
    /\ step = "timers"
    /\ stop /\ ~loopStop
    /\ loopStop' = TRUE
    /\ UNCHANGED <<cfg, ae, net, conn, errors, timers, todo, loopVars, reader, buf, stop, stale>>

(* Mutant: aeMain does not look at its stop flag.                          *)
TimersDone_RunsOn ==
    /\ step = "timers" /\ step' = "poll"
    /\ UNCHANGED <<cfg, ae, net, conn, errors, timers, todo, fired, rfired, reader, buf,
                   stop, loopStop, stale>>

TimersDone ==
    /\ step = "timers"
    /\ step' = IF loopStop THEN "exit" ELSE "poll"
    /\ UNCHANGED <<cfg, ae, net, conn, errors, timers, todo, fired, rfired, reader, buf,
                   stop, loopStop, stale>>

---------------------------------------------------------------------------
(* The main thread, the clock, and the server (external)                   *)

othersVars == <<cfg, ae, errors, timers, todo, loopVars, reader, buf, loopStop, stale>>

SetStop ==
    /\ ~stop /\ stop' = TRUE
    /\ UNCHANGED <<net, conn, othersVars>>

GrowOld(c) ==
    /\ "old" \in cfg.faults /\ conn[c].timed /\ ~conn[c].late
    /\ conn' = [conn EXCEPT ![c].late = TRUE]
    /\ UNCHANGED <<net, stop, othersVars>>

Accept(fd) ==
    /\ net[fd].state = "connecting"
    /\ net' = [net EXCEPT ![fd].state = "up"]
    /\ UNCHANGED <<conn, stop, othersVars>>

(* MaxTimers: a connection that is cut while it is delayed leaves its timer *)
(* behind and may start another, so only so many cuts are allowed.         *)
FewTimers(fd) == \A c \in Conns : conn[c].fd = fd => timers[c] + 2 <= MaxTimers

RefuseOrReset(fd) ==
    /\ "refuse" \in cfg.faults /\ FewTimers(fd) /\ net[fd].state \in {"connecting", "up"}
    /\ net' = [net EXCEPT ![fd] = [Closed EXCEPT
                  !.state = IF net[fd].state = "up" THEN "reset" ELSE "refused"]]
    /\ UNCHANGED <<conn, stop, othersVars>>

PartUnread(fd) ==       \* the server has half of the next request
    \E c \in Conns : conn[c].fd = fd /\ conn[c].written % 2 = 1

Answer(fd, kind) ==
    /\ net[fd].state = "up" /\ ~net[fd].eof
    /\ \/ net[fd].owed > 0
       \/ "early" \in cfg.faults /\ net[fd].owed = 0 /\ PartUnread(fd)
    /\ net' = [net EXCEPT
          ![fd].in   = @ \o (IF kind \in {"K", "C"} THEN <<"H", kind>> ELSE <<kind>>),
          ![fd].eof  = kind = "E",
          ![fd].owed = IF kind = "E" THEN 0 ELSE @ - 1]
    /\ UNCHANGED <<conn, stop, othersVars>>

HangUp(fd) ==           \* it may have sent only part of its last answer
    /\ "close" \in cfg.faults /\ FewTimers(fd) /\ net[fd].state = "up" /\ ~net[fd].eof
    /\ \E s \in {net[fd].in, IF net[fd].in = <<>> THEN <<>> ELSE Front(net[fd].in)} :
         net' = [net EXCEPT ![fd].eof = TRUE, ![fd].owed = 0, ![fd].in = s]
    /\ UNCHANGED <<conn, stop, othersVars>>

---------------------------------------------------------------------------
Setup   == EnterMain \/ \E c \in Conns : ConnectNext(c)
Handler == \E c \in Conns :
    \/ SocketConnected(c) \/ HoldRequest(c) \/ SendRequest(c)
    \/ ReadFails(c) \/ ReadEof(c) \/ ReadBytes(c)
    \/ ParseBegin(c) \/ ParseComplete(c) \/ ParseError(c)
Loop    == Setup \/ Poll \/ SkipReadable \/ SkipWritable \/ Handler \/ TimersDone
Timer   == RecordRate \/ \E c \in Conns : DelayRequest(c)
Server  == \E fd \in Sockets :
    \/ Accept(fd) \/ RefuseOrReset(fd) \/ HangUp(fd)
    \/ \E kind \in cfg.answers : Answer(fd, kind)
Ended   == step = "exit" /\ UNCHANGED vars     \* the thread has returned

Next == Loop \/ Timer \/ SetStop \/ (\E c \in Conns : GrowOld(c)) \/ Server \/ Ended

Spec == Init /\ [][Next]_vars

(* The loop and its timers run whenever they can: aeMain does not return   *)
(* before aeStop, a poll is bounded by the 100 ms timer of record_rate, a  *)
(* due timer is run at the end of a pass.  The server takes connections    *)
(* and answers what it has been asked, in the runs that need it to.        *)
(* Busy says when a handler or thread_main's own code has a step to take;  *)
(* with it the second conjunct is weak fairness of those steps, and the    *)
(* fourth strong fairness of the delay timers.                             *)
CallsHandler ==         \* aeProcessEvents is about to call a handler
    \/ step = "R" /\ CallsReadable(ae, Head(fired))
    \/ step = "W" /\ CallsWritable(ae, Head(fired), rfired)

Busy == step \in {"setup", "inR"} \/ CallsHandler

LoopFairness ==
    /\ WF_vars(Poll \/ SkipReadable \/ SkipWritable \/ TimersDone)
    /\ []<>~Busy \/ []<><<Setup \/ Handler>>_vars
    /\ SF_vars(RecordRate)
    /\ \A c \in Conns : \/ <>[]~(step = "timers" /\ timers[c] > 0)
                         \/ []<><<DelayRequest(c)>>_vars

ServerFairness == \A fd \in Sockets :
    /\ WF_vars(Accept(fd))
    /\ WF_vars(\E kind \in cfg.answers : Answer(fd, kind))

SpecLoop   == Spec /\ LoopFairness
SpecServed == Spec /\ LoopFairness /\ ServerFairness

---------------------------------------------------------------------------
CalledOn == Head(fired).fd
CalledProc == IF step = "R" THEN ae.rproc[CalledOn] ELSE ae.wproc[CalledOn]

(* No handler runs for a readiness reported about a descriptor that has    *)
(* been closed and reopened since the poll (ae.c:407-409 claims the mask   *)
(* test takes care of events a handler removed); and socket_connected, with*)
(* it the first request, only runs on a socket whose connect() has ended   *)
(* one way or the other.                                                   *)
FreshDispatch == ae.api # "kqueue" /\ CallsHandler =>
    /\ CalledOn \notin stale
    /\ CalledProc = "socket_connected" => net[CalledOn].state # "connecting"

(* No socket is leaked: every open socket is in the loop's tables,         *)
(* registered for a connection whose c->fd it is.  And a handler's         *)
(* registration is never refused, for lack of a slot or by the kernel: no  *)
(* handler looks at what aeCreateFileEvent returns (wrk.c:241-270).  The   *)
(* variables keep their types.                                             *)
NoLeakedSocket == \A fd \in Open(Here) :
    /\ fd \in Fds /\ ae.mask[fd] # {}
    /\ ae.data[fd] \in Conns /\ conn[ae.data[fd]].fd = fd

RegistersWell ==
    /\ \A fd \in Open(Here) : CanCreate(ae, Open(Here), fd)
    /\ Cardinality(Open(Here)) <= Cardinality(cfg.conns)

SocketsAccounted == TypeOK /\ NoLeakedSocket /\ RegistersWell

(* With evport the process is never aborted: what aeApiPoll associates     *)
(* again after the handlers have run is open (ae_evport.c:260-264), though *)
(* each of them may have closed and replaced its socket meanwhile.         *)
NeverAborts == step = "poll" => ~Aborts(ae, Open(Here))

InTurn == "early" \notin cfg.faults   \* answers follow whole requests

(* No delay timer outlives its socket (see DelayedCycle for what happens   *)
(* when one does).                                                         *)
Orderly == InTurn /\ (cfg.delay => cfg.faults = {})

(* A response is only completed when one is expected, so --c->pending      *)
(* never wraps; and the latency of a batch is recorded once, against the   *)
(* start of that very batch: c->start has been set since the last record.  *)
(* A delay timer that outlives its socket breaks both.                     *)
Completing(c) ==
    \/ step = "inR" /\ reader = c /\ conn[c].parser = "mid" /\ Head(buf) \in {"K", "C"}
    \/ /\ CallsHandler /\ CalledProc = "socket_readable" /\ ae.data[CalledOn] = c
       /\ conn[c].parser = "toeof" /\ net[CalledOn].eof /\ net[CalledOn].in = <<>>

ResponseExpected == \A c \in Conns : Orderly /\ Completing(c) =>
    conn[c].pending > 0 /\ conn[c].timed

(* A connection's requests and responses alternate ("a call to request()   *)
(* and response() for each request cycle", wrk/SCRIPTING:72-73): a new     *)
(* batch is only begun when nothing of the last one is still to come on    *)
(* the socket it goes to.  Where a script delays the requests and sockets  *)
(* are cut, the timer of the old socket arms the new one (wrk.c:291-296).  *)
BeginsTooSoon(c) ==
    /\ CallsHandler /\ CalledProc = "socket_writeable" /\ ae.data[CalledOn] = c
    /\ ~conn[c].delayed /\ conn[c].written = 0
    /\ conn[c].fd \in Open(Here)
    /\ net[conn[c].fd].owed # 0 \/ net[conn[c].fd].in # <<>>

DelayedCycle == \A c \in Conns : ~BeginsTooSoon(c)

(* While a connection works, c->pending is exactly what is still to come:  *)
(* requests not sent, requests not answered and answers not parsed; and    *)
(* when nothing is to come the connection is armed to write.  A pending    *)
(* too high, or a write event lost, would leave it waiting for ever.       *)
Working(c) ==
    LET fd == conn[c].fd IN
    /\ c \notin todo /\ fd \in Open(Here)
    /\ ae.data[fd] = c /\ ae.rproc[fd] = "socket_readable"
    /\ net[fd].state = "up" /\ ~net[fd].eof

Ends(s) == Cardinality({i \in DOMAIN s : s[i] # "H"})

ToCome(c) ==
    LET fd == conn[c].fd
        w  == conn[c].written
    IN  (IF w = 0 THEN 0 ELSE cfg.pipeline - w \div 2)
        + net[fd].owed + Ends(net[fd].in)
        + (IF reader = c THEN Ends(buf) ELSE 0)

PendingMatches == \A c \in Conns : Orderly /\ Working(c) =>
    IF ToCome(c) > 0 THEN conn[c].pending = ToCome(c)
    ELSE "W" \in ae.mask[conn[c].fd] \/ timers[c] > 0

(* Where no delay timer can outlive its socket (Orderly) the thread        *)
(* implements the cycle of module RequestCycle, each connection on its     *)
(* own: what is due is what the wire, the server and the read buffer still *)
(* hold for it, and a connection is up while its socket is and the thread  *)
(* answers for it.                                                         *)
Cycle == INSTANCE RequestCycle WITH
    pipeline <- cfg.pipeline,
    up       <- {c \in Conns : Orderly /\ Working(c)},
    due      <- [c \in Conns |-> IF Orderly /\ Working(c) THEN ToCome(c) ELSE 0]

ImplementsCycle == Cycle!Spec

(* The client never drops a connection that works: a socket the server has *)
(* neither refused, reset nor closed stays open when every answer keeps    *)
(* the connection alive.  With SSL a handshake may fail on such a socket.  *)
(* Only where no delay timer can outlive its socket (Orderly): a connection*)
(* whose reconnect failed keeps the number in c->fd, and its timer         *)
(* (delay_request, wrk.c:291-296) then takes over whichever socket has got *)
(* that number, reads its stream from the middle and drops it.             *)
Healthy(fd) == net[fd].state \in {"connecting", "up"} /\ ~net[fd].eof

KeepsHealthy == \A fd \in Sockets :
    ~cfg.ssl /\ cfg.answers = {"K"} /\ Healthy(fd) => fd \notin stale' \ stale

HealthyKept == [][Orderly => KeepsHealthy]_vars

(* Once main sets stop, the thread leaves its loop.                        *)
StopEnds == stop ~> (step = "exit")

(* As long as the server accepts and answers, and cuts nothing, every      *)
(* connection keeps completing batches until the run is stopped.           *)
KeepsGoing == \A c \in Conns :
    /\ []<>(c \notin cfg.conns \/ cfg.faults # {} \/ stop \/ conn[c].timed)
    /\ []<>(stop \/ cfg.faults # {} \/ ~conn[c].timed)

(* A connection that is refused, reset or closed, in whatever state it is  *)
(* (also one that waits for the script's delay, and one whose connect()    *)
(* fails later, which only the first read or write finds out, wrk.c:366),  *)
(* is noticed: a dead socket does not stay with the thread.                *)
Dead(fd) == net[fd].state \in {"refused", "reset"} \/ net[fd].eof

CutsNoticed == []<>(stop \/ \A fd \in Sockets : ~Dead(fd))
===========================================================================
