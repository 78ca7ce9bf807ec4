# A verification project for ploxworkloads

The repository measures what a system call filter costs and covers: it runs
servers (redis, nginx, lighttpd, memcached, sqlite) under the load generator
`wrk`, collects the kernel's coverage of their system calls with a preloaded
library, and installs seccomp filters built from the result. This directory
holds TLA+ specifications of its own logic, the TLC runs that check them and the
theorems that TLAPS proves about them.

Sections: [inventory](#inventory), [modules](#modules),
[how the modules correspond to the code](#how-the-modules-correspond-to-the-code),
[runs](#runs), [bounds](#bounds), [fairness](#fairness), [proofs](#proofs),
[what the checks found](#what-the-checks-found), [not modelled](#not-modelled),
[plan](#plan).

## Inventory

| Component | Source | State | Operations |
| --- | --- | --- | --- |
| event loop, file events | `wrk/src/ae.c`, `ae.h` | `events[]`, `fired[]`, `maxfd`, `stop` | `aeCreateFileEvent`, `aeDeleteFileEvent`, `aeProcessEvents`, `aeMain` |
| back ends | `ae_epoll.c`, `ae_kqueue.c`, `ae_select.c`, `ae_evport.c` | the kernel's interest list; select's two `fd_set`s; evport's pending list | `aeApiAddEvent`, `aeApiDelEvent`, `aeApiPoll` |
| event loop, timers | `ae.c:203-338` | the timer list, `timeEventNextId`, `lastTime` | `aeCreateTimeEvent`, `aeDeleteTimeEvent`, `processTimeEvents` |
| worker thread | `wrk.c`, `net.c`, `ssl.c` | `thread`, `connection[]` (parser, `written`, `pending`, `delayed`, `start`), `errors` | `thread_main`, `connect_socket`, `reconnect_socket`, the four socket handlers, `response_complete`, `delay_request`, `record_rate` |
| wrk main | `wrk.c` | `cfg`, `statistics`, `stop` | options, target, thread creation, SIGINT, stop, join, correction, report |
| statistics | `stats.c` | `count`, `limit`, `min`, `max`, `data[]`, shared by all threads | `stats_record`, `stats_correct`, mean, percentile, popcount, value_at |
| HTTP parser | `http_parser.c` | a byte-level state machine in each connection | `http_parser_execute`, `http_parser_parse_url` |
| Lua scripting | `script.c`, `wrk.lua` | one Lua state per thread, header and body buffers | `init`, `request`, `response`, `delay`, `done` |
| coverage library | `libcoverage/coverage.c` | `kcov_device`, `kcov_log`, `kcov_buf` per thread; the process's descriptors | the wrappers, `kcov_startup`, `kcov_done` |
| seccomp sandbox | `sec/sec.c` | four constant BPF programs | install a filter, exec |
| scripts | `scripts/*.sh`, `*.py` | files of coverage logs and results | start servers and loads, merge logs, plot |

**Interaction.** `main` creates an event loop, a Lua state and an array of
connections for each worker and starts the threads. A worker registers its
sockets with its loop and is from then on driven by callbacks alone: the loop
polls the back end, calls the handlers of the fired descriptors, then the due
timers. Handlers change the tables the loop is walking: they register, delete,
close and reopen descriptors, and the kernel gives a closed number to the next
socket. The threads share only the two `stats` records (atomic operations, no
lock) and the flag `stop`, which SIGINT sets as well; `main` joins them before it reads
the histogram. The coverage library runs inside the measured
program: its per-thread variables name descriptors in a table it shares with
the program and all its threads.

**What is hard.** Readiness that was reported before an earlier handler of the
same pass closed or reopened the descriptor; masks that live in the loop, in the
kernel and (evport) in a pending list, updated in different orders; connection
structs that outlive their socket; partial writes and pipelined batches, where
one counter must agree with what is in flight; timers that outlive what they
were made for; lock-free bounds; a histogram that is rewritten while it is
walked; a descriptor number that is remembered after it was closed; a signal that may end
main's sleep or miss it; scripts that are interrupted between two commands while their
servers run on. Every one is
listed with its line under "hazards" in `PROJECT.json`, with the properties that
watch it.

**What makes each part correct.**

* *Event loop*: kernel and tables agree, `maxfd` is exact, nothing that is ready
  and wanted is forgotten, a handler only runs for its own descriptor.
* *Worker*: no socket is leaked or registered twice; requests and responses
  alternate; `pending` is what is still to come; each latency is recorded once;
  connections that work are kept; it ends after `stop`, and goes on until then.
* *Statistics*: no sample is lost, the bounds frame the samples, a reader sees
  what was recorded.
* *Coverage library*: it touches only descriptors it opened, leaves none behind,
  and traces exactly the selected calls.
* *wrk main*: the load goes where the URL says, the report counts every response of every
  thread, and a run ends.
* *Coverage scripts*: a result holds lines of its own call only, and keeps what was merged.
* *Sandbox*: a filter allows its list and nothing else, and no server starts outside it.

## Modules

| Module | Extends | What it is |
| --- | --- | --- |
| `Ae` | | the calls of `ae.c` and of its four back ends, as operators on one record |
| `AeFile` | `Ae` | an event loop under an arbitrary program of callbacks |
| `AeProofs` | `Ae` | what those operators do, as lemmas |
| `AeFileProofs` | `AeFile`, `AeProofs` | theorems about the loop |
| `AeTimers` | | an event loop's timers under an arbitrary program of callbacks |
| `AeTimersProofs` | `AeTimers` | theorems about it |
| `Worker` | `Ae` | a worker thread with its connections, the server and the main thread |
| `WorkerProofs` | `Worker`, `AeProofs` | theorems about it |
| `RequestCycle` | | abstract: what a connection promises, without sockets and buffers |
| `Stats` | | `stats_record`, step by step, in several threads |
| `StatsRead` | `Stats` | the correction and the readers, after the threads have ended |
| `UrlParser` | | the URL of the command line and what wrk takes from it, as operators |
| `WrkMain` | `StatsRead`, `UrlParser` | one run of wrk: `main`, SIGINT and the threads that record |
| `WrkMainProofs` | `WrkMain` | theorems about the histogram, and about the run |
| `HttpParser` | (`UrlParser`, by `INSTANCE`) | `http_parser_execute` on responses and requests with wrk's callbacks, as operators on one record |
| `HttpResponses` | `HttpParser` | a connection that reads responses from a server, cut by a network |
| `HttpRequests` | `HttpResponses` | the same run from its beginning: main verifies the requests of the script first |
| `Kcov` | | the coverage library in a program with threads and signals |
| `KcovProofs` | `Kcov` | theorems about it |
| `CoverageRuns` | | the scripts that collect coverage, with their servers, interrupted and restarted |
| `CoverageProofs` | `CoverageRuns` | theorems about it |
| `Seccomp` | | `sec.c` and the kernel's BPF machine, for any lists of calls |
| `SeccompLists` | | the four lists of `sec.c` |
| `SeccompProofs` | `Seccomp` | theorems about it |
| `MCAeFile`, `MCAeTimers`, `MCWorker`, `MCWrkMain`, `MCHttpResponses`, `MCKcov`, `MCSeccomp` | | constants of the runs |

The operators of `Ae` are the seam: `aeCreateFileEvent` and
`aeDeleteFileEvent` are called several times inside one handler of `wrk.c`, so
they are functions on the record `ae` and a handler is their composition.
`AeFile` puts them under *any* program, which is what the theorems are about;
`Worker` puts them under the handlers of `wrk.c`. `HttpParser` and
`HttpResponses`, with `HttpRequests`, are split in the same way. `Worker` has its own five tokens for
the stream: the interleavings of several connections and the states of a parser
are too many together, and they only meet in `response_complete`. `WrkMain` composes the
other way round: it extends the histogram, its readers and the URL parser with the program
that runs them in order, and of a worker it keeps only what the histogram sees.

## How the modules correspond to the code

`PROJECT.json` maps each definition to its lines. The conventions:

**Ae, AeFile.** A mask is the set of its bits. `ae.watch` is what the kernel
object watches, `ae.pend` evport's pending list; `ae.api` is the `ae_*.c` file
of the build, chosen in the initial state. `AeFile` splits `aeProcessEvents` at
the calls of the handlers (`Poll`, `CheckReadable`, `CheckWritable`, the two
returns, `TimersReturn`), because everything interesting happens in them: a
handler is any number of `Create`, `Delete`, `Close` and `Open` steps. `Close`
asks that the events have been deleted, which is how `reconnect_socket` closes.
`Readiness` is the outside world, at any moment. `PollAborts` is the `abort()` of
`ae_evport.c:260-264`, for a pending descriptor that has been closed: some programs get
there, and then nothing follows. `wrk` is not one of them (`NeverAborts` of `Worker`).

**AeTimers.** The list is as in memory: nodes that are allocated and freed, with a
`next` pointer. `Poll` computes the timeout, `Walk` is `processTimeEvents` up to its
loop, and a round of the loop is `Unlink`, `Skip`, or `Call` and `Return`, between which
the timer's callback creates and deletes timers (`Create`, `Delete`); so do the handlers
of files before the walk. `Tick` and `SetClock` are the world: time passes at any
moment, but a poll does not outlast its timeout, and the wall clock that `ae.c` reads is
set. `asked`, `over` and `must` are history variables. No finalizers: `wrk` passes NULL.

**Worker.** One action per handler of `wrk.c`, with every call it makes:
`SendRequest` is the whole of `socket_writeable` after the delay test, for each
result of `write`. `socket_readable` is cut into one action per token of the
buffer, since `response_complete` runs inside `http_parser_execute` and the
server can act meanwhile. The stream is abstracted to five tokens (the comment
at the top of the module); a request is two units long, so that a write can stop
inside one. `cfg` is the global `cfg` of `wrk.c` with the build's back end and
the server's ways to end a response and to fail. `stale` is a history variable:
the descriptors closed since the last poll. The counters of errors wrap at
`CounterMod`; the runs that do not look at them set it to 1.

**RequestCycle.** A connection sends a batch, receives one response for each request of it,
and only then sends the next; it may be lost at any moment and is then made anew.
`ImplementsCycle` maps `Worker` to it: a connection is up while its socket is and the
thread answers for it, and what is due is counted on the wire, in the server and in the
read buffer, not in `c->pending`. So the refinement says what the sockets carry, and
`PendingMatches` that the counter agrees.

**Stats.** `stats_record` is cut at its shared accesses: the atomic additions,
the two loads of the bounds and each compare-and-swap. **StatsRead** takes the
histogram that is left and runs the two loops of `stats_correct` pass by pass,
because the loop reads buckets it has itself filled. Percentages are integers.
`recorded` is a history variable: the samples of each value, whatever becomes of `data`.

**UrlParser, WrkMain.** A URL is a sequence of symbols, a run of letters or digits or one
delimiter; offsets count symbols. `UrlScan` is the first pass (`parse_url_char`), symbol by symbol,
and `ScanUrl` what it leaves; `HostScan` and `ParseHost` split its host again. Both passes are
recursive functions, which the prover can take. `Target` is what `main`, `script_create` and `wrk.init` take from the
parts. What a URL *means* is not parsed: it is written from its parts by `Render`, and the
parts say where the load has to go. In `WrkMain` each step of `main` that others can see is
an action. SIGINT is two actions: in main's sleep it ends the sleep (`InterruptSleep`); in
another thread, or between `sigaction` and `sleep`, it only sets the flag
(`InterruptElsewhere`). A thread is its calls of `stats_record` with its counter of responses,
and ends between two callbacks once `stop` is set. Batches are of one request here.

**CoverageRuns.** One action per command of a script that changes files or servers; what the
four scripts do differently (root or not, SIGKILL or SIGQUIT) is `conf`. The sort is two
steps, since the shell truncates the result before `sort` writes it. A server logs a line of
its own build at any moment that it runs, by the *name* of the log. `logged`, `kept`, `torn`
and `outlived` are history variables.

**HttpParser, HttpResponses, HttpRequests.** A connection struct, its parser and its buffers are
one record `c`; each state of the `switch` is an operator with its name, and
`Loop` is the loop over the data, with `again` for `goto reexecute` and `ret` for a
`return`. A symbol is a byte; the words that the parser compares letter by letter
are two symbols each, so that a read still can end inside one. The parser's marks
and what the callbacks get from them are kept, for they are what a cut disturbs.
What should be delivered is not computed by a second parser: a stream is *encoded*
from descriptions of responses (status, headers, framing, pieces of the body), and
the descriptions say what `response()` must get. `Read` and `ReadEof` are
`socket_readable` for a read of some bytes and of none; `Reconnect` is
`reconnect_socket` up to `socket_connected`. `script_verify_request` is one call of the
same operators with the parser of the other type, on a text that is composed of
descriptions of requests; the URL in it runs through `parse_url_char` of `UrlParser`, and
the method through the table of letters of `s_req_method`. When it refuses the text, wrk
exits (`stage`); `WrkMain` starts its threads with a text that was accepted.

**Kcov.** A wrapper is a frame on the thread's stack, with the place it has
reached in `kcov_startup`, the call, or `kcov_done`; a signal handler's call is a
second frame. The descriptor table is the kernel's: `open` returns the lowest
free number below the program's limit. `exit(-1)` and the use of an unmapped buffer end
the process. When `KIODISABLE` fails, `PRINTF` (`coverage.c:43-47`) calls the wrapped
`write`: that is a frame of the library's own, which runs `kcov_startup` and `kcov_done`
where `write` is selected and may fail in the same way. What `perror` and `printf` do
stays inside the C library.

**Seccomp.** A filter is what the macros of `sec.c` expand to: the architecture test,
the load of the call number, two instructions for each `Allow`, the end; `LoadsLast` are
the servers whose filter has the load behind the list. `main` is one action per `prctl`
and the `execvp`, which may enter the kernel for several places of `PATH`. Each
instruction the kernel runs is a step (`RunLoad`, `RunJump`, `RunRet`); once it is
executed, the server may make any call with any architecture word.

## Runs

Passing runs (all reach every action of their module):

| Run | Question |
| --- | --- |
| `AeFile` | do tables and kernel agree on each back end, is `maxfd` exact, can a readiness be lost? |
| `AeTimers` | is no timer called early, after its end or not at all, and is the list sound, whatever callbacks do to it while it is walked and to the clock? |
| `Worker` | do eleven configurations keep sockets, latencies and dispatch right, and implement the abstract request cycle? |
| `Worker_served` | does every connection go on, on every back end, with and without `delay()`, is every cut noticed, and does the thread stop? |
| `WrkMain` | is the target the one the URL means; do overlapping `stats_record` calls frame everything; does main read alone, correct once and report everything; does every run end, interrupted or not? |
| `HttpResponses` | is the depth of the pipeline the number of requests that a server finds in the script's text, and is any other text refused; is what was sent delivered, however the stream is cut, whenever it ends, and is only what is no response refused? |
| `Kcov` | does the library keep to itself and trace what it should, with two threads, in both builds? |
| `CoverageRuns` | is every line counted for its own call and kept, wherever the script is interrupted? |
| `Seccomp` | do the filters of the four servers allow what they list, and does none start without its filter? |

Every property has a mutant: a change of the mapped definition such as a
dropped guard or a swapped order, next to it in the module, that makes TLC
report that property. The runs that expect a violation are under
[what the checks found](#what-the-checks-found).

`TypeOK` is the type invariant of a module; where a run does not list it, it is a conjunct of
the invariant about soundness (`ListSound`, `SocketsAccounted`, `DescriptorsApart`, `AssertsHold`). The
others, in short:

* `BackendInSync`, `MaxFdExact`, `EitherKernelOrPending`,
  `NoLostReadiness` (liveness) for the loop;
* `OnlyWhenAsked` (no step calls a timer early or after its end), `InTime` (no poll
  outlasts a timer, no pass misses one) and `ListSound` for the timers;
* `FreshDispatch` for stale entries, `SocketsAccounted` for sockets (none leaked, each
  registered as its handler expects), `NeverAborts` (evport finds open what it associates again), `ResponseExpected` (with latencies), `PendingMatches`,
  `ImplementsCycle` for batches (the refinement), `HealthyKept` (no step closes a socket
  that works, while no delay timer can outlive its socket), `StopEnds`, `KeepsGoing` and `CutsNoticed` (liveness) for the worker. Each says in
  its comment in which configurations it is claimed and why not in the others;
* `FramedAtRest`, `BoundsOnlyWiden` (no step narrows) for the recording; `CorrectedOnce`
  compares the histogram that is reported with a closed formula over the samples that were
  recorded (so none is lost), `ReadersSeeSamples` says that percentiles, single values and
  the mean are of the samples;
* `ReadAlone` and `ReportIsComplete` for main's unlocked reads, `UrlUnderstood` for the
  target and for what is refused, `RunEnds` (liveness) for the whole run;
* `Attributed` and `MergedKept` for the coverage scripts;
* `DepthVerified` for the requests of the script, `DeliveredAsSent` (each response once, in order, when it or the stream has ended, with
  its headers and body), `CutIndependent` (the cuts leave no trace), `RefusesOnlyBad`
  (no response, or a header beyond the limit), and `AssertsHold` for the `assert`s of `http_parser.c`;
* `DescriptorsApart` (`OwnFiles` and `NothingLeft`), `TracedAndLogged` (exactly the selected calls),
  `WrappersReturn` for the library;
* `AllowedIffListed` and `Confined` for the sandbox.

## Bounds

* `AeFile`: two descriptors, each of them idle, readable, or readable, writable
  and hung up. Two suffice for the interplay of descriptors (a delete that lowers
  `maxfd` past another one, two entries in a poll); the theorems hold for any number.
* `AeTimers`: three timers, in memory and created in a behaviour, so that one is before
  and one behind the one that is called. A second has `Sec` = 2 milliseconds, delays are
  0 and 3, so that sums carry; time goes to 3, and the clock is set once, by 3 either way.
* `Worker`: two connections, descriptors 1 to 3 in the loop's table and a fourth
  beyond it. Two connections make a descriptor number change hands. Batches of
  one or two requests; `MaxTimers` delay timers for a connection; `PendingMod`
  stands for 2^64. A server has at most as many answers under way as requests.
* `WrkMain`: up to three threads and four responses, on six buckets (values from `Limit`
  on, which have none, occur); `Infinity` stands for `UINT64_MAX`. Loads with one thread vary
  the samples and the runtime: intervals from 1 up, corrections that fill buckets below `min`,
  that read back what they filled, and none. Loads with two and three vary the
  interleaving: three compare-and-swap loops meet. All combinations of 0 to 2 threads and
  connections and 0 or 1 second; well-formed URLs with every shape of each part; and *every*
  sequence of at most three symbols behind `http://` or `http://fe`, of which a generator of
  well-formed parts says which are URLs: after three symbols every pair of adjacent states
  of the two machines has met every delimiter.
* `CoverageRuns`: two builds of two iterations: something left over can come from the same
  iteration, another one or another build; two interrupts, so that a restart is interrupted
  again. A server has one line to log per build. The theorems hold for any number.
* `HttpResponses`: 17 shapes of a response (each framing, status, option of `Connection`,
  folded, empty and nearly known headers, trailers), each alone and before each of
  three followers, and 27 streams that are none, one for each test the parser makes.
  Reads of 1, 2, 5 symbols or all that is there mix freely, so that every place can be
  a cut. `ULLONG_MAX` is 63: its conservative tests then refuse lengths from 60 on, and
  the lengths in the streams would wrap. `HTTP_MAX_HEADER_SIZE` is 80, with headers
  below half of it, below it and beyond it. Two sockets, since only what the first
  leaves behind can matter to the next. Texts of requests: each of the 33 methods and 4644
  words near one (a letter of another method in its place, the end of another one, a
  letter more or less), 23 shapes of a request alone and before one of two others, four
  texts cut at each of their last 30 symbols, and 23 tails that are no request. A text other
  than a plain one is only verified, not run.
* `Kcov`: four descriptors (3 to 6) for two threads, so that the table can be full, and six
  for the one with a handler, enough for its two calls and one that the library makes
  itself, and few enough that a recursion ends;
  `BufSize` entries in a trace, as many as one call leaves; `MaxApp` descriptors
  the program holds at once.
* `Seccomp`: nothing is scaled: the lists are the ones of `sec.c`; `Calls` are all that any of
  them has and three that none has, so that every test of every filter fails and succeeds.

## Fairness

* `AeFile`: the loop itself runs. The poll is bounded by the 100 ms timer that
  `record_rate` keeps, and callbacks return. Nothing is assumed of the callbacks
  or of readiness.
* `Worker`: `LoopFairness` says the same of the worker's loop, with strong
  fairness of its timers, which run at the end of a pass and are due again and
  again; it is written so that handlers and timers of all connections count.
  `ServerFairness`, in the runs about progress, says that the server accepts and
  answers. No fairness is assumed of faults, of `stop` or of the clock.
* `WrkMain`: `main` takes its next step and its sleep ends (`MainStep`); a thread inside
  `stats_record` takes its next step; and once `stop` is set, its 100 ms timer runs
  (`ThreadEnds`). A thread need not record anything. Since the responses of a run are
  bounded, the compare-and-swap loops are too; the lock-free loop itself only fails when another
  thread has widened the bound. Reading the command line is one step and stays out of the
  fairness: `RunEnds` speaks of a run once it has a target.
* `AeTimers`: no liveness is claimed of it.
* `Seccomp`, `CoverageRuns`: only safety is claimed. `Kcov`: a wrapper that is entered goes on.

## Proofs

`tlapm` checks every proof with the SMT solver Z3, Zenon and, for the temporal
steps, LS4. The theorems hold for every value of the constants that satisfies the
named assumptions of the modules.

**AeProofs** (any `SetSize`, any handlers) says what each call of the loop does: its type,
the slots it leaves alone, what the one it touches holds after it, and what a poll may
return (`OneEntry`: one entry for a descriptor, but for kqueue). `AeFileProofs` and
`WorkerProofs` both rest on it.

**AeFileProofs** (any `SetSize`, any handlers, any readiness):

* `TypeCorrect`. `LastArmedExists`, by well-founded descent on the naturals, says
  that the downward scan of `aeDeleteFileEvent` has a result; `FiredTyped` and
  `OrdersTyped` bound what a poll may return.
* `TablesMatchKernel`. `BackendInSync` is not
  inductive by itself: it speaks of what is watched *or pending*. `SyncInv` adds
  that nothing is pending with the back ends that have no pending list, and is
  inductive together with `TypeOK`. Only one end point of a change is visible at
  a time: epoll derives ADD or MOD, and the new mask, from the loop's table, so each
  call is right only if the tables agreed before it.
* `MaxFdCorrect`: `MaxFdExact` with `TypeOK` is inductive; the work is in
  `DeleteTop`, where the scan may end at -1 or at any lower descriptor.
* `KernelOrPending`: by `SyncInv` for three back ends, by `Apart` for evport.
  `ApiFixed` says that a run does not change its back end.

**AeTimersProofs** (any number of timers, any program of callbacks, any scale of seconds, any
setting of the clock that leaves it past the first second): none of the three properties is
inductive. `IInv` lays the list out: `Linked(s, n)` says that `s[1]`, ..., `s[n]` are all that
is allocated, each once and in the order of the links, and `WalkAt(s, n, k)` that the walk is
at `s[k]`, that all it still has to call is there or ahead, *and due*, and that whatever was
created since it began is behind it. So `Create` shifts the layout (`PutFirst`), `Unlink` takes
one out (`TakeOut`), and the pass ends with nothing left to call. `IdsInv` says that an id that
is asked for is of one timer, `ClockInv` that a clock that was never set goes forward and that a
timer shows the time that was asked for. Seconds and milliseconds are separate in `ae.c`:
`aeAddMilliseconds` proves that adding with the carry adds, `Times` that comparing the seconds
first compares, and `DueLater` and `DueWhenForced` what stays due as the clock moves;
`NearestTimer`, by well-founded descent, that the search of the list has a result.
`ListStaysSound`, `TimersInTime` and `CalledOnlyWhenAsked` follow.

**WorkerProofs** (any connections, table size, back end and faults; any number of delay timers):
`NoSocketLeaks` and `NoStaleDispatch`. Neither is inductive, and they need one another's
invariant. `Sound` says that every open socket is watched for reading for the one connection whose
`c->fd` it is: so a descriptor that a connection still names after its socket was closed, and that
another connection has since been given, is watched for that other one. `FiredFresh` says of
each entry of the poll that is still to be dispatched that its descriptor is `Good`: open, not closed
since, its connect over; the entry that is being dispatched may have been closed by its own readable handler,
and then it is `Quiet`: its writable handler is not called, or is the same `socket_connected`
that has just run (`ae.c:415`). The step lemmas hang on two relations of the
state before and after a call: `Keeps` (what closing and connecting again does to the
descriptors of the *other* connections) and `Steady` (what the other calls leave
alone). No two open sockets have one connection (the owner is an injection), so there
are never more sockets than connections. With kqueue a poll returns two entries for a
descriptor, and the second may reach a handler of the number's next socket: `FreshDispatch` excepts it.

The other theorems about `Worker` are claimed where the server answers in turn and no delay timer
can outlive its socket (`Orderly`; the run `Worker_delay_cycle` shows what happens otherwise):
`PendingCounts`, `OnlyExpectedResponses`, `BatchesAlternate`, `HealthyNotDropped`, and
`CycleImplemented`, the refinement of `RequestCycle` (whose mapping is empty in the other
configurations). They hold for any size of a batch, any number of
connections, any splitting of writes and reads, and all four back ends. Their invariant, `CycleInv`, says of
each connection that has its socket that it `Waits` for `connect()`, with nothing on its way, or
`Serves`: `Batch` balances `c->pending` with what is `Due` (not sent, owed by the server, in the socket
or in the read buffer, or a body that ends with the stream) and says that the write event is
armed, or the delay timer runs, when nothing is; `Coming` says what may be in the stream. Besides, `Fit` says
what the rest of the poll (`ToDo`) may still promise: a descriptor that was closed since has at most one
report left, and a socket that has taken its number is `Silent`, so that with kqueue too the late report
does no harm; and `Reading` keeps the connection whose bytes are parsed in the loop.

The proof is in three layers. The lemmas `...Serving` are about the record of one connection, its
socket and its stream, without the state: what a write of any part, a response that ends, an
answer or a cut does to the balance. The number of responses in a stream is a cardinality (`Ends`), so that
`EndsJoin` and `EndsTail` replace an induction. `Kept` and `Loose` say of a call, or of a sequence of
calls, that it only touches what belongs to one connection, with its socket kept or given up. The step
lemmas, one for each action, then show `Stepped(c)`: `CycleInv` holds again, no healthy
socket is closed, the other connections are `Unmoved`, and `c` `Moves` as `RequestCycle` lets it.
`NextSteps` collects them; the invariant, the action property and the refinement all follow from it.
`Bridge` says that `Working` and `ToCome`, on which the refinement mapping rests, are what the invariant speaks of.

**KcovProofs** (any number of threads, descriptors and builds): `KcovTypeCorrect` holds in
every build, also when a handler's wrapper interrupts another and the library reports errors
through itself, to any depth. The others
are claimed where no handler makes wrapped calls. Their invariant, `IInv`, ties for each thread
the place its wrapper has reached to what the descriptor table, the kernel and the buffer hold:
`FilesInv` (the device and the log are exactly where the thread's variables say, so no other
thread can have them), `TracingInv`, `TraceInv`. `TracingInv` is why `KIODISABLE` never fails
there, hence the conjunct `NotReentered` of `DescriptorsApart`. `LowestIsFree` says that the number `open`
returns was free; `OthersKept` that a step leaves the invariant of the other threads alone. The assumption
`BufSize >= 2` is needed: `kcov_done` dumps one entry less than the trace has, so a
buffer of one entry would log nothing; `KCOV_BUF_SIZE` is 2^27 (`coverage.c:35`).
`OnlyMappedBuffersUsed` has no run of its own: it is a conjunct of the invariant.

**WrkMainProofs** (any finite set of threads, any values and limit, any command lines; no connection
answers more than once in a microsecond, without which the interval of the correction may be 0). The
histogram by itself: `TypeCorrect`; `BoundsWiden`; `FramedCorrect`, whose invariant says of
each thread where in `stats_record` it is and that the bound it still owes is the one it holds: a
sample outside the bounds belongs to a thread that is on its way to widen them. Then
the whole run: `MainInv` is that invariant with the stages of `main`: only a running thread is inside `stats_record`, every running thread is one
that `main` will join (`t <= line.threads`), and the threads below `i` have ended.
`StatsStep` shows that a step of a run is a step of `Stats` or leaves all alone but the
buckets and `count`, which the correction rewrites; so the invariant of `Stats` carries over. `ReadAloneCorrect`,
`MainFramed`, `MainBoundsWiden` follow.

The sums over the histogram are cardinalities: `Samples(d)` numbers the samples in each bucket,
and `Total(d)` is how many they are. So adding to a bucket, splitting a histogram or enumerating it
are facts about finite sets (`TotalAdds`, `TotalSplits`, `TotalWithout`), not inductions. `SumInv` has
five parts: `count` lags behind the buckets by the threads between the two additions
(`Sampled`), the threads' counters sum up to the responses (`Answered`), the histogram lags
behind them by the threads before their first addition (`InHistogram`), main's sum is that of the
threads it has joined (`Summed`), and main goes on only with options it accepts. `MainTypeCorrect`
and `ReportCompleteCorrect` follow. `CorrectInv` speaks of `stats_correct`, which reads buckets
that it has filled itself: the buckets that the outer loop has
not reached have their own samples and what was added from below (`Reached`), those behind it are done
(`Passed`), and the inner loop has given its share down to `m` (`Passing`). `AddedNext`,
`NoneBetween` and `NextPlace` are the arithmetic: sample values that differ by multiples of the interval. It gives
`CorrectedOnceCorrect`. `ReadersCorrect`: a percentile by the least bucket that
has enough at or below it; the single values by the number of used buckets below
(`Before`), which is a bijection; the mean by comparing bucket by bucket with `min` and `max`.

`UrlUnderstoodCorrect` is about URLs of any length. *Forward* (`WellFormedAccepted`):
`RenderLays` says where each part of a URL that was written from its parts lies, `Staged` and
`HostStaged` in which state each pass is in each region, `Found` and `HostFound` which fields
it has marked by then. *Backward* (`AcceptedWellFormed`): `Understood1` and `Understood2` are
what each pass knows of the symbols that it has read, as cut points (`AcceptedCuts`); the slices
between them are the parts, which make the URL again (`HostWritten`,
`PortWritten`, `SlashesWritten`). `Upwards` steps along a scan
without the induction theorem of the library. The theorem's hypothesis is that `means` names a way
to write the URL whenever there is one, and `WrkMainAssumption` that it names no other; they
tie what a command line means to the grammar. The run enumerates both sides.

**CoverageProofs** (any number of builds, iterations and interrupts): `ResultsAttributed`, whose
invariant says which lines the log and the temporary file can hold at each place of
the script, and that the servers alive are of the current build; it is only claimed while no
server has outlived its iteration. `MergesKept`: from the merge to the sort the temporary file
holds all that the result held and all that was logged before the merge.

**SeccompProofs** (any servers, any lists, of any length): `FilterShape` and `Order` say where
each instruction of a filter lies, from the laws of concatenation. `TypeCorrect`: in
both layouts every instruction returns or leads to another one. `NeverUnconfined`, from
`Staged`, which ties the place `main` is at to what it has done. `ListDecides`: the
invariant `Compared` says what the machine has found out when it is about to run an
instruction: that all tests it has passed failed, and that the one before a return
succeeded. A list of sixty calls is beyond an enumeration of its subsets; here
it is arbitrary.

**Model-checked only.** Liveness and `ENABLED` are out of the prover's reach: `NoLostReadiness`,
`StopEnds`, `KeepsGoing`, `CutsNoticed`, `RunEnds` and `WrappersReturn`. `NeverAborts` has no proof yet. `HttpParser` walks its data
with recursive operators, which the prover cannot take, so `DeliveredAsSent`, `CutIndependent`,
`RefusesOnlyBad`, `AssertsHold` and `DepthVerified` stay with TLC. All other properties of the
passing runs are stated by a theorem.

## What the checks found

Each is a run that must end in a violation; `PROJECT.json` quotes the text that the
code contradicts.

* `Worker_delay_cycle`: a delay timer outlives a reconnect and starts a second batch
  on the new socket before the first is answered. What follows is outside the run, which stops
  there: in longer behaviours of the same configuration the answer of the other batch finds `pending` at
  zero, which wraps until the next batch sets it again, or its latency is recorded against the
  start of a batch that was recorded before (`ResponseExpected` leaves these configurations out).
* `Seccomp_lighttpd`: the filter of lighttpd loads the call number behind its list, so it
  compares the list with the architecture word and kills the launcher at its `execve`.
* `Kcov_reused_number`: `kcov_device` keeps the number of the closed device, and an
  `ioctl` on a descriptor that got the number is not traced.

Seen while modelling, without a run of their own:

* *Loop*: `aeDeleteFileEvent` calls the back end before it clears the bits
  (`ae.c:161`), and evport, which says that it relies on the opposite
  (`ae_evport.c:213-214`), associates the deleted event again; `BackendInSync` leaves
  evport out. A descriptor whose two events are deleted one at a time and which is then closed
  stays pending in this way, and the next poll aborts the process; `wrk` deletes both at once.
  With kqueue the second entry of a descriptor reaches the handlers of its
  reopened number.
* *Timers*: a clock that is set forward while callbacks run, and back before the next pass,
  is not noticed if the seconds do not go below `lastTime`: the timers made in between
  are late. A finalizer that creates a timer would have it dropped by the removal that
  follows (`ae.c:297-302`).
* *Worker*: a response that ends with the stream is completed and counted as a read error
  as well, and its connection is opened anew twice (`wrk.c:438`); a `connect()` that fails at once is never tried again; a refused connect is
  counted as a read or write error; a timeout is only counted when the late response completes, so
  a response that never comes is not, although `wrk/README.md:44-45` promises it; a
  reconnect resets the parser and not the two buffers, so the headers and body of a response
  that was cut become part of the next one. With a delay, when the
  server closes two connections and the `connect()` of one fails at once, its `c->fd` keeps the number
  that the new socket of the other may get; its delay timer (`wrk.c:291-296`) then
  registers it on that socket, it reads the stream from its middle, and drops a healthy socket for a
  parse error. `HealthyKept` is therefore
  claimed where no delay timer can outlive its socket.
* *wrk main*: SIGINT that is delivered to a thread, or to `main` between `sigaction` and `sleep`,
  ends the threads and leaves `main` asleep for the rest of the duration, which then counts as
  runtime: the rates come out too low. A query without a path is dropped (the path is `/`,
  `script.c:62-66`); a fragment is sent to the server. A host with an underscore is refused
  (strict mode). `stats_correct` would not end with an interval of 0, which takes more than one
  response per connection and microsecond.
* *Scripts*: `kill -9` at the start of a script has no `sudo`, so a server that an interrupted run left
  is not ended, keeps the port and writes to the new log; the log is removed before the kill. `nginx.sh` sends SIGQUIT and
  waits a second, and a server that needs longer writes to the log of the next iteration. A
  result whose sort is interrupted is lost: it is truncated first (`syscalls.sh:48`).
* *Statistics*: the correction adds samples below `min`, which stays, so the reported
  mean can be below the reported minimum (`ReadersSeeSamples` says what does hold).
* *Parser*: a response without headers does not call `response()`, or gives it a value
  that an earlier response left in the buffer, and its body stays; a response to HEAD,
  or a 204 or 304 with a length, makes the parser wait for a body; a 1xx is counted as
  a response; an option of `Connection` that begins a known word and ends in a comma
  swallows the next option; the characters of most header values are only looked at
  where a read or the value begins; `1 2` is the length 12; a size error at the last
  byte of a read is only seen by the next read; `nread` counts a byte twice around a
  cut, so that a header of more than half the limit may be refused.
* *Requests*: a text that ends inside a request is accepted when a whole one comes before:
  "incomplete request" (`script.c:285`) is only said of a text without any, and the rest is
  sent with every batch. A request after one that asks for an upgrade is refused. The depth is taken
  from the first text; a `request()` that later returns another number of requests is not noticed.
* *Library*: a signal handler's wrapped call turns the interrupted call's tracing off; its own
  `KIODISABLE` fails where the thread was traced already, and when `write` is selected the
  report of that is traced too and fails again, until the process has no descriptor left and exits
  (`WrappersReturn` says so);
  an inclusive log holds entries of the library's own `KIODISABLE`.

## Not modelled

`stats_stdev` and `stats_within_stdev` (long double arithmetic); `zmalloc` (a byte count
that nothing reads); `units.c`, `aprintf.c` (scanning and formatting of numbers) and the printing of
the report; `getopt` and the failure of `ssl_init`; the Lua glue that only moves values; the unset
callbacks of `http_parser.c` and a parser of both types; offsets of a URL
beyond 16 bits; bytes that arrive while `socket_readable` parses a full buffer and which it would read
in the same call (`wrk.c:440`: in `Worker` they wait for the next readable event); the opening of
`/dev/kcov` by the program itself; a failed `KIOSETBUFSIZE` for want of memory; the benchmark, seccomp and plotting scripts, which keep no state, and the
analysis of the coverage results; `aeResizeSetSize`, `aeWait` and `aeGetFileEvents`, which `wrk` never
calls; server configuration and the archives in `wrk/deps`.

## Plan

Done: `Ae`, `AeFile` and `AeTimers` with theorems; `Worker` with theorems, and its refinement of `RequestCycle`; `Stats`,
`StatsRead`, `UrlParser` and `WrkMain` with theorems; `Kcov` with theorems; `HttpParser`, `HttpResponses`, `HttpRequests`; `Seccomp`
with theorems; `CoverageRuns` with theorems. Left, in this order:

1. `HealthyKept` where a delayed connection is cut but no `connect()` fails at once: it needs
   `Coming` without `Batch`.
2. `thread:stop()` from a script, which `aeMain` undoes when it comes before the loop.
3. `units.c` at its boundaries.
