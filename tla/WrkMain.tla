------------------------------ MODULE WrkMain -----------------------------
(***************************************************************************)
(* One run of wrk: main (wrk/src/wrk.c:61-200) reads the command line,     *)
(* resolves the service, starts the threads, sleeps, stops and joins them, *)
(* corrects the latencies and reports.  The threads record the latencies   *)
(* of their responses (module Stats) until they see that they are stopped; *)
(* what else they do is module Worker's.  SIGINT may come at any time.     *)
(***************************************************************************)
EXTENDS StatsRead, UrlParser

CONSTANT
    CommandLines    \* the command lines, with what the run meets:
                    \*   url, means   the URL and what it was written from
                    \*   threads, connections, duration   the options
                    \*   up           a connection to the service succeeds
                    \*   calls        bound: responses in all
                    \*   values       latencies of the responses
                    \*   runtimes     runtime_us, in units of the latencies

ASSUME WrkMainAssumption ==
    /\ Threads \subseteq Nat \ {0} /\ IsFiniteSet(Threads)
    /\ \A l \in CommandLines :
          /\ l.threads \in Nat /\ 1 .. l.threads \subseteq Threads
          /\ l.connections \in Nat
          /\ l.calls \in 0 .. MaxCalls /\ l.values \subseteq Values
          \* no connection answers more than once in a microsecond
          /\ \A r \in l.runtimes : r \in Nat /\ l.connections * r >= l.calls
          /\ l.url \in Seq(Chars) /\ NumbersApart(l.url)
          /\ \A d \in l.means : WellFormed(d) /\ Render(d) = l.url

VARIABLES
    line,           \* the command line
    cfg,            \* the target main has understood, "none" before that
    i,              \* main's loop variable
    thr,            \* each thread: "none", "running" or "ended"
    stop,           \* the flag the handler, main and the threads share
    complete,       \* each thread's responses
    total           \* main's sum of them

mvars     == <<line, cfg, i, thr, stop, complete, total>>
statsVars == vars
allVars   == <<mvars, vars, at, locals>>

Exits   == {"usage", "unreachable", "failed"}   \* exit(1), exit(1), exit(2)
Ended   == Exits \cup {"report"}
Joined  == {"outer", "inner", "report"}
Running == {t \in Threads : thr[t] = "running"}

MainInit ==
    /\ Init
    /\ line \in CommandLines
    /\ cfg = "none" /\ at = "start" /\ i = 0
    /\ thr = [t \in Threads |-> "none"]
    /\ stop = FALSE
    /\ complete = [t \in Threads |-> 0] /\ total = 0
    /\ expected = 0 /\ reached = 0 /\ m = 0 /\ left = 0

---------------------------------------------------------------------------
(* main                                                                    *)

(* parse_args, and the parts main copies from the URL                      *)
OptionsOK(l) == l.threads > 0 /\ l.duration > 0 /\ l.connections >= l.threads

ParseArgs ==
    /\ at = "start"
    /\ LET parts == script_parse_url(line.url) IN
       IF OptionsOK(line) /\ parts.ok
       THEN at' = "resolve" /\ cfg' = Target(line.url, parts.data)
       ELSE at' = "usage" /\ UNCHANGED cfg
    /\ UNCHANGED <<line, i, thr, stop, complete, total, statsVars, locals>>

(* script_resolve: wrk.resolve keeps the addresses it can connect to.      *)
Resolve ==
    /\ at = "resolve"
    /\ at' = IF line.up THEN "create" ELSE "unreachable"
    /\ i' = 1
    /\ UNCHANGED <<line, cfg, thr, stop, complete, total, statsVars, locals>>

(* The event loop or pthread_create may fail; exit ends the threads that   *)
(* run already.                                                            *)
Create ==
    /\ at = "create" /\ i <= line.threads
    /\ \/ /\ thr' = [thr EXCEPT ![i] = "running"]
          /\ i' = i + 1
          /\ UNCHANGED at
       \/ /\ at' = "failed"
          /\ UNCHANGED <<thr, i>>
    /\ UNCHANGED <<line, cfg, stop, complete, total, statsVars, locals>>

(* SIGINT is ignored up to here.                                           *)
InstallHandler ==
    /\ at = "create" /\ i > line.threads
    /\ at' = "sleep"
    /\ UNCHANGED <<mvars, statsVars, locals>>

SleepEnds ==
    /\ at = "sleep"
    /\ at' = "awake"
    /\ UNCHANGED <<mvars, statsVars, locals>>

Stop ==
    /\ at = "awake"
    /\ stop' = TRUE
    /\ at' = "join" /\ i' = 1
    /\ UNCHANGED <<line, cfg, thr, complete, total, statsVars, locals>>

(* Mutant: the sum is taken while the thread runs.                         *)
Join_NoWait ==
    /\ at = "join" /\ i <= line.threads
    /\ total' = total + complete[i]
    /\ i' = i + 1
    /\ UNCHANGED <<line, cfg, thr, stop, complete, at, statsVars, locals>>

Join ==
    /\ at = "join" /\ i <= line.threads
    /\ thr[i] = "ended"
    /\ total' = total + complete[i]
    /\ i' = i + 1
    /\ UNCHANGED <<line, cfg, thr, stop, complete, at, statsVars, locals>>

(* The expected interval is the time one connection took per response.     *)
Interval ==
    /\ at = "join" /\ i > line.threads
    /\ LET perConnection == total \div line.connections IN
       IF perConnection > 0
       THEN /\ \E runtime \in line.runtimes : expected' = runtime \div perConnection
            /\ reached' = 2 * expected'
            /\ at' = "outer"
       ELSE at' = "report" /\ UNCHANGED <<expected, reached>>
    /\ UNCHANGED <<mvars, statsVars, m, left>>

MainStep ==
    \/ Resolve \/ Create \/ InstallHandler \/ SleepEnds
    \/ Stop \/ Join \/ Interval
    \/ Correct /\ UNCHANGED mvars

(* The handler runs in main's sleep, which it ends, or elsewhere: in a     *)
(* thread, or in main between sigaction and sleep.                         *)
InterruptSleep ==
    /\ at = "sleep"
    /\ stop' = TRUE
    /\ at' = "awake"
    /\ UNCHANGED <<line, cfg, i, thr, complete, total, statsVars, locals>>

InterruptElsewhere ==
    /\ at \in {"sleep", "awake", "join"} /\ ~stop
    /\ stop' = TRUE
    /\ UNCHANGED <<line, cfg, i, thr, complete, total, at, statsVars, locals>>

---------------------------------------------------------------------------
(* The threads.  An exit of main ends them wherever they are.              *)

(* response_complete: a response more, and its latency                     *)
Response(t, v) ==
    /\ at \notin Ended /\ thr[t] = "running"
    /\ calls < line.calls
    /\ Call(t, v)
    /\ complete' = [complete EXCEPT ![t] = @ + 1]
    /\ UNCHANGED <<line, cfg, i, thr, stop, total, at, locals>>

Recording(t) ==
    /\ at \notin Ended /\ thr[t] = "running"
    /\ Step(t)
    /\ UNCHANGED <<mvars, at, locals>>

(* record_rate sees the flag: aeMain and thread_main return.               *)
(* Mutant: a thread ends inside a callback.                                *)
ThreadEnds_AtOnce(t) ==
    /\ at \notin Ended /\ thr[t] = "running"
    /\ stop
    /\ thr' = [thr EXCEPT ![t] = "ended"]
    /\ UNCHANGED <<line, cfg, i, stop, complete, total, at, statsVars, locals>>

ThreadEnds(t) ==
    /\ at \notin Ended /\ thr[t] = "running" /\ pc[t] = "out"
    /\ stop
    /\ thr' = [thr EXCEPT ![t] = "ended"]
    /\ UNCHANGED <<line, cfg, i, stop, complete, total, at, statsVars, locals>>

Done == at \in Ended /\ UNCHANGED allVars

MainNext ==
    \/ ParseArgs \/ MainStep \/ InterruptSleep \/ InterruptElsewhere \/ Done
    \/ \E t \in Threads :
          \/ Recording(t) \/ ThreadEnds(t)
          \/ \E v \in line.values : Response(t, v)

MainSpec == MainInit /\ [][MainNext]_allVars

(* Main runs on, its sleep ends; a thread inside stats_record runs on, and *)
(* its event loop gets to the timer that reads the flag.                   *)
MainFairSpec ==
    /\ MainSpec
    /\ WF_allVars(MainStep)
    /\ \A t \in Threads : WF_allVars(Recording(t)) /\ WF_allVars(ThreadEnds(t))

---------------------------------------------------------------------------
(* Main reads the threads' counters and the histogram without a lock once  *)
(* it has joined them (wrk.c:149-198): no thread may still be inside       *)
(* stats_record, or start another call, from then on.                      *)
ReadAlone ==
    /\ at = "join" => \A t \in Threads : t < i => thr[t] = "ended"
    /\ at \in Joined => AtRest /\ Running = {}

(* The report counts every response of every thread, and of their latencies*)
(* exactly those below the limit are in the histogram it was corrected     *)
(* from (wrk.c:149-171, stats.c:22).                                       *)
ReportIsComplete ==
    at \in Joined =>
        /\ total = Total(complete)
        /\ Total(recorded) <= total
        /\ line.values \subseteq Buckets => Total(recorded) = total

(* Every run that begins ends, reported or refused, wherever an interrupt  *)
(* hits it and whatever the threads' compare-and-swap loops do to each     *)
(* other (wrk.c:146-151, stats.c:27-29).                                   *)
RunEnds == at = "resolve" ~> at \in Ended

(* The command line is refused exactly when an option is out of range or   *)
(* the URL is not well formed; and the service, the Host header and the    *)
(* path of the requests are those the URL was written for (wrk.c:70-73,    *)
(* script.c:62-79, wrk.lua:30-38).                                         *)
UrlUnderstood ==
    /\ at = "usage" => ~OptionsOK(line) \/ line.means = {}
    /\ at = "resolve" => OptionsOK(line) /\ \E d \in line.means : cfg = Meant(d)
===========================================================================
