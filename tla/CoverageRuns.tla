--------------------------- MODULE CoverageRuns ---------------------------
(***************************************************************************)
(* The scripts that collect the coverage of a server (scripts/syscalls.sh  *)
(* and scripts/redis.sh, memcached.sh, lighttpd.sh, nginx.sh): for every   *)
(* system call and both modes the library is built, the server is run      *)
(* under load a number of times, and the log the library writes is merged  *)
(* into the result of that build.  A script may be interrupted between any *)
(* two commands, and inside the sort, and is then run again from the start.*)
(***************************************************************************)
EXTENDS Naturals

CONSTANTS
    NumBuilds,      \* the builds, one per call and mode
    Iterations,     \* iterations of each build
    Entries,        \* what a server can log
    MaxInterrupts   \* bound: interrupts of the script in all

ASSUME CoverageAssumption ==
    /\ NumBuilds \in Nat \ {0}
    /\ Iterations \in Nat \ {0} /\ MaxInterrupts \in Nat

VARIABLES
    conf,           \* root: the script runs as root; quit: it stops the
                    \* server with SIGQUIT (nginx.sh), not SIGKILL
    at, b, iter,    \* the script's place, build and iteration
    log,            \* /tmp/kcov.log: it exists, and the lines in it
    out,            \* the results, $OUTPUT/$NUM/kcov-*.log
    tmp,            \* /tmp/kcovtmp
    serving,        \* the build of the server that has the port, 0: none
    lingering,      \* the builds of servers told to quit that still run
    interrupts,     \* interrupts so far (bounded by MaxInterrupts)
    logged,         \* history: the lines the iteration logged before its merge
    kept,           \* history: the lines of the merged iterations
    torn,           \* history: the results an interrupted sort left
    outlived        \* history: a server outlived its iteration

script  == <<at, b, iter>>
files   == <<log, out, tmp>>
servers == <<serving, lingering>>
history == <<logged, kept, torn, outlived>>
vars    == <<conf, script, files, servers, interrupts, history>>

Builds == 1 .. NumBuilds
Lines  == Builds \X Entries         \* a line is of the build that wrote it
NoLog  == [exists |-> FALSE, lines |-> {}]
Places == {"begin", "kill", "startup", "serve", "load", "merge", "truncate", "sort",
           "remove", "done", "dead"}
Alive  == lingering \cup ({serving} \ {0})

TypeOK ==
    /\ conf \in [root : BOOLEAN, quit : BOOLEAN]
    /\ at \in Places /\ b \in Builds /\ iter \in 1 .. Iterations
    /\ kept \in [Builds -> SUBSET Lines] /\ logged \in SUBSET Lines
    /\ log \in [exists : BOOLEAN, lines : SUBSET Lines]
    /\ out \in [Builds -> SUBSET Lines] /\ tmp \in SUBSET Lines
    /\ serving \in Builds \cup {0} /\ lingering \in SUBSET Builds
    /\ interrupts \in 0 .. MaxInterrupts

Init ==
    /\ conf \in [root : BOOLEAN, quit : BOOLEAN]
    /\ at = "begin" /\ b = 1 /\ iter = 1
    /\ log = NoLog /\ tmp = {}
    /\ out = [c \in Builds |-> {}] /\ kept = [c \in Builds |-> {}]
    /\ serving = 0 /\ lingering = {}
    /\ interrupts = 0
    /\ logged = {} /\ torn = {} /\ outlived = FALSE

---------------------------------------------------------------------------
(* Mutant: the log of an interrupted run stays.                            *)
RemoveOldLog_Keeps ==
    /\ at = "begin"
    /\ at' = "kill"
    /\ outlived' = (outlived \/ Alive # {})
    /\ UNCHANGED <<conf, b, iter, files, servers, interrupts, logged, kept, torn>>

RemoveOldLog ==
    /\ at = "begin"
    /\ log' = NoLog
    /\ at' = "kill"
    /\ outlived' = (outlived \/ Alive # {})
    /\ UNCHANGED <<conf, b, iter, out, tmp, servers, interrupts, logged, kept, torn>>

(* Without sudo: the servers are root's, so only root's kill reaches them. *)
KillOld ==
    /\ at = "kill"
    /\ IF conf.root THEN serving' = 0 /\ lingering' = {} ELSE UNCHANGED servers
    /\ at' = "startup"
    /\ UNCHANGED <<conf, b, iter, files, interrupts, history>>

(* run_cmd_startup: the log is created if it is not there, and the library *)
(* is built for this call and mode.                                        *)
Startup ==
    /\ at = "startup"
    /\ log' = [log EXCEPT !.exists = TRUE]
    /\ logged' = {}
    /\ at' = "serve"
    /\ UNCHANGED <<conf, b, iter, out, tmp, servers, interrupts, kept, torn, outlived>>

(* A server that finds the port taken exits.                               *)
StartServer ==
    /\ at = "serve"
    /\ serving' = IF serving = 0 THEN b ELSE serving
    /\ at' = "load"
    /\ UNCHANGED <<conf, b, iter, files, lingering, interrupts, history>>

(* The load is over.  SIGKILL ends every server at once; after SIGQUIT the *)
(* script waits a second, and the server ends when it is done.             *)
StopServer ==
    /\ at = "load"
    /\ serving' = 0
    /\ lingering' = IF conf.quit THEN Alive ELSE {}
    /\ at' = "merge"
    /\ UNCHANGED <<conf, b, iter, files, interrupts, history>>

(* run_cmd_end: the log and the result, if there is one, go to a file ...  *)
(* Mutant: the result so far is left out.                                  *)
Merge_LogOnly ==
    /\ at = "merge"
    /\ tmp' = log.lines
    /\ outlived' = (outlived \/ Alive # {})
    /\ at' = "truncate"
    /\ UNCHANGED <<conf, b, iter, log, out, servers, interrupts, logged, kept, torn>>

Merge ==
    /\ at = "merge"
    /\ tmp' = log.lines \cup out[b]
    /\ outlived' = (outlived \/ Alive # {})
    /\ at' = "truncate"
    /\ UNCHANGED <<conf, b, iter, log, out, servers, interrupts, logged, kept, torn>>

(* ... which is sorted into the result: the shell truncates it first.      *)
Truncate ==
    /\ at = "truncate"
    /\ out' = [out EXCEPT ![b] = {}]
    /\ at' = "sort"
    /\ UNCHANGED <<conf, b, iter, log, tmp, servers, interrupts, history>>

Sort ==
    /\ at = "sort"
    /\ out' = [out EXCEPT ![b] = tmp]
    /\ kept' = [kept EXCEPT ![b] = @ \cup logged]
    /\ at' = "remove"
    /\ UNCHANGED <<conf, b, iter, log, tmp, servers, interrupts, logged, torn, outlived>>

RemoveLog ==
    /\ at = "remove"
    /\ log' = NoLog
    /\ \/ iter < Iterations /\ iter' = iter + 1 /\ at' = "startup" /\ b' = b
       \/ iter = Iterations /\ b + 1 \in Builds /\ iter' = 1 /\ at' = "startup" /\ b' = b + 1
       \/ iter = Iterations /\ b + 1 \notin Builds /\ at' = "done" /\ UNCHANGED <<b, iter>>
    /\ UNCHANGED <<conf, out, tmp, servers, interrupts, history>>

ScriptStep ==
    \/ RemoveOldLog \/ KillOld \/ Startup \/ StartServer \/ StopServer
    \/ Merge \/ Truncate \/ Sort \/ RemoveLog

---------------------------------------------------------------------------
(* A traced call of a running server: the library opens the log by name,   *)
(* creates it if need be, and appends.                                     *)
ServerLogs(c, e) ==
    /\ c \in Alive
    /\ log' = [exists |-> TRUE, lines |-> log.lines \cup {<<c, e>>}]
    /\ logged' = IF at \in {"serve", "load", "merge"} THEN logged \cup {<<c, e>>} ELSE logged
    /\ UNCHANGED <<conf, script, out, tmp, servers, interrupts, kept, torn, outlived>>

(* A server that was told to quit is done; one that outlived its script is *)
(* ended by hand.                                                          *)
ServerEnds ==
    /\ \/ \E c \in lingering : lingering' = lingering \ {c} /\ UNCHANGED serving
       \/ at = "dead" /\ serving # 0 /\ serving' = 0 /\ UNCHANGED lingering
    /\ UNCHANGED <<conf, script, files, interrupts, history>>

(* The script is interrupted between two commands, or inside the sort,     *)
(* which has written some of its lines; the server, in the background,     *)
(* runs on.                                                                *)
Interrupt ==
    /\ at \notin {"done", "dead"} /\ interrupts < MaxInterrupts
    /\ interrupts' = interrupts + 1
    /\ at' = "dead"
    /\ IF at = "sort"
       THEN /\ torn' = torn \cup {b}
            /\ \E written \in SUBSET tmp : out' = [out EXCEPT ![b] = written]
       ELSE UNCHANGED <<torn, out>>
    /\ UNCHANGED <<conf, b, iter, log, tmp, servers, logged, kept, outlived>>

Restart ==
    /\ at = "dead"
    /\ at' = "begin" /\ b' = 1 /\ iter' = 1
    /\ UNCHANGED <<conf, files, servers, interrupts, history>>

Done == at = "done" /\ UNCHANGED vars

Next ==
    \/ ScriptStep \/ ServerEnds \/ Interrupt \/ Restart \/ Done
    \/ \E c \in Builds, e \in Entries : ServerLogs(c, e)

Spec == Init /\ [][Next]_vars

---------------------------------------------------------------------------
(* A result holds only lines of its own build, whatever an interrupt has   *)
(* left in the log, in the result or in the temporary file: the unique     *)
(* coverage of a call is the difference of two results (README.md:5-11).   *)
(* Not so once a server has outlived the iteration or the invocation that  *)
(* started it, which writes on by the name of the log (redis.sh:16-19,     *)
(* nginx.sh:33-36).                                                        *)
Attributed ==
    ~outlived => \A c \in Builds : \A l \in out[c] : l[1] = c

(* Whatever an iteration had logged when it was merged stays in the result *)
(* of its build, over the later iterations and restarts, unless an         *)
(* interrupt hit the sort of that result (syscalls.sh:44-50).              *)
MergedKept ==
    \A c \in Builds :
        c \notin torn /\ ~(at = "sort" /\ c = b) => kept[c] \subseteq out[c]
===========================================================================
