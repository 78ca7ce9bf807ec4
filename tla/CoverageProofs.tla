--------------------------- MODULE CoverageProofs -------------------------
(***************************************************************************)
(* The results of the coverage scripts, for any number of builds and       *)
(* iterations, wherever the interrupts fall.                               *)
(***************************************************************************)
EXTENDS CoverageRuns, TLAPS

LEMMA TypeInit == Init => TypeOK
BY CoverageAssumption DEF Init, TypeOK, NoLog, Builds, Places

LEMMA TypeNext == TypeOK /\ [Next]_vars => TypeOK'
<1> SUFFICES ASSUME TypeOK, [Next]_vars PROVE TypeOK'
  OBVIOUS
<1> USE CoverageAssumption
    DEF TypeOK, NoLog, Alive, Places, script, files, servers, history
<1>1. CASE RemoveOldLog \/ KillOld \/ Startup \/ StartServer \/ StopServer
  <2>1. CASE RemoveOldLog
    BY <2>1 DEF RemoveOldLog
  <2>2. CASE KillOld
    BY <2>2 DEF KillOld
  <2>3. CASE Startup
    BY <2>3 DEF Startup
  <2>4. CASE StartServer
    BY <2>4 DEF StartServer
  <2>5. CASE StopServer
    BY <2>5 DEF StopServer
  <2> QED BY <1>1, <2>1, <2>2, <2>3, <2>4, <2>5
<1>2. CASE Merge \/ Truncate \/ Sort
  <2>1. CASE Merge
    BY <2>1 DEF Merge
  <2>2. CASE Truncate
    BY <2>2 DEF Truncate
  <2>3. CASE Sort
    <3>1. out' \in [Builds -> SUBSET Lines] /\ kept' \in [Builds -> SUBSET Lines]
      BY <2>3 DEF Sort
    <3> QED BY <2>3, <3>1 DEF Sort
  <2> QED BY <1>2, <2>1, <2>2, <2>3
<1>3. CASE RemoveLog
  BY <1>3 DEF RemoveLog
<1>4. ASSUME NEW c \in Builds, NEW e \in Entries, ServerLogs(c, e)
      PROVE  TypeOK'
  BY <1>4 DEF ServerLogs, Lines
<1>5. CASE ServerEnds \/ Interrupt
  BY <1>5 DEF ServerEnds, Interrupt
<1>6. CASE Restart \/ Done \/ UNCHANGED vars
  <2>1. 1 \in Builds
    BY DEF Builds
  <2> QED BY <1>6, <2>1 DEF Restart, Done, vars
<1> QED BY <1>1, <1>2, <1>3, <1>4, <1>5, <1>6 DEF Next, ScriptStep

---------------------------------------------------------------------------
(* Attributed becomes inductive with where the foreign lines could come    *)
(* from while no server has outlived its iteration: the server that runs   *)
(* is of the current build, and so are the lines of the log and, up to the *)
(* sort, of the temporary file.                                            *)
OfBuild(lines, c) == \A l \in lines : l[1] = c

AliveIsCurrent ==
    /\ at \in {"kill", "startup", "serve", "truncate", "sort", "remove"} => Alive = {}
    /\ at \in {"load", "merge"} => Alive \subseteq {b}

LogIsCurrent ==
    /\ at \notin {"begin", "dead", "done"} => OfBuild(log.lines, b)
    /\ at \in {"truncate", "sort"} => OfBuild(tmp, b)

AttributedInv == ~outlived =>
    /\ \A c \in Builds : OfBuild(out[c], c)
    /\ AliveIsCurrent
    /\ LogIsCurrent

LEMMA AttributedNext == TypeOK /\ AttributedInv /\ [Next]_vars => AttributedInv'
<1> SUFFICES ASSUME TypeOK, AttributedInv, [Next]_vars, ~outlived' PROVE AttributedInv'
  BY DEF AttributedInv
<1> USE DEF TypeOK, AttributedInv, AliveIsCurrent, LogIsCurrent, OfBuild, NoLog, Alive,
            script, files, servers, history
<1>1. CASE RemoveOldLog \/ KillOld
  <2>1. CASE RemoveOldLog
    <3>1. ~outlived /\ Alive = {}
      BY <2>1 DEF RemoveOldLog
    <3> QED BY <2>1, <3>1 DEF RemoveOldLog
  <2>2. CASE KillOld
    <3>1. ~outlived /\ Alive = {}
      BY <2>2 DEF KillOld
    <3>2. serving' = 0 /\ lingering' = {}
      BY <2>2, <3>1 DEF KillOld
    <3> QED BY <2>2, <3>1, <3>2 DEF KillOld
  <2> QED BY <1>1, <2>1, <2>2
<1>2. CASE Startup \/ StartServer \/ StopServer
  <2>1. CASE Startup
    BY <2>1 DEF Startup
  <2>2. CASE StartServer
    <3>1. ~outlived /\ serving = 0 /\ lingering = {}
      BY <2>2 DEF StartServer
    <3>2. serving' = b /\ lingering' = {}
      BY <2>2, <3>1 DEF StartServer
    <3> QED BY <2>2, <3>1, <3>2 DEF StartServer
  <2>3. CASE StopServer
    <3>1. ~outlived /\ lingering' \subseteq {b} /\ serving' = 0
      BY <2>3 DEF StopServer
    <3> QED BY <2>3, <3>1 DEF StopServer
  <2> QED BY <1>2, <2>1, <2>2, <2>3
<1>3. CASE Merge
  BY <1>3 DEF Merge
<1>4. CASE Truncate \/ Sort
  <2>1. UNCHANGED <<b, log, tmp, serving, lingering, outlived>>
    BY <1>4 DEF Truncate, Sort
  <2>2. \A c \in Builds : OfBuild(out'[c], c)
    BY <1>4, <2>1 DEF Truncate, Sort
  <2> QED BY <1>4, <2>1, <2>2 DEF Truncate, Sort
<1>5. CASE RemoveLog
  <2>1. log'.lines = {} /\ UNCHANGED <<out, serving, lingering, outlived>>
    BY <1>5 DEF RemoveLog
  <2>2. at' \in {"startup", "done"}
    BY <1>5 DEF RemoveLog
  <2>3. Alive = {}
    BY <1>5, <2>1 DEF RemoveLog
  <2> QED BY <2>1, <2>2, <2>3
<1>6. ASSUME NEW c \in Builds, NEW e \in Entries, ServerLogs(c, e)
      PROVE  AttributedInv'
  <2>1. ~outlived /\ c \in Alive /\ Alive' = Alive
        /\ UNCHANGED <<at, b, out, tmp, outlived>>
    BY <1>6 DEF ServerLogs
  <2>2. ASSUME at \notin {"begin", "dead", "done"} PROVE OfBuild(log'.lines, b)
    <3>1. c = b /\ OfBuild(log.lines, b)
      BY <2>1, <2>2 DEF Places
    <3>2. log'.lines = log.lines \cup {<<c, e>>}
      BY <1>6 DEF ServerLogs
    <3> QED BY <2>1, <3>1, <3>2
  <2> QED BY <2>1, <2>2
<1>7. CASE ServerEnds
  BY <1>7 DEF ServerEnds
<1>8. CASE Interrupt
  <2>1. at' = "dead" /\ UNCHANGED outlived
    BY <1>8 DEF Interrupt
  <2>2. ASSUME NEW c \in Builds PROVE OfBuild(out'[c], c)
    <3>1. CASE at = "sort"
      BY <1>8, <2>1, <3>1 DEF Interrupt
    <3>2. CASE at # "sort"
      BY <1>8, <2>1, <3>2 DEF Interrupt
    <3> QED BY <3>1, <3>2
  <2> QED BY <2>1, <2>2
<1>9. CASE Restart \/ Done \/ UNCHANGED vars
  BY <1>9 DEF Restart, Done, vars
<1> QED BY <1>1, <1>2, <1>3, <1>4, <1>5, <1>6, <1>7, <1>8, <1>9 DEF Next, ScriptStep

(* For any number of builds, iterations and interrupts, at any place: a    *)
(* result holds only lines of its build (README.md:5-11), as long as no    *)
(* server outlives its iteration.                                          *)
THEOREM ResultsAttributed == Spec => []Attributed
<1>1. Init => AttributedInv
  BY DEF Init, AttributedInv, AliveIsCurrent, LogIsCurrent, OfBuild
<1>2. AttributedInv => Attributed
  BY DEF AttributedInv, Attributed, OfBuild
<1> QED BY TypeInit, TypeNext, <1>1, <1>2, AttributedNext, PTL DEF Spec

---------------------------------------------------------------------------
(* MergedKept becomes inductive with what the sort is about to write: it   *)
(* has the result so far and what the iteration has logged.                *)
LoggedIsThere ==
    /\ at \in {"serve", "load", "merge"} => logged \subseteq log.lines
    /\ at \in {"truncate", "sort"} => logged \subseteq tmp

ResultIsThere == at \in {"truncate", "sort"} /\ b \notin torn => kept[b] \subseteq tmp

KeptInv == MergedKept /\ LoggedIsThere /\ ResultIsThere

LEMMA KeptNext == TypeOK /\ KeptInv /\ [Next]_vars => KeptInv'
<1> SUFFICES ASSUME TypeOK, KeptInv, [Next]_vars PROVE KeptInv'
  OBVIOUS
<1> USE DEF TypeOK, KeptInv, MergedKept, LoggedIsThere, ResultIsThere, NoLog,
            script, files, servers, history
<1>1. CASE RemoveOldLog \/ KillOld
  BY <1>1 DEF RemoveOldLog, KillOld
<1>2. CASE Startup \/ StartServer \/ StopServer
  BY <1>2 DEF Startup, StartServer, StopServer
<1>3. CASE Merge
  BY <1>3 DEF Merge
<1>4. CASE Truncate
  BY <1>4 DEF Truncate
<1>5. CASE Sort
  BY <1>5 DEF Sort
<1>6. CASE RemoveLog
  BY <1>6 DEF RemoveLog
<1>7. ASSUME NEW c \in Builds, NEW e \in Entries, ServerLogs(c, e)
      PROVE  KeptInv'
  BY <1>7 DEF ServerLogs
<1>8. CASE ServerEnds
  BY <1>8 DEF ServerEnds
<1>9. CASE Interrupt
  BY <1>9 DEF Interrupt
<1>10. CASE Restart \/ Done \/ UNCHANGED vars
  BY <1>10 DEF Restart, Done, vars
<1> QED BY <1>1, <1>2, <1>3, <1>4, <1>5, <1>6, <1>7, <1>8, <1>9, <1>10 DEF Next, ScriptStep

(* For any number of builds, iterations and interrupts, at any place: what *)
(* was merged stays merged, but for the result whose sort was hit          *)
(* (syscalls.sh:44-50).                                                    *)
THEOREM MergesKept == Spec => []MergedKept
<1>1. Init => KeptInv
  BY DEF Init, KeptInv, MergedKept, LoggedIsThere, ResultIsThere
<1>2. KeptInv => MergedKept
  BY DEF KeptInv
<1> QED BY TypeInit, TypeNext, <1>1, <1>2, KeptNext, PTL DEF Spec
===========================================================================
