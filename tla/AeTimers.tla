------------------------------ MODULE AeTimers ----------------------------
(***************************************************************************)
(* The timers of an event loop (wrk/src/ae.c:180-334 and 360-398) under    *)
(* any program of callbacks: handlers of files and timers create and       *)
(* delete timers, also while processTimeEvents walks the list they are in, *)
(* and the wall clock that ae.c reads may be set forward or back.          *)
(*                                                                         *)
(* The list is kept as in memory: nodes with a next pointer, that are      *)
(* allocated and freed.  Finalizers are left out: wrk passes NULL.         *)
(***************************************************************************)
EXTENDS Integers, SequencesExt

CONSTANTS
    Nodes,      \* addresses of timers
    NULL,
    Sec,        \* scaled: milliseconds in a second
    Delays,     \* milliseconds that callbacks ask for
    Epoch,      \* what the wall clock shows at first, in milliseconds
    Jumps,      \* by how much it may be set, in milliseconds
    MaxJumps,   \* bound: how often it is set
    MaxTime,    \* bound: how long a behaviour takes
    MaxId       \* bound: how many timers are created

ASSUME AeTimersAssumption ==
    /\ NULL \notin Nodes
    /\ Sec \in Nat \ {0} /\ Delays \subseteq Nat /\ Jumps \subseteq Int
    /\ {Epoch, MaxJumps, MaxTime, MaxId} \subseteq Nat
    /\ Epoch >= Sec

AE_DELETED_EVENT_ID == -1
AE_NOMORE == -1
Forever   == -1     \* a poll without a timeout

VARIABLES
    real,               \* milliseconds that have passed
    offset,             \* the wall clock is at Epoch + real + offset
    jumps,              \* how often it was set
    mem,                \* the aeTimeEvent structs that are allocated
    timeEventHead, timeEventNextId, lastTime,   \* of aeEventLoop
    pc,                 \* "setup", then "loop", "poll", "files", "walk" or "call"
    wake,               \* when the poll ends at the latest
    te, prev, maxId, id,  \* locals of processTimeEvents
    asked,              \* history: when each timer that is asked for is due
    over,               \* history: timers that are deleted or returned AE_NOMORE
    must                \* history: timers this pass has to call still

loopVars == <<timeEventHead, timeEventNextId, lastTime>>
walkVars == <<te, prev, maxId, id>>
history  == <<asked, over, must>>
clock    == <<real, offset, jumps>>
vars == <<clock, mem, loopVars, pc, wake, walkVars, history>>

---------------------------------------------------------------------------
Now == Epoch + real + offset

(* gettimeofday(2) and time(2): whole seconds, and the milliseconds left.  *)
NowSec == Now \div Sec
NowMs  == Now % Sec

aeAddMillisecondsToNow(ms) ==
    LET when_sec == NowSec + (ms \div Sec)
        when_ms  == NowMs + (ms % Sec)
    IN  IF when_ms >= Sec THEN [sec |-> when_sec + 1, ms |-> when_ms - Sec]
        ELSE [sec |-> when_sec, ms |-> when_ms]

Before(s, t) == s.sec < t.sec \/ (s.sec = t.sec /\ s.ms < t.ms)

(* A bug to catch: only the seconds are compared.                          *)
DueInSeconds(n) == mem[n].when.sec <= NowSec

Due(n) == ~Before([sec |-> NowSec, ms |-> NowMs], mem[n].when)

Timer == [id   : {AE_DELETED_EVENT_ID} \cup 0 .. timeEventNextId - 1,
          when : [sec : Nat, ms : 0 .. Sec - 1],
          next : Nodes \cup {NULL}]

TypeOK ==
    /\ real \in 0 .. MaxTime /\ offset \in Int /\ Epoch + offset >= Sec /\ jumps \in 0 .. MaxJumps
    /\ DOMAIN mem \subseteq Nodes /\ mem \in [DOMAIN mem -> Timer]
    /\ timeEventHead \in Nodes \cup {NULL}
    /\ timeEventNextId \in 0 .. MaxId /\ lastTime \in Nat
    /\ pc \in {"setup", "loop", "poll", "files", "walk", "call"}
    /\ wake \in Nat \cup {Forever}
    /\ te \in Nodes \cup {NULL} /\ prev \in Nodes \cup {NULL}
    /\ maxId \in -1 .. MaxId - 1 /\ id \in -1 .. MaxId - 1
    /\ asked \in [0 .. timeEventNextId - 1 -> Nat]
    /\ over \subseteq DOMAIN asked /\ must \subseteq DOMAIN asked

(* aeCreateEventLoop, before its owner registers the first timers.         *)
Init ==
    /\ real = 0 /\ offset = 0 /\ jumps = 0
    /\ mem = <<>> /\ timeEventHead = NULL /\ timeEventNextId = 0
    /\ lastTime = NowSec
    /\ pc = "setup" /\ wake = Forever
    /\ te = NULL /\ prev = NULL /\ maxId = -1 /\ id = -1
    /\ asked = <<>> /\ over = {} /\ must = {}

---------------------------------------------------------------------------
(* What callbacks do.                                                      *)

InCallback == pc \in {"setup", "files", "call"}

(* aeCreateTimeEvent.                                                      *)
Create(ms) ==
    /\ InCallback /\ timeEventNextId < MaxId
    /\ \E n \in Nodes \ DOMAIN mem :
         /\ mem' = [m \in DOMAIN mem \cup {n} |->
                      IF m = n THEN [id |-> timeEventNextId, next |-> timeEventHead,
                                     when |-> aeAddMillisecondsToNow(ms)]
                      ELSE mem[m]]
         /\ timeEventHead' = n
    /\ timeEventNextId' = timeEventNextId + 1
    /\ asked' = [i \in 0 .. timeEventNextId |->
                   IF i = timeEventNextId THEN real + ms ELSE asked[i]]
    /\ UNCHANGED <<clock, lastTime, pc, wake, walkVars, over, must>>

Marked(m, n) == [m EXCEPT ![n].id = AE_DELETED_EVENT_ID]

(* aeDeleteTimeEvent with the id of a timer that is in the list.           *)
Delete(i) ==
    /\ InCallback
    /\ \E n \in DOMAIN mem : mem[n].id = i /\ mem' = Marked(mem, n)
    /\ over' = over \cup {i} /\ must' = must \ {i}
    /\ asked' = [asked EXCEPT ![i] = 0]
    /\ UNCHANGED <<clock, loopVars, pc, wake, walkVars>>

---------------------------------------------------------------------------
(* The loop.                                                               *)

aeSearchNearestTimer ==
    IF mem = <<>> THEN NULL
    ELSE CHOOSE n \in DOMAIN mem : \A m \in DOMAIN mem : ~Before(mem[m].when, mem[n].when)

(* aeProcessEvents up to aeApiPoll: the timeout.                           *)
Poll ==
    LET shortest == aeSearchNearestTimer
        ms == (mem[shortest].when.sec - NowSec) * Sec + mem[shortest].when.ms - NowMs
    IN  /\ pc \in {"setup", "loop"}
        /\ wake' = IF shortest = NULL THEN Forever ELSE real + (IF ms > 0 THEN ms ELSE 0)
        /\ pc' = "poll"
        /\ UNCHANGED <<clock, mem, loopVars, walkVars, history>>

(* aeApiPoll returns, for a file or at the timeout.                        *)
WakeUp ==
    /\ pc = "poll"
    /\ pc' = "files" /\ wake' = Forever
    /\ UNCHANGED <<clock, mem, loopVars, walkVars, history>>

Alive(n) == mem[n].id # AE_DELETED_EVENT_ID

(* A bug to catch: a clock that was set back is not noticed.               *)
UnforcedTimers(skewed) == mem

ForcedTimers(skewed) ==
    [n \in DOMAIN mem |-> IF skewed THEN [mem[n] EXCEPT !.when.sec = 0] ELSE mem[n]]

(* The files are done: processTimeEvents begins.                           *)
Walk ==
    LET skewed == NowSec < lastTime
    IN  /\ pc = "files"
        /\ mem' = ForcedTimers(skewed) /\ lastTime' = NowSec
        /\ te' = timeEventHead /\ prev' = NULL /\ maxId' = timeEventNextId - 1
        /\ must' = {mem[n].id : n \in {m \in DOMAIN mem : Alive(m) /\ (skewed \/ Due(m))}}
        /\ pc' = "walk"
        /\ UNCHANGED <<clock, timeEventHead, timeEventNextId, wake, id, asked, over>>

Walking == pc = "walk" /\ te # NULL

(* A bug to catch: the timer before is not relinked.                       *)
UnlinkAtHead ==
    /\ Walking /\ ~Alive(te)
    /\ timeEventHead' = mem[te].next
    /\ mem' = [n \in DOMAIN mem \ {te} |-> mem[n]]
    /\ te' = mem[te].next
    /\ UNCHANGED <<clock, timeEventNextId, lastTime, pc, wake, prev, maxId, id, history>>

Unlink ==
    /\ Walking /\ ~Alive(te)
    /\ timeEventHead' = IF prev = NULL THEN mem[te].next ELSE timeEventHead
    /\ mem' = [n \in DOMAIN mem \ {te} |->
                 IF n = prev THEN [mem[n] EXCEPT !.next = mem[te].next] ELSE mem[n]]
    /\ te' = mem[te].next
    /\ UNCHANGED <<clock, timeEventNextId, lastTime, pc, wake, prev, maxId, id, history>>

Skip ==
    /\ Walking /\ Alive(te)
    /\ mem[te].id > maxId \/ ~Due(te)
    /\ te' = mem[te].next
    /\ prev' = IF mem[te].id > maxId THEN prev ELSE te
    /\ UNCHANGED <<clock, mem, loopVars, pc, wake, maxId, id, history>>

(* A timer's proc is called, and returns.                                  *)
Call ==
    /\ Walking /\ Alive(te) /\ mem[te].id <= maxId /\ Due(te)
    /\ id' = mem[te].id /\ must' = must \ {mem[te].id}
    /\ pc' = "call"
    /\ UNCHANGED <<clock, mem, loopVars, wake, te, prev, maxId, asked, over>>

Returned(retval) ==
    IF retval # AE_NOMORE
    THEN [mem EXCEPT ![te].when = aeAddMillisecondsToNow(retval)] ELSE Marked(mem, te)

Return(retval) ==
    /\ pc = "call"
    /\ mem' = Returned(retval)
    /\ asked' = [asked EXCEPT ![id] = IF retval # AE_NOMORE THEN real + retval ELSE 0]
    /\ over' = IF retval # AE_NOMORE THEN over ELSE over \cup {id}
    /\ prev' = te /\ te' = mem[te].next
    /\ pc' = "walk" /\ id' = -1
    /\ UNCHANGED <<clock, loopVars, wake, maxId, must>>

WalkEnds ==
    /\ pc = "walk" /\ te = NULL
    /\ pc' = "loop" /\ prev' = NULL /\ maxId' = -1
    /\ UNCHANGED <<clock, mem, loopVars, wake, te, id, history>>

---------------------------------------------------------------------------
(* Time, which a poll does not outlast, and the hand that sets the clock.  *)

Tick ==
    /\ real < MaxTime
    /\ pc = "poll" /\ wake # Forever => real < wake
    /\ real' = real + 1
    /\ UNCHANGED <<offset, jumps, mem, loopVars, pc, wake, walkVars, history>>

(* A clock set back in the midst of a pass may save timers from it, but    *)
(* for those whose seconds are 0.                                          *)
SetClock(j) ==
    /\ jumps < MaxJumps
    /\ Epoch + offset + j >= Sec    \* a wall clock is not set to 1970
    /\ offset' = offset + j /\ jumps' = jumps + 1
    /\ must' = IF j > 0 THEN must
               ELSE {mem[n].id : n \in {m \in DOMAIN mem : mem[m].when.sec = 0}} \cap must
    /\ UNCHANGED <<real, mem, loopVars, pc, wake, walkVars, asked, over>>

Next ==
    \/ \E ms \in Delays : Create(ms)
    \/ \E i \in 0 .. timeEventNextId - 1 : Delete(i)
    \/ Poll \/ WakeUp \/ Walk \/ Unlink \/ Skip \/ Call \/ WalkEnds
    \/ \E retval \in Delays \cup {AE_NOMORE} : Return(retval)
    \/ Tick \/ \E j \in Jumps : SetClock(j)

Spec == Init /\ [][Next]_vars

---------------------------------------------------------------------------
(* A timer is only called while it is asked for, never after it was deleted*)
(* or has returned AE_NOMORE, though it stays in the list; and never before*)
(* its time, as long as the clock is not set: seconds and milliseconds are *)
(* added and compared apart.                                               *)
OnlyWhenAsked ==
    [][Call => id' \notin over /\ (jumps = 0 => real >= asked[id'])]_vars

(* A timer is not missed.  A poll does not outlast any that is asked for;  *)
(* and a pass calls each that was due when it began, or all, if the clock  *)
(* was set back since the last pass (the comment at ae.c:268-275), except  *)
(* those deleted meanwhile.                                                *)
PollsInTime ==
    pc = "poll" /\ jumps = 0 =>
      \A i \in DOMAIN asked \ over : wake # Forever /\ (wake <= asked[i] \/ wake = real)

InTime == PollsInTime /\ (pc \in {"loop", "poll", "files"} => must = {})

(* The list is sound whatever callbacks add to it and delete from it while *)
(* it is walked: it holds all that is allocated, once, and every timer that*)
(* is asked for, and the walk's two pointers are neighbours in it; and the *)
(* loop's fields and the nodes keep their types (ae.c:203-233, 262-334).   *)
IsList(s) ==
    /\ timeEventHead = IF s = <<>> THEN NULL ELSE s[1]
    /\ \A i \in DOMAIN s : mem[s[i]].next = IF i = Len(s) THEN NULL ELSE s[i + 1]

ListSound ==
    /\ TypeOK
    /\ \E s \in SetToSeqs(DOMAIN mem) : IsList(s)
    /\ {mem[n].id : n \in {m \in DOMAIN mem : Alive(m)}} = DOMAIN asked \ over
    /\ pc = "walk" => te = IF prev = NULL THEN timeEventHead ELSE mem[prev].next
===========================================================================
