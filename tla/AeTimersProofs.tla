--------------------------- MODULE AeTimersProofs ---------------------------
(***************************************************************************)
(* What holds of the timers for every number of them, every program of     *)
(* callbacks and every clock: the types, that the list stays sound while   *)
(* callbacks change it under the walk, that a timer is called only while   *)
(* it is asked for and not before its time, and that none is missed.       *)
(***************************************************************************)
EXTENDS AeTimers, FunctionTheorems, FiniteSetTheorems, SequenceTheorems,
        WellFoundedInduction, TLAPS

InWalk == pc \in {"walk", "call"}

(* The list, laid out: the nodes s[1], ..., s[n], which are all that is    *)
(* allocated.                                                              *)
Linked(s, n) ==
    /\ \A i \in 1 .. n : s[i] \in DOMAIN mem
    /\ \A m \in DOMAIN mem : \E i \in 1 .. n : s[i] = m
    /\ \A i, j \in 1 .. n : s[i] = s[j] => i = j
    /\ timeEventHead = IF n = 0 THEN NULL ELSE s[1]
    /\ \A i \in 1 .. n : mem[s[i]].next = IF i = n THEN NULL ELSE s[i + 1]

(* The walk is at s[k].  What it has to call is there or ahead, and due;   *)
(* what was created since it began is behind it.                           *)
WalkAt(s, n, k) ==
    /\ te = IF k = n + 1 THEN NULL ELSE s[k]
    /\ pc = "walk" => prev = IF k = 1 THEN NULL ELSE s[k - 1]
    /\ pc = "call" => k # n + 1
    /\ \A j \in k .. n : mem[s[j]].id <= maxId
    /\ \A i \in must : \E j \in k .. n : mem[s[j]].id = i /\ Due(s[j])

ListInv ==
    /\ \E n \in Nat : \E s \in [1 .. n -> Nodes] :
         /\ Linked(s, n)
         /\ InWalk => \E k \in 1 .. n + 1 : WalkAt(s, n, k)
    /\ ~InWalk => must = {}

(* An id is of one timer, which is in memory as long as it is asked for.   *)
IdsInv ==
    /\ \A m \in DOMAIN mem : Alive(m) => mem[m].id \notin over
    /\ \A i \in DOMAIN asked \ over : \E m \in DOMAIN mem : mem[m].id = i
    /\ \A m, l \in DOMAIN mem : Alive(m) /\ mem[m].id = mem[l].id => m = l
    /\ pc = "call" => /\ id \in DOMAIN asked /\ id \notin must
                      /\ mem[te].id = id \/ (mem[te].id = AE_DELETED_EVENT_ID /\ id \in over)

(* A clock that was never set only goes forward, and timers keep the time  *)
(* that was asked for.                                                     *)
TimeOf(when) == when.sec * Sec + when.ms

ClockInv == jumps = 0 =>
    /\ offset = 0 /\ lastTime <= NowSec
    /\ \A m \in DOMAIN mem : Alive(m) => TimeOf(mem[m].when) = Epoch + asked[mem[m].id]

IInv == TypeOK /\ ListInv /\ IdsInv /\ ClockInv /\ PollsInTime

---------------------------------------------------------------------------
(* Seconds and milliseconds.                                               *)

When == [sec : Nat, ms : 0 .. Sec - 1]

LEMMA Product ==
    ASSUME NEW a \in Int, NEW b \in Int, NEW d \in Nat \ {0}
    PROVE  /\ a < b => a * d + d <= b * d
           /\ (a + b) * d = a * d + b * d
           /\ (a + 1) * d = a * d + d
           /\ a < 0 => d * a + d <= 0
           /\ a * d = d * a
OBVIOUS

LEMMA DivMod ==
    ASSUME NEW a \in Nat, NEW d \in Nat \ {0}
    PROVE  a \div d \in Nat /\ a % d \in 0 .. d - 1 /\ a = ((a \div d) * d) + (a % d)
<1>1. a \div d \in Int /\ a % d \in 0 .. d - 1
  OBVIOUS
<1>2. a = (d * (a \div d)) + (a % d)
  <2>1. d \in Int /\ d > 0
    OBVIOUS
  <2> QED BY <2>1, Z3
<1>3. ASSUME NEW q \in Int, NEW r \in 0 .. d - 1, a = (d * q) + r
      PROVE  q \in Nat /\ d * q = q * d
  <2>1. ~(q < 0)
    BY <1>3, Product
  <2> QED BY <2>1
<1> QED BY <1>1, <1>2, <1>3

(* The order of two times is that of what they show.                       *)
LEMMA Times ==
    ASSUME NEW v \in When, NEW w \in When
    PROVE  /\ TimeOf(v) \in Nat /\ TimeOf(w) \in Nat
           /\ Before(v, w) <=> TimeOf(v) < TimeOf(w)
<1> DEFINE a == v.sec  b == w.sec  m == v.ms  l == w.ms
<1>1. a \in Nat /\ b \in Nat /\ m \in 0 .. Sec - 1 /\ l \in 0 .. Sec - 1 /\ Sec \in Nat \ {0}
  BY AeTimersAssumption DEF When
<1>2. TimeOf(v) = a * Sec + m /\ TimeOf(w) = b * Sec + l
  BY DEF TimeOf
<1>3. Before(v, w) <=> a < b \/ (a = b /\ m < l)
  BY DEF Before
<1> HIDE DEF a, b, m, l
<1>4. a * Sec \in Nat /\ b * Sec \in Nat
  BY <1>1
<1>5. (a < b => a * Sec + Sec <= b * Sec) /\ (b < a => b * Sec + Sec <= a * Sec)
  BY <1>1, Product
<1>6. CASE a < b
  BY <1>1, <1>2, <1>3, <1>4, <1>5, <1>6
<1>7. CASE b < a
  BY <1>1, <1>2, <1>3, <1>4, <1>5, <1>7
<1>8. CASE a = b
  BY <1>1, <1>2, <1>3, <1>4, <1>8
<1> QED BY <1>1, <1>6, <1>7, <1>8

LEMMA NowShown ==
    ASSUME TypeOK
    PROVE  /\ Now \in Nat /\ NowSec \in Nat \ {0} /\ NowMs \in 0 .. Sec - 1
           /\ Now = NowSec * Sec + NowMs
<1>1. Now \in Nat /\ Now >= Sec /\ Sec \in Nat \ {0}
  BY AeTimersAssumption DEF TypeOK, Now
<1>2. NowSec \in Nat /\ NowMs \in 0 .. Sec - 1 /\ Now = NowSec * Sec + NowMs
  <2> DEFINE now == Now
  <2>1. now \in Nat
    BY <1>1
  <2> HIDE DEF now
  <2>2. now \div Sec \in Nat /\ now % Sec \in 0 .. Sec - 1
        /\ now = ((now \div Sec) * Sec) + (now % Sec)
    BY <1>1, <2>1, DivMod
  <2> QED BY <2>2 DEF NowSec, NowMs, now
<1>3. ASSUME NowSec = 0
      PROVE  FALSE
  <2>1. NowSec * Sec = 0
    BY <1>1, <1>3
  <2> QED BY <1>1, <1>2, <2>1
<1>4. NowSec \in Nat \ {0}
  <2>1. NowSec \in Nat
    BY <1>2
  <2> QED BY <2>1, <1>3
<1> QED BY <1>1, <1>2, <1>4, Zenon

(* A timer is due from the time on that it shows.                          *)
LEMMA ShownTime ==
    ASSUME NEW now \in Nat, NEW w \in When
    PROVE  ~Before([sec |-> now \div Sec, ms |-> now % Sec], w) <=> TimeOf(w) <= now
<1> DEFINE v == [sec |-> now \div Sec, ms |-> now % Sec]
<1>1. /\ now \div Sec \in Nat /\ now % Sec \in 0 .. Sec - 1
      /\ now = ((now \div Sec) * Sec) + (now % Sec)
  BY AeTimersAssumption, DivMod
<1>2. v \in When /\ TimeOf(v) = now
  BY <1>1 DEF When, TimeOf
<1> HIDE DEF v
<1>3. (Before(v, w) <=> TimeOf(v) < TimeOf(w)) /\ TimeOf(w) \in Nat
  BY <1>2, Times
<1>4. ~Before(v, w) <=> TimeOf(w) <= now
  BY <1>2, <1>3
<1> QED BY <1>4 DEF v

LEMMA DueFromItsTime ==
    ASSUME TypeOK, NEW m \in DOMAIN mem
    PROVE  Due(m) <=> TimeOf(mem[m].when) <= Now
<1>1. mem[m].when \in When
  BY DEF TypeOK, Timer, When
<1> QED BY <1>1, NowShown, ShownTime DEF Due, NowSec, NowMs

(* It stays due as time passes.                                            *)
LEMMA DueLater ==
    ASSUME TypeOK, NEW m \in DOMAIN mem, Due(m), mem'[m] = mem[m], Now' \in Nat, Now' >= Now
    PROVE  Due(m)'
<1>1. mem[m].when \in When /\ TimeOf(mem[m].when) <= Now
  BY DueFromItsTime DEF TypeOK, Timer, When
<1>2. TimeOf(mem[m].when) <= Now'
  BY <1>1, NowShown, Times
<1> DEFINE w == mem[m].when  now == Now'
<1>3. ~Before([sec |-> now \div Sec, ms |-> now % Sec], w)
  <2>1. w \in When /\ now \in Nat /\ TimeOf(w) <= now
    BY <1>1, <1>2
  <2> HIDE DEF w, now
  <2> QED BY <2>1, ShownTime
<1> QED BY <1>3, Zenon DEF Due, NowSec, NowMs

(* A timer whose seconds are forced to 0 is due whatever the clock shows.  *)
LEMMA DueWhenForced ==
    ASSUME NEW m, mem'[m].when \in When, mem'[m].when.sec = 0, Now' \in Nat, Now' >= Sec
    PROVE  Due(m)'
<1> DEFINE w == mem'[m].when  now == Now'
<1>1. TimeOf(w) <= now
  BY AeTimersAssumption DEF TimeOf, When
<1>2. ~Before([sec |-> now \div Sec, ms |-> now % Sec], w)
  <2>1. w \in When /\ now \in Nat
    OBVIOUS
  <2> HIDE DEF w, now
  <2> QED BY <1>1, <2>1, ShownTime
<1> QED BY <1>2, Zenon DEF Due, NowSec, NowMs

LEMMA aeAddMilliseconds ==
    ASSUME TypeOK, NEW ms \in Nat
    PROVE  /\ aeAddMillisecondsToNow(ms) \in When
           /\ TimeOf(aeAddMillisecondsToNow(ms)) = Now + ms
<1> DEFINE q == ms \div Sec  r == ms % Sec
<1>1. /\ Sec \in Nat \ {0} /\ q \in Nat /\ r \in 0 .. Sec - 1 /\ ms = (q * Sec) + r
      /\ NowSec \in Nat /\ NowMs \in 0 .. Sec - 1 /\ Now = NowSec * Sec + NowMs
  BY AeTimersAssumption, DivMod, NowShown
<1>2. aeAddMillisecondsToNow(ms) =
        IF NowMs + r >= Sec THEN [sec |-> NowSec + q + 1, ms |-> NowMs + r - Sec]
        ELSE [sec |-> NowSec + q, ms |-> NowMs + r]
  BY <1>1 DEF aeAddMillisecondsToNow
<1> HIDE DEF q, r
<1>3. /\ (NowSec + q) * Sec = NowSec * Sec + q * Sec
      /\ (NowSec + q + 1) * Sec = NowSec * Sec + q * Sec + Sec
      /\ NowSec * Sec \in Nat /\ q * Sec \in Nat
  BY <1>1, Product
<1>4. CASE NowMs + r >= Sec
  <2>1. aeAddMillisecondsToNow(ms) = [sec |-> NowSec + q + 1, ms |-> NowMs + r - Sec]
    BY <1>2, <1>4
  <2>2. NowSec + q + 1 \in Nat /\ NowMs + r - Sec \in 0 .. Sec - 1
    BY <1>1, <1>4
  <2>3. TimeOf(aeAddMillisecondsToNow(ms)) = (NowSec + q + 1) * Sec + (NowMs + r - Sec)
    BY <2>1 DEF TimeOf
  <2> QED BY <1>1, <1>3, <2>1, <2>2, <2>3 DEF When
<1>5. CASE NowMs + r < Sec
  <2>1. aeAddMillisecondsToNow(ms) = [sec |-> NowSec + q, ms |-> NowMs + r]
    BY <1>1, <1>2, <1>5
  <2>2. NowSec + q \in Nat /\ NowMs + r \in 0 .. Sec - 1
    BY <1>1, <1>5
  <2>3. TimeOf(aeAddMillisecondsToNow(ms)) = (NowSec + q) * Sec + (NowMs + r)
    BY <2>1 DEF TimeOf
  <2> QED BY <1>1, <1>3, <2>1, <2>2, <2>3 DEF When
<1> QED BY <1>1, <1>4, <1>5

LEMMA EmptyFunction ==
    ASSUME NEW S
    PROVE  <<>> \in [{} -> S] /\ DOMAIN <<>> = {}
<1>1. <<>> \in Seq(S) /\ Len(<<>>) = 0
  BY EmptySeq
<1>2. <<>> \in [1 .. 0 -> S] /\ 1 .. 0 = {}
  BY <1>1
<1> QED BY <1>2

(* The timer a poll waits for is in memory, and none shows less.           *)
LEMMA NearestTimer ==
    ASSUME TypeOK, mem # <<>>
    PROVE  /\ aeSearchNearestTimer \in DOMAIN mem
           /\ \A m \in DOMAIN mem :
                TimeOf(mem[aeSearchNearestTimer].when) <= TimeOf(mem[m].when)
<1> DEFINE T == {TimeOf(mem[m].when) : m \in DOMAIN mem}
           Below == OpToRel(<, Nat)
<1>1. \A m \in DOMAIN mem : mem[m].when \in When
  BY DEF TypeOK, Timer, When
<1>2. T \subseteq Nat
  BY <1>1, Times
<1>3. T # {}
  <2>1. <<>> \in [{} -> Timer]
    BY EmptyFunction
  <2>2. \A f, g \in [{} -> Timer] : f = g
    OBVIOUS
  <2>3. DOMAIN mem # {}
    BY <2>1, <2>2 DEF TypeOK
  <2> QED BY <2>3
<1>4. IsWellFoundedOn(Below, Nat)
  BY NatLessThanWellFounded
<1>5. \A k, i \in Nat : k < i => <<k, i>> \in Below
  BY DEF OpToRel
<1> HIDE DEF Below, T
<1>6. PICK x \in T : \A y \in T : ~(<<y, x>> \in Below)
  BY <1>2, <1>3, <1>4, WFMin
<1>7. \A y \in T : ~(y < x)
  BY <1>2, <1>5, <1>6
<1>8. PICK m \in DOMAIN mem : x = TimeOf(mem[m].when)
  BY DEF T
<1>9. \A l \in DOMAIN mem : ~(TimeOf(mem[l].when) < TimeOf(mem[m].when))
  BY <1>7, <1>8 DEF T
<1>10. \A l \in DOMAIN mem : ~Before(mem[l].when, mem[m].when)
  BY <1>1, <1>9, Times
<1> DEFINE n == aeSearchNearestTimer
<1>11. n \in DOMAIN mem /\ \A l \in DOMAIN mem : ~Before(mem[l].when, mem[n].when)
  BY <1>10 DEF aeSearchNearestTimer
<1> HIDE DEF n
<1>12. ASSUME NEW l \in DOMAIN mem
       PROVE  TimeOf(mem[n].when) <= TimeOf(mem[l].when)
  <2>1. ~(TimeOf(mem[l].when) < TimeOf(mem[n].when))
    BY <1>1, <1>11, Times
  <2>2. TimeOf(mem[l].when) \in Nat /\ TimeOf(mem[n].when) \in Nat
    BY <1>1, <1>11, Times
  <2> QED BY <2>1, <2>2
<1> QED BY <1>11, <1>12 DEF n

---------------------------------------------------------------------------
(* The steps of callbacks.                                                 *)

(* A new timer is put before the list.                                     *)
LEMMA PutFirst ==
    ASSUME TypeOK, NEW n \in Nat, NEW s \in [1 .. n -> Nodes], Linked(s, n),
           NEW m \in Nodes \ DOMAIN mem,
           DOMAIN mem' = DOMAIN mem \cup {m}, timeEventHead' = m,
           mem'[m].next = timeEventHead, \A l \in DOMAIN mem : mem'[l] = mem[l]
    PROVE  LET r == [i \in 1 .. n + 1 |-> IF i = 1 THEN m ELSE s[i - 1]]
           IN  r \in [1 .. n + 1 -> Nodes] /\ Linked(r, n + 1)'
<1> DEFINE r == [i \in 1 .. n + 1 |-> IF i = 1 THEN m ELSE s[i - 1]]
<1>1. r \in [1 .. n + 1 -> Nodes]
  OBVIOUS
<1>2. /\ r[1] = m /\ \A i \in 1 .. n : r[i + 1] = s[i]
      /\ \A i \in 1 .. n + 1 : i = 1 \/ (i - 1 \in 1 .. n /\ r[i] = s[i - 1])
  OBVIOUS
<1> HIDE DEF r
<1> USE DEF Linked
<1>3. \A i \in 1 .. n + 1 : r[i] \in DOMAIN mem'
  BY <1>2
<1>4. ASSUME NEW l \in DOMAIN mem'
      PROVE  \E i \in 1 .. n + 1 : r[i] = l
  <2>1. CASE l = m
    BY <1>2, <2>1
  <2>2. CASE l # m
    <3>1. PICK i \in 1 .. n : s[i] = l
      BY <2>2
    <3>2. i + 1 \in 1 .. n + 1 /\ r[i + 1] = l
      BY <1>2, <3>1
    <3> QED BY <3>2
  <2> QED BY <2>1, <2>2
<1>5. \A i, j \in 1 .. n + 1 : r[i] = r[j] => i = j
  BY <1>2
<1>6. timeEventHead' = r[1] /\ n + 1 # 0
  BY <1>2
<1>7. \A i \in 1 .. n + 1 : mem'[r[i]].next = IF i = n + 1 THEN NULL ELSE r[i + 1]
  <2> SUFFICES ASSUME NEW i \in 1 .. n + 1
               PROVE  mem'[r[i]].next = IF i = n + 1 THEN NULL ELSE r[i + 1]
    OBVIOUS
  <2>1. CASE i = 1
    BY <1>2, <2>1
  <2>2. CASE i # 1
    <3> DEFINE j == i - 1
    <3>1. j \in 1 .. n /\ i = j + 1 /\ r[i] = s[j] /\ (i = n + 1 <=> j = n)
      BY <1>2, <2>2
    <3> HIDE DEF j
    <3>2. mem'[s[j]].next = IF j = n THEN NULL ELSE s[j + 1]
      BY <3>1
    <3>3. j # n => j + 1 \in 1 .. n /\ r[i + 1] = s[j + 1]
      BY <1>2, <3>1
    <3> QED BY <3>1, <3>2, <3>3
  <2> QED BY <2>1, <2>2
<1> QED BY <1>1, <1>3, <1>4, <1>5, <1>6, <1>7 DEF r

(* A timer is taken out of the list.                                       *)
LEMMA TakeOut ==
    ASSUME TypeOK, NEW n \in Nat, NEW s \in [1 .. n -> Nodes], Linked(s, n), NEW k \in 1 .. n,
           DOMAIN mem' = DOMAIN mem \ {s[k]},
           timeEventHead' = IF k = 1 THEN mem[s[k]].next ELSE timeEventHead,
           \A l \in DOMAIN mem' : mem'[l].next =
              IF k # 1 /\ l = s[k - 1] THEN mem[s[k]].next ELSE mem[l].next
    PROVE  LET r == [i \in 1 .. n - 1 |-> IF i < k THEN s[i] ELSE s[i + 1]]
           IN  r \in [1 .. n - 1 -> Nodes] /\ Linked(r, n - 1)'
<1> DEFINE r == [i \in 1 .. n - 1 |-> IF i < k THEN s[i] ELSE s[i + 1]]
<1>1. r \in [1 .. n - 1 -> Nodes]
  OBVIOUS
<1>2. /\ \A i \in 1 .. n - 1 : i < k => i \in 1 .. n /\ i # k /\ r[i] = s[i]
      /\ \A i \in 1 .. n - 1 : i >= k => i + 1 \in 1 .. n /\ i + 1 # k /\ r[i] = s[i + 1]
  OBVIOUS
<1> HIDE DEF r
<1> USE DEF Linked
<1>3. ASSUME NEW i \in 1 .. n - 1
      PROVE  r[i] \in DOMAIN mem'
  <2>1. CASE i < k
    BY <1>2, <2>1
  <2>2. CASE i >= k
    BY <1>2, <2>2
  <2> QED BY <2>1, <2>2
<1>4. ASSUME NEW l \in DOMAIN mem'
      PROVE  \E i \in 1 .. n - 1 : r[i] = l
  <2>1. PICK j \in 1 .. n : s[j] = l
    OBVIOUS
  <2>2. CASE j < k
    <3>1. j \in 1 .. n - 1 /\ r[j] = l
      BY <1>2, <2>1, <2>2
    <3> QED BY <3>1
  <2>3. CASE j > k
    <3>1. j - 1 \in 1 .. n - 1 /\ j - 1 >= k /\ j - 1 + 1 = j
      BY <2>3
    <3>2. r[j - 1] = l
      BY <1>2, <2>1, <3>1
    <3> QED BY <3>1, <3>2
  <2>4. j # k
    BY <2>1
  <2> QED BY <2>2, <2>3, <2>4
<1>5. ASSUME NEW i \in 1 .. n - 1, NEW j \in 1 .. n - 1, r[i] = r[j]
      PROVE  i = j
  BY <1>2, <1>5
<1>6. timeEventHead' = IF n - 1 = 0 THEN NULL ELSE r[1]
  <2>1. CASE k = 1
    BY <1>2, <2>1
  <2>2. CASE k # 1
    BY <1>2, <2>2
  <2> QED BY <2>1, <2>2
<1>7. ASSUME NEW i \in 1 .. n - 1
      PROVE  mem'[r[i]].next = IF i = n - 1 THEN NULL ELSE r[i + 1]
  <2>1. CASE i >= k
    <3>1. i + 1 \in 1 .. n /\ r[i] = s[i + 1] /\ r[i] \in DOMAIN mem'
      BY <1>2, <1>3, <2>1
    <3>2. ~(k # 1 /\ r[i] = s[k - 1])
      BY <2>1, <3>1
    <3>3. mem'[r[i]].next = IF i + 1 = n THEN NULL ELSE s[i + 2]
      BY <3>1, <3>2
    <3>4. i # n - 1 => i + 1 \in 1 .. n - 1 /\ r[i + 1] = s[i + 2]
      BY <1>2, <2>1
    <3> QED BY <3>3, <3>4
  <2>2. CASE i = k - 1
    <3>1. i \in 1 .. n /\ r[i] = s[k - 1] /\ k # 1 /\ r[i] \in DOMAIN mem'
      BY <1>2, <1>3, <2>2
    <3>2. mem'[r[i]].next = IF k = n THEN NULL ELSE s[k + 1]
      BY <3>1
    <3>3. i # n - 1 => i + 1 \in 1 .. n - 1 /\ r[i + 1] = s[k + 1]
      BY <1>2, <2>2
    <3> QED BY <2>2, <3>2, <3>3
  <2>3. CASE i < k - 1
    <3>1. i \in 1 .. n /\ r[i] = s[i] /\ r[i] \in DOMAIN mem' /\ i # n
      BY <1>2, <1>3, <2>3
    <3>2. ~(k # 1 /\ r[i] = s[k - 1])
      BY <2>3, <3>1
    <3>3. mem'[r[i]].next = s[i + 1]
      BY <3>1, <3>2
    <3>4. i # n - 1 /\ i + 1 \in 1 .. n - 1 /\ r[i + 1] = s[i + 1]
      BY <1>2, <2>3
    <3> QED BY <3>3, <3>4
  <2> QED BY <2>1, <2>2, <2>3
<1> QED BY <1>1, <1>3, <1>4, <1>5, <1>6, <1>7 DEF r

(* The list is the same when the nodes keep their links.                   *)
LEMMA SameLinks ==
    ASSUME NEW n \in Nat, NEW s, Linked(s, n), DOMAIN mem' = DOMAIN mem,
           UNCHANGED timeEventHead, \A m \in DOMAIN mem : mem'[m].next = mem[m].next
    PROVE  Linked(s, n)'
BY DEF Linked

LEMMA CreateStep ==
    ASSUME IInv, NEW ms \in Delays, Create(ms)
    PROVE  IInv'
<1>1. TypeOK /\ IdsInv /\ ms \in Nat /\ Now \in Nat
  BY NowShown, AeTimersAssumption DEF IInv
<1>n. PICK n \in Nat : \E s \in [1 .. n -> Nodes] :
         Linked(s, n) /\ (InWalk => \E k \in 1 .. n + 1 : WalkAt(s, n, k))
  BY DEF IInv, ListInv
<1>2. PICK s \in [1 .. n -> Nodes] :
         Linked(s, n) /\ (InWalk => \E k \in 1 .. n + 1 : WalkAt(s, n, k))
  BY <1>n
<1>3. PICK m \in Nodes \ DOMAIN mem :
        /\ mem' = [l \in DOMAIN mem \cup {m} |->
                     IF l = m THEN [id |-> timeEventNextId, next |-> timeEventHead,
                                    when |-> aeAddMillisecondsToNow(ms)]
                     ELSE mem[l]]
        /\ timeEventHead' = m
  BY DEF Create
<1>4. /\ timeEventNextId' = timeEventNextId + 1 /\ timeEventNextId < MaxId
      /\ asked' = [i \in 0 .. timeEventNextId |->
                     IF i = timeEventNextId THEN real + ms ELSE asked[i]]
      /\ UNCHANGED <<clock, lastTime, pc, wake, walkVars, over, must>>
      /\ pc \in {"setup", "files", "call"}
  BY DEF Create, InCallback
<1>5. /\ DOMAIN mem' = DOMAIN mem \cup {m}
      /\ mem'[m].id = timeEventNextId /\ mem'[m].next = timeEventHead
      /\ mem'[m].when = aeAddMillisecondsToNow(ms)
      /\ \A l \in DOMAIN mem : mem'[l] = mem[l] /\ l # m
  BY <1>3
<1>6. /\ aeAddMillisecondsToNow(ms) \in When
      /\ TimeOf(aeAddMillisecondsToNow(ms)) = Now + ms
  BY <1>1, aeAddMilliseconds
<1>7. TypeOK'
  <2>1. mem' \in [DOMAIN mem' -> Timer']
    <3>1. mem'[m] \in Timer'
      BY <1>1, <1>3, <1>4, <1>6 DEF TypeOK, Timer, When
    <3>2. ASSUME NEW l \in DOMAIN mem
          PROVE  mem[l] \in Timer'
      <4>1. mem[l] \in Timer
        BY <1>1 DEF TypeOK
      <4> QED BY <1>1, <1>4, <4>1 DEF TypeOK, Timer
    <3> QED BY <1>3, <1>5, <3>1, <3>2
  <2>2. asked' \in [0 .. timeEventNextId' - 1 -> Nat]
    BY <1>1, <1>4 DEF TypeOK
  <2>3. over' \subseteq DOMAIN asked' /\ must' \subseteq DOMAIN asked'
    BY <1>1, <1>4 DEF TypeOK
  <2>4. DOMAIN mem' \subseteq Nodes /\ timeEventHead' \in Nodes \cup {NULL}
        /\ timeEventNextId' \in 0 .. MaxId
    <3>1. DOMAIN mem' \subseteq Nodes
      BY <1>1, <1>5 DEF TypeOK
    <3>2. timeEventHead' \in Nodes
      BY <1>3
    <3>3. timeEventNextId \in Nat /\ MaxId \in Nat
      BY <1>1, AeTimersAssumption DEF TypeOK
    <3>4. timeEventNextId' \in 0 .. MaxId
      BY <1>4, <3>3
    <3> QED BY <3>1, <3>2, <3>4
  <2>5. UNCHANGED <<real, offset, jumps, lastTime, pc, wake, te, prev, maxId, id>>
    BY <1>4 DEF clock, walkVars
  <2>6. TypeOK
    BY <1>1
  <2> QED BY <2>1, <2>2, <2>3, <2>4, <2>5, <2>6 DEF TypeOK
<1>8. ListInv'
  <2> DEFINE r == [i \in 1 .. n + 1 |-> IF i = 1 THEN m ELSE s[i - 1]]
  <2>1. r \in [1 .. n + 1 -> Nodes] /\ Linked(r, n + 1)'
    BY <1>1, <1>2, <1>3, <1>5, PutFirst
  <2>2. /\ r[1] = m
        /\ \A j \in 1 .. n : j + 1 \in 1 .. n + 1 /\ r[j + 1] = s[j]
    OBVIOUS
  <2> HIDE DEF r
  <2>3. ASSUME InWalk, NEW k \in 1 .. n + 1, WalkAt(s, n, k)
        PROVE  WalkAt(r, n + 1, k + 1)'
    <3>1. pc = "call" /\ pc' = "call" /\ k \in 1 .. n
      BY <1>4, <2>3 DEF InWalk, WalkAt
    <3>2. te' = IF k + 1 = n + 2 THEN NULL ELSE r[k + 1]
      BY <1>4, <2>2, <2>3, <3>1 DEF WalkAt, walkVars
    <3>3. ASSUME NEW j \in k + 1 .. n + 1
          PROVE  mem'[r[j]].id <= maxId'
      <4>1. j - 1 \in k .. n /\ r[j] = s[j - 1] /\ s[j - 1] \in DOMAIN mem
        BY <1>2, <2>2 DEF Linked
      <4> QED BY <1>4, <1>5, <2>3, <4>1 DEF WalkAt, walkVars
    <3>4. ASSUME NEW i \in must'
          PROVE  \E j \in k + 1 .. n + 1 : mem'[r[j]].id = i /\ Due(r[j])'
      <4>1. PICK j \in k .. n : mem[s[j]].id = i /\ Due(s[j])
        BY <1>4, <2>3 DEF WalkAt
      <4>2. s[j] \in DOMAIN mem /\ r[j + 1] = s[j] /\ j + 1 \in k + 1 .. n + 1
        BY <1>2, <2>2 DEF Linked
      <4>3. Due(s[j])'
        BY <1>4, <1>5, <4>1, <4>2 DEF Due, Now, NowSec, NowMs, clock
      <4> QED BY <1>5, <4>1, <4>2, <4>3
    <3> QED BY <3>1, <3>2, <3>3, <3>4 DEF WalkAt
  <2>4. InWalk' => \E k \in 1 .. n + 2 : WalkAt(r, n + 1, k)'
    <3> SUFFICES ASSUME InWalk'
                 PROVE  \E k \in 1 .. n + 2 : WalkAt(r, n + 1, k)'
      OBVIOUS
    <3>1. PICK k \in 1 .. n + 1 : WalkAt(s, n, k)
      BY <1>2, <1>4 DEF InWalk
    <3>2. k + 1 \in 1 .. n + 2 /\ WalkAt(r, n + 1, k + 1)'
      BY <1>4, <2>3, <3>1 DEF InWalk
    <3> QED BY <3>2
  <2>5. ~InWalk' => must' = {}
    BY <1>4 DEF IInv, ListInv, InWalk
  <2>6. n + 1 \in Nat /\ n + 1 + 1 = n + 2
    OBVIOUS
  <2> QED BY <2>1, <2>4, <2>5, <2>6 DEF ListInv
<1>9. IdsInv'
  <2>1. timeEventNextId \notin DOMAIN asked /\ DOMAIN asked' = DOMAIN asked \cup {timeEventNextId}
        /\ timeEventNextId # AE_DELETED_EVENT_ID
    BY <1>1, <1>4 DEF TypeOK, AE_DELETED_EVENT_ID
  <2>2. \A l \in DOMAIN mem : mem[l].id # timeEventNextId
    BY <1>1, <2>1 DEF TypeOK, Timer
  <2>3. timeEventNextId \notin over
    BY <1>1, <2>1 DEF TypeOK
  <2>4. pc = "call" => te \in DOMAIN mem
    BY <1>2 DEF InWalk, WalkAt, Linked
  <2> QED BY <1>1, <1>4, <1>5, <2>1, <2>2, <2>3, <2>4 DEF IdsInv, Alive, walkVars
<1>10. ClockInv'
  <2>1. ASSUME jumps' = 0, NEW l \in DOMAIN mem', Alive(l)'
        PROVE  TimeOf(mem'[l].when) = Epoch + asked'[mem'[l].id]
    <3>1. CASE l = m
      <4>1. Now = Epoch + real
        BY <1>1, <1>4, <2>1, AeTimersAssumption DEF IInv, ClockInv, Now, TypeOK, clock
      <4>2. asked'[timeEventNextId] = real + ms
        BY <1>1, <1>4 DEF TypeOK
      <4>3. TimeOf(mem'[l].when) = Now + ms /\ asked'[mem'[l].id] = real + ms
        BY <1>5, <1>6, <3>1, <4>2
      <4>4. Epoch \in Nat /\ real \in Nat
        BY <1>1, AeTimersAssumption DEF TypeOK
      <4>5. (Epoch + real) + ms = Epoch + (real + ms)
        BY <1>1, <4>4
      <4> QED BY <4>1, <4>3, <4>5
    <3>2. CASE l # m
      <4>1. l \in DOMAIN mem /\ mem'[l] = mem[l] /\ Alive(l)
        BY <1>5, <2>1, <3>2 DEF Alive
      <4>2. mem[l].id \in 0 .. timeEventNextId - 1
        BY <1>1, <4>1 DEF TypeOK, Timer, Alive
      <4>3. asked'[mem[l].id] = asked[mem[l].id]
        BY <1>1, <1>4, <4>2 DEF TypeOK
      <4> QED BY <1>4, <2>1, <4>1, <4>3 DEF IInv, ClockInv, clock
    <3> QED BY <3>1, <3>2
  <2>2. jumps' = 0 => offset' = 0 /\ lastTime' <= NowSec'
    BY <1>4 DEF IInv, ClockInv, clock, NowSec, Now
  <2> QED BY <2>1, <2>2 DEF ClockInv
<1>11. PollsInTime'
  BY <1>4 DEF PollsInTime
<1> QED BY <1>7, <1>8, <1>9, <1>10, <1>11 DEF IInv

LEMMA DeleteStep ==
    ASSUME IInv, NEW i \in 0 .. timeEventNextId - 1, Delete(i)
    PROVE  IInv'
<1>1. TypeOK /\ IdsInv
  BY DEF IInv
<1>n. PICK n \in Nat : \E s \in [1 .. n -> Nodes] :
         Linked(s, n) /\ (InWalk => \E k \in 1 .. n + 1 : WalkAt(s, n, k))
  BY DEF IInv, ListInv
<1>2. PICK s \in [1 .. n -> Nodes] :
         Linked(s, n) /\ (InWalk => \E k \in 1 .. n + 1 : WalkAt(s, n, k))
  BY <1>n
<1>3. PICK m \in DOMAIN mem : mem[m].id = i /\ mem' = Marked(mem, m)
  BY DEF Delete
<1>4. /\ over' = over \cup {i} /\ must' = must \ {i} /\ asked' = [asked EXCEPT ![i] = 0]
      /\ UNCHANGED <<clock, loopVars, pc, wake, walkVars>>
      /\ pc \in {"setup", "files", "call"}
  BY DEF Delete, InCallback
<1>5. i # AE_DELETED_EVENT_ID /\ i \in DOMAIN asked /\ DOMAIN asked' = DOMAIN asked
  BY <1>1, <1>4 DEF TypeOK, AE_DELETED_EVENT_ID
<1>6. /\ DOMAIN mem' = DOMAIN mem
      /\ mem'[m].id = AE_DELETED_EVENT_ID
      /\ \A l \in DOMAIN mem : /\ mem'[l].next = mem[l].next /\ mem'[l].when = mem[l].when
                               /\ l # m => mem'[l] = mem[l]
      /\ mem'[m] \in Timer
  BY <1>1, <1>3 DEF Marked, TypeOK, Timer
<1>7. TypeOK'
  <2>1. mem' \in [DOMAIN mem' -> Timer'] /\ DOMAIN mem' \subseteq Nodes
    <3>1. Timer' = Timer
      BY <1>4 DEF Timer, loopVars
    <3>2. mem' \in [DOMAIN mem -> Timer]
      BY <1>1, <1>3, <1>6 DEF Marked, TypeOK
    <3> QED BY <1>1, <1>6, <3>1, <3>2 DEF TypeOK
  <2>2. asked' \in [0 .. timeEventNextId - 1 -> Nat]
    BY <1>1, <1>4 DEF TypeOK
  <2>3. over' \subseteq DOMAIN asked' /\ must' \subseteq DOMAIN asked'
    BY <1>1, <1>4, <1>5 DEF TypeOK
  <2> QED BY <1>1, <1>4, <2>1, <2>2, <2>3 DEF TypeOK, clock, loopVars, walkVars
<1>8. ListInv'
  <2>1. Linked(s, n)'
    BY <1>2, <1>4, <1>6, SameLinks DEF loopVars
  <2>2. ASSUME NEW k \in 1 .. n + 1, WalkAt(s, n, k)
        PROVE  WalkAt(s, n, k)'
    <3>1. \A j \in k .. n : s[j] \in DOMAIN mem
      BY <1>2 DEF Linked
    <3>2. ASSUME NEW j \in k .. n
          PROVE  mem'[s[j]].id <= maxId'
      <4>1. AE_DELETED_EVENT_ID <= maxId
        BY <1>1 DEF TypeOK, AE_DELETED_EVENT_ID
      <4>2. CASE s[j] = m
        BY <1>4, <1>6, <4>1, <4>2 DEF walkVars
      <4>3. CASE s[j] # m
        BY <1>4, <1>6, <2>2, <3>1, <4>3 DEF WalkAt, walkVars
      <4> QED BY <4>2, <4>3
    <3>3. ASSUME NEW x \in must'
          PROVE  \E j \in k .. n : mem'[s[j]].id = x /\ Due(s[j])'
      <4>1. PICK j \in k .. n : mem[s[j]].id = x /\ Due(s[j])
        BY <1>4, <2>2 DEF WalkAt
      <4>2. mem'[s[j]] = mem[s[j]]
        BY <1>3, <1>4, <1>6, <3>1, <4>1
      <4>3. Due(s[j])'
        BY <1>4, <4>1, <4>2 DEF Due, Now, NowSec, NowMs, clock
      <4> QED BY <4>1, <4>2, <4>3
    <3> QED BY <1>4, <2>2, <3>2, <3>3 DEF WalkAt, walkVars
  <2>3. InWalk' => \E k \in 1 .. n + 1 : WalkAt(s, n, k)'
    BY <1>2, <1>4, <2>2 DEF InWalk
  <2>4. ~InWalk' => must' = {}
    BY <1>4 DEF IInv, ListInv, InWalk
  <2> QED BY <2>1, <2>3, <2>4 DEF ListInv
<1>9. IdsInv'
  <2>1. \A l \in DOMAIN mem' : Alive(l)' => l # m /\ Alive(l) /\ mem'[l] = mem[l] /\ mem[l].id # i
    BY <1>1, <1>3, <1>5, <1>6 DEF IdsInv, Alive
  <2>2. \A x \in DOMAIN asked' \ over' : \E l \in DOMAIN mem' : mem'[l].id = x
    BY <1>1, <1>3, <1>4, <1>5, <1>6 DEF IdsInv
  <2>3. \A l, q \in DOMAIN mem' : Alive(l)' /\ mem'[l].id = mem'[q].id => l = q
    BY <1>1, <1>6, <2>1 DEF IdsInv, Alive
  <2>4. ASSUME pc' = "call"
        PROVE  mem'[te].id = id \/ (mem'[te].id = AE_DELETED_EVENT_ID /\ id \in over')
    <3>1. te \in DOMAIN mem
      BY <1>2, <1>4, <2>4 DEF InWalk, WalkAt, Linked
    <3> QED BY <1>1, <1>3, <1>4, <1>5, <1>6, <2>4, <3>1 DEF IdsInv
  <2> QED BY <1>1, <1>4, <1>5, <1>6, <2>1, <2>2, <2>3, <2>4 DEF IdsInv, walkVars
<1>10. ClockInv'
  <2>1. ASSUME jumps' = 0, NEW l \in DOMAIN mem', Alive(l)'
        PROVE  TimeOf(mem'[l].when) = Epoch + asked'[mem'[l].id]
    <3>1. mem'[l] = mem[l] /\ Alive(l) /\ mem[l].id # i
      BY <1>1, <1>3, <1>5, <1>6, <2>1 DEF IdsInv, Alive
    <3>2. asked'[mem[l].id] = asked[mem[l].id]
      BY <1>1, <1>4, <1>6, <2>1, <3>1 DEF TypeOK, Timer, Alive
    <3> QED BY <1>4, <1>6, <2>1, <3>1, <3>2 DEF IInv, ClockInv, clock
  <2>2. jumps' = 0 => offset' = 0 /\ lastTime' <= NowSec'
    BY <1>4 DEF IInv, ClockInv, clock, loopVars, NowSec, Now
  <2> QED BY <2>1, <2>2 DEF ClockInv
<1>11. PollsInTime'
  BY <1>4 DEF PollsInTime
<1> QED BY <1>7, <1>8, <1>9, <1>10, <1>11 DEF IInv

---------------------------------------------------------------------------
(* The steps of the loop.                                                  *)

(* A step that leaves the timers, the clock and the history alone.         *)
LEMMA Outside ==
    ASSUME IInv, ~InWalk, ~InWalk', UNCHANGED <<clock, mem, loopVars, history>>
    PROVE  ListInv' /\ IdsInv' /\ ClockInv'
<1>1. ListInv'
  <2>1. PICK n \in Nat : \E s \in [1 .. n -> Nodes] : Linked(s, n)
    BY DEF IInv, ListInv
  <2>2. PICK s \in [1 .. n -> Nodes] : Linked(s, n)
    BY <2>1
  <2>3. Linked(s, n)'
    BY <2>2 DEF Linked, loopVars
  <2> QED BY <2>2, <2>3 DEF IInv, ListInv, history
<1>2. IdsInv'
  BY DEF IInv, IdsInv, Alive, InWalk, history
<1>3. ClockInv'
  BY DEF IInv, ClockInv, Alive, clock, loopVars, history, NowSec, Now
<1> QED BY <1>1, <1>2, <1>3

LEMMA PollStep ==
    ASSUME IInv, Poll
    PROVE  IInv'
<1> DEFINE shortest == aeSearchNearestTimer
           ms == (mem[shortest].when.sec - NowSec) * Sec + mem[shortest].when.ms - NowMs
<1>1. TypeOK
  BY DEF IInv
<1>2. /\ pc \in {"setup", "loop"} /\ pc' = "poll"
      /\ wake' = IF shortest = NULL THEN Forever ELSE real + (IF ms > 0 THEN ms ELSE 0)
      /\ UNCHANGED <<clock, mem, loopVars, walkVars, history>>
  BY DEF Poll
<1> HIDE DEF ms
<1>3. ASSUME mem # <<>>
      PROVE  /\ shortest \in DOMAIN mem /\ shortest # NULL
             /\ ms \in Int /\ ms = TimeOf(mem[shortest].when) - Now
             /\ \A m \in DOMAIN mem : TimeOf(mem[shortest].when) <= TimeOf(mem[m].when)
  <2>1. /\ shortest \in DOMAIN mem
        /\ \A m \in DOMAIN mem : TimeOf(mem[shortest].when) <= TimeOf(mem[m].when)
    BY <1>1, <1>3, NearestTimer
  <2> HIDE DEF shortest
  <2> DEFINE a == mem[shortest].when.sec  b == mem[shortest].when.ms
  <2>2. /\ a \in Nat /\ b \in Nat /\ NowSec \in Nat /\ NowMs \in Nat
        /\ Now = NowSec * Sec + NowMs
    <3>1. mem[shortest] \in Timer
      BY <1>1, <2>1 DEF TypeOK
    <3>2. a \in Nat /\ b \in Nat
      BY <3>1, AeTimersAssumption DEF Timer
    <3>3. /\ NowSec \in Nat \ {0} /\ NowMs \in 0 .. Sec - 1
          /\ Now = NowSec * Sec + NowMs
      BY <1>1, NowShown
    <3>4. NowSec \in Nat /\ NowMs \in Nat
      BY <3>3, AeTimersAssumption
    <3> QED BY <3>2, <3>3, <3>4
  <2>3. ms = (a - NowSec) * Sec + b - NowMs /\ TimeOf(mem[shortest].when) = a * Sec + b
    BY DEF ms, TimeOf, shortest
  <2> HIDE DEF a, b
  <2>4. /\ (a - NowSec) * Sec = a * Sec - NowSec * Sec
        /\ a * Sec \in Int /\ NowSec * Sec \in Int
    BY <2>2, AeTimersAssumption
  <2>5. ms \in Int /\ ms = TimeOf(mem[shortest].when) - Now
    BY <2>2, <2>3, <2>4
  <2> QED BY <1>1, <2>1, <2>5, AeTimersAssumption DEF TypeOK
<1>4. mem = <<>> => shortest = NULL
  BY DEF aeSearchNearestTimer
<1> HIDE DEF shortest
<1>5. wake' \in Nat \cup {Forever}
  <2>1. CASE mem = <<>>
    BY <1>2, <1>4, <2>1
  <2>2. CASE mem # <<>>
    <3>1. wake' = real + (IF ms > 0 THEN ms ELSE 0) /\ ms \in Int /\ real \in Nat
      BY <1>1, <1>2, <1>3, <2>2 DEF TypeOK
    <3> QED BY <3>1
  <2> QED BY <2>1, <2>2
<1>6. TypeOK'
  <2>1. Timer' = Timer
    BY <1>2 DEF Timer, loopVars
  <2> QED BY <1>1, <1>2, <1>5, <2>1 DEF TypeOK, clock, loopVars, walkVars, history
<1>7. ListInv' /\ IdsInv' /\ ClockInv'
  BY <1>2, Outside DEF InWalk
<1>8. PollsInTime'
  <2> SUFFICES ASSUME jumps = 0, NEW i \in DOMAIN asked \ over
               PROVE  wake' # Forever /\ (wake' <= asked[i] \/ wake' = real)
    BY <1>2 DEF PollsInTime, clock, history
  <2>1. PICK m \in DOMAIN mem : mem[m].id = i
    BY DEF IInv, IdsInv
  <2>2. Alive(m) /\ asked[i] \in Nat
    BY <1>1, <2>1 DEF TypeOK, Alive, AE_DELETED_EVENT_ID
  <2>3. TimeOf(mem[m].when) = Epoch + asked[i] /\ Now = Epoch + real
    BY <1>1, <2>1, <2>2, AeTimersAssumption DEF IInv, ClockInv, Now, TypeOK
  <2>4. mem # <<>>
    BY <2>1
  <2> DEFINE T == TimeOf(mem[shortest].when)
  <2>5. /\ shortest # NULL /\ ms \in Int /\ ms = T - Now /\ T <= TimeOf(mem[m].when)
        /\ T \in Nat
    <3>1. mem[shortest].when \in When
      BY <1>1, <1>3, <2>4 DEF TypeOK, Timer, When
    <3> QED BY <1>3, <2>1, <2>4, <3>1, Times
  <2> HIDE DEF T
  <2>6. real \in Nat /\ Epoch \in Nat
    BY <1>1, AeTimersAssumption DEF TypeOK
  <2>7. wake' = real + (IF ms > 0 THEN ms ELSE 0)
    BY <1>2, <2>5
  <2> QED BY <2>2, <2>3, <2>5, <2>6, <2>7 DEF Forever
<1> QED BY <1>6, <1>7, <1>8 DEF IInv

LEMMA WakeUpStep ==
    ASSUME IInv, WakeUp
    PROVE  IInv'
<1>1. TypeOK /\ Timer' = Timer
  BY DEF IInv, WakeUp, Timer, loopVars
<1>2. TypeOK'
  BY <1>1 DEF TypeOK, WakeUp, clock, loopVars, walkVars, history
<1>3. ListInv' /\ IdsInv' /\ ClockInv'
  BY Outside DEF WakeUp, InWalk
<1>4. PollsInTime'
  BY DEF WakeUp, PollsInTime
<1> QED BY <1>2, <1>3, <1>4 DEF IInv

LEMMA WalkStep ==
    ASSUME IInv, Walk
    PROVE  IInv'
<1> DEFINE skewed == NowSec < lastTime
<1>1. TypeOK /\ IdsInv /\ Now \in Nat /\ Now >= Sec
  <2>1. TypeOK /\ IdsInv
    BY DEF IInv
  <2>2. /\ real \in Nat /\ Epoch \in Nat /\ offset \in Int /\ Sec \in Nat
        /\ Epoch + offset >= Sec
    BY <2>1, AeTimersAssumption DEF TypeOK
  <2> QED BY <2>1, <2>2 DEF Now
<1>n. PICK n \in Nat : \E s \in [1 .. n -> Nodes] :
         Linked(s, n) /\ (InWalk => \E k \in 1 .. n + 1 : WalkAt(s, n, k))
  BY DEF IInv, ListInv
<1>2. PICK s \in [1 .. n -> Nodes] :
         Linked(s, n) /\ (InWalk => \E k \in 1 .. n + 1 : WalkAt(s, n, k))
  BY <1>n
<1>3. /\ pc = "files" /\ mem' = ForcedTimers(skewed) /\ lastTime' = NowSec
      /\ te' = timeEventHead /\ prev' = NULL /\ maxId' = timeEventNextId - 1
      /\ must' = {mem[m].id : m \in {l \in DOMAIN mem : Alive(l) /\ (skewed \/ Due(l))}}
      /\ pc' = "walk"
      /\ UNCHANGED <<clock, timeEventHead, timeEventNextId, wake, id, asked, over>>
  BY DEF Walk
<1> HIDE DEF skewed
<1>4. /\ DOMAIN mem' = DOMAIN mem
      /\ \A m \in DOMAIN mem :
           /\ mem'[m] \in Timer /\ mem'[m].id = mem[m].id /\ mem'[m].next = mem[m].next
           /\ IF skewed THEN mem'[m].when.sec = 0 ELSE mem'[m] = mem[m]
  <2>1. /\ DOMAIN mem' = DOMAIN mem
        /\ \A m \in DOMAIN mem :
             mem'[m] = IF skewed THEN [mem[m] EXCEPT !.when.sec = 0] ELSE mem[m]
    BY <1>3 DEF ForcedTimers
  <2>2. ASSUME NEW m \in DOMAIN mem
        PROVE  /\ mem'[m] \in Timer /\ mem'[m].id = mem[m].id /\ mem'[m].next = mem[m].next
               /\ IF skewed THEN mem'[m].when.sec = 0 ELSE mem'[m] = mem[m]
    <3>1. mem[m] \in Timer
      BY <1>1 DEF TypeOK
    <3> QED BY <2>1, <3>1 DEF Timer
  <2> QED BY <2>1, <2>2
<1>5. \A m \in DOMAIN mem' : Alive(m)' <=> Alive(m)
  BY <1>4 DEF Alive
<1>6. TypeOK'
  <2>1. mem' \in [DOMAIN mem' -> Timer'] /\ DOMAIN mem' \subseteq Nodes
    <3>1. Timer' = Timer
      BY <1>3 DEF Timer
    <3>2. mem' \in [DOMAIN mem' -> Timer]
      <4>1. mem' = [m \in DOMAIN mem' |-> mem'[m]]
        BY <1>3, <1>4 DEF ForcedTimers
      <4> QED BY <1>4, <4>1
    <3>3. DOMAIN mem' \subseteq Nodes
      BY <1>1, <1>4 DEF TypeOK
    <3> QED BY <3>1, <3>2, <3>3
  <2>2. maxId' \in -1 .. MaxId - 1 /\ lastTime' \in Nat /\ te' \in Nodes \cup {NULL}
    <3>1. lastTime' \in Nat
      BY <1>1, <1>3, NowShown
    <3>2. maxId' \in -1 .. MaxId - 1 /\ te' \in Nodes \cup {NULL}
      BY <1>1, <1>3, AeTimersAssumption DEF TypeOK
    <3> QED BY <3>1, <3>2
  <2>3. must' \subseteq DOMAIN asked'
    BY <1>1, <1>3 DEF TypeOK, Timer, Alive
  <2> QED BY <1>1, <1>3, <2>1, <2>2, <2>3 DEF TypeOK, clock
<1>7. ListInv'
  <2>1. Linked(s, n)'
    BY <1>2, <1>3, <1>4, SameLinks
  <2>2. WalkAt(s, n, 1)'
    <3>1. te' = IF 1 = n + 1 THEN NULL ELSE s[1]
      BY <1>2, <1>3 DEF Linked
    <3>2. \A j \in 1 .. n : mem'[s[j]].id <= maxId'
      <4>1. \A m \in DOMAIN mem : mem[m].id <= timeEventNextId - 1
        BY <1>1 DEF TypeOK, Timer, AE_DELETED_EVENT_ID
      <4> QED BY <1>2, <1>3, <1>4, <4>1 DEF Linked
    <3>3. ASSUME NEW i \in must'
          PROVE  \E j \in 1 .. n : mem'[s[j]].id = i /\ Due(s[j])'
      <4>1. PICK m \in DOMAIN mem : mem[m].id = i /\ (skewed \/ Due(m))
        BY <1>3
      <4>2. PICK j \in 1 .. n : s[j] = m
        BY <1>2, <4>1 DEF Linked
      <4>3. Now' = Now
        BY <1>3 DEF Now, clock
      <4>4. Due(m)'
        <5>1. CASE skewed
          <6>1. mem'[m].when \in When /\ mem'[m].when.sec = 0
            BY <1>4, <4>1, <5>1 DEF Timer, When
          <6> QED BY <1>1, <4>3, <6>1, DueWhenForced
        <5>2. CASE ~skewed
          BY <1>1, <1>4, <4>1, <4>3, <5>2, DueLater
        <5> QED BY <5>1, <5>2
      <4> QED BY <1>4, <4>1, <4>2, <4>4
    <3> QED BY <1>3, <3>1, <3>2, <3>3 DEF WalkAt
  <2>3. 1 \in 1 .. n + 1
    OBVIOUS
  <2> QED BY <1>3, <2>1, <2>2, <2>3 DEF ListInv, InWalk
<1>8. IdsInv'
  BY <1>1, <1>3, <1>4, <1>5 DEF IdsInv, Alive
<1>9. ClockInv'
  <2> SUFFICES ASSUME jumps' = 0
               PROVE  ClockInv'
    BY DEF ClockInv
  <2>1. jumps = 0 /\ ~skewed /\ NowSec' = NowSec
    <3>1. jumps = 0 /\ NowSec' = NowSec
      BY <1>3 DEF clock, NowSec, Now
    <3>2. lastTime <= NowSec /\ lastTime \in Nat /\ NowSec \in Nat
      BY <1>1, <3>1, NowShown DEF IInv, ClockInv, TypeOK
    <3> QED BY <3>1, <3>2 DEF skewed
  <2>2. NowSec \in Nat
    BY <1>1, NowShown
  <2> QED BY <1>3, <1>4, <1>5, <2>1, <2>2 DEF IInv, ClockInv, clock
<1>10. PollsInTime'
  BY <1>3 DEF PollsInTime
<1> QED BY <1>6, <1>7, <1>8, <1>9, <1>10 DEF IInv

LEMMA UnlinkStep ==
    ASSUME IInv, Unlink
    PROVE  IInv'
<1>0. pc = "walk" /\ te # NULL /\ ~Alive(te)
  BY DEF Unlink, Walking
<1>1. TypeOK /\ IdsInv
  BY DEF IInv
<1>n. PICK n \in Nat : \E s \in [1 .. n -> Nodes] :
         Linked(s, n) /\ \E k \in 1 .. n + 1 : WalkAt(s, n, k)
  BY <1>0 DEF IInv, ListInv, InWalk
<1>s. PICK s \in [1 .. n -> Nodes] :
         Linked(s, n) /\ \E k \in 1 .. n + 1 : WalkAt(s, n, k)
  BY <1>n
<1>k. PICK k \in 1 .. n + 1 : WalkAt(s, n, k)
  BY <1>s
<1>2. /\ k \in 1 .. n /\ te = s[k] /\ te \in DOMAIN mem
      /\ prev = IF k = 1 THEN NULL ELSE s[k - 1]
  BY <1>0, <1>s, <1>k DEF WalkAt, Linked
<1>3. /\ timeEventHead' = IF prev = NULL THEN mem[te].next ELSE timeEventHead
      /\ mem' = [m \in DOMAIN mem \ {te} |->
                   IF m = prev THEN [mem[m] EXCEPT !.next = mem[te].next] ELSE mem[m]]
      /\ te' = mem[te].next
      /\ UNCHANGED <<clock, timeEventNextId, lastTime, pc, wake, prev, maxId, id, history>>
  BY DEF Unlink
<1>4. prev = NULL <=> k = 1
  BY <1>2, AeTimersAssumption
<1>5. /\ DOMAIN mem' = DOMAIN mem \ {te}
      /\ \A m \in DOMAIN mem' :
           /\ mem'[m] \in Timer /\ mem'[m].id = mem[m].id /\ mem'[m].when = mem[m].when
           /\ mem'[m].next = IF m = prev THEN mem[te].next ELSE mem[m].next
  <2>1. mem[te].next \in Nodes \cup {NULL} /\ \A m \in DOMAIN mem : mem[m] \in Timer
    BY <1>1, <1>2 DEF TypeOK, Timer
  <2>2. /\ DOMAIN mem' = DOMAIN mem \ {te}
        /\ \A m \in DOMAIN mem' :
             mem'[m] = IF m = prev THEN [mem[m] EXCEPT !.next = mem[te].next] ELSE mem[m]
    BY <1>3
  <2> DEFINE next == mem[te].next
  <2> HIDE DEF next
  <2>3. ASSUME NEW m \in DOMAIN mem'
        PROVE  /\ mem'[m] \in Timer /\ mem'[m].id = mem[m].id /\ mem'[m].when = mem[m].when
               /\ mem'[m].next = IF m = prev THEN next ELSE mem[m].next
    <3>1. mem[m] \in Timer /\ next \in Nodes \cup {NULL}
      BY <2>1, <2>2 DEF next
    <3>2. mem'[m] = IF m = prev THEN [mem[m] EXCEPT !.next = next] ELSE mem[m]
      BY <2>2 DEF next
    <3> QED BY <3>1, <3>2 DEF Timer
  <2> QED BY <2>2, <2>3 DEF next
<1>6. TypeOK'
  <2>1. mem' \in [DOMAIN mem' -> Timer'] /\ DOMAIN mem' \subseteq Nodes
    <3>1. Timer' = Timer
      BY <1>3 DEF Timer
    <3>2. mem' \in [DOMAIN mem' -> Timer]
      <4>1. mem' = [m \in DOMAIN mem' |-> mem'[m]]
        BY <1>3, <1>5
      <4> QED BY <1>5, <4>1
    <3> QED BY <1>1, <1>5, <3>1, <3>2 DEF TypeOK
  <2>2. mem[te].next \in Nodes \cup {NULL}
    BY <1>1, <1>2 DEF TypeOK, Timer
  <2>3. timeEventHead' \in Nodes \cup {NULL} /\ te' \in Nodes \cup {NULL}
    BY <1>1, <1>3, <2>2 DEF TypeOK
  <2> QED BY <1>1, <1>3, <2>1, <2>3 DEF TypeOK, clock, history
<1>7. ListInv'
  <2> DEFINE r == [i \in 1 .. n - 1 |-> IF i < k THEN s[i] ELSE s[i + 1]]
  <2>1. r \in [1 .. n - 1 -> Nodes] /\ Linked(r, n - 1)'
    <3>1. /\ DOMAIN mem' = DOMAIN mem \ {s[k]}
          /\ timeEventHead' = IF k = 1 THEN mem[s[k]].next ELSE timeEventHead
      BY <1>2, <1>3, <1>4, <1>5
    <3>2. \A l \in DOMAIN mem' : mem'[l].next =
              IF k # 1 /\ l = s[k - 1] THEN mem[s[k]].next ELSE mem[l].next
      <4>1. NULL \notin DOMAIN mem'
        BY <1>1, <1>5, AeTimersAssumption DEF TypeOK
      <4> QED BY <1>2, <1>5, <4>1
    <3> QED BY <1>1, <1>s, <1>2, <3>1, <3>2, TakeOut
  <2>2. /\ \A i \in 1 .. n - 1 : i < k => i \in 1 .. n /\ r[i] = s[i]
        /\ \A i \in 1 .. n - 1 : i >= k => i + 1 \in 1 .. n /\ r[i] = s[i + 1]
    BY <1>2
  <2> HIDE DEF r
  <2>3. WalkAt(r, n - 1, k)'
    <3>1. te' = IF k = n THEN NULL ELSE r[k]
      BY <1>s, <1>2, <1>3, <2>2 DEF Linked
    <3>2. prev' = IF k = 1 THEN NULL ELSE r[k - 1]
      <4>1. k # 1 => k - 1 \in 1 .. n - 1 /\ k - 1 < k
        BY <1>2
      <4> QED BY <1>2, <1>3, <2>2, <4>1
    <3>3. ASSUME NEW j \in k .. n - 1
          PROVE  mem'[r[j]].id <= maxId'
      <4>1. j + 1 \in k .. n /\ j \in 1 .. n - 1 /\ r[j] = s[j + 1]
        BY <1>2, <2>2
      <4>2. mem[s[j + 1]].id <= maxId
        BY <1>k, <4>1 DEF WalkAt
      <4>3. r[j] \in DOMAIN mem'
        BY <2>1, <4>1 DEF Linked
      <4> QED BY <1>3, <1>5, <4>1, <4>2, <4>3
    <3>4. ASSUME NEW i \in must'
          PROVE  \E j \in k .. n - 1 : mem'[r[j]].id = i /\ Due(r[j])'
      <4>1. i \in must /\ i # AE_DELETED_EVENT_ID
        BY <1>1, <1>3 DEF TypeOK, history, AE_DELETED_EVENT_ID
      <4>2. PICK j \in k .. n : mem[s[j]].id = i /\ Due(s[j])
        BY <1>k, <4>1 DEF WalkAt
      <4>3. j # k
        BY <1>0, <1>2, <4>1, <4>2 DEF Alive
      <4> DEFINE x == j - 1
      <4>4. x \in k .. n - 1 /\ x \in 1 .. n - 1 /\ x >= k /\ x + 1 = j
        BY <1>2, <4>3
      <4> HIDE DEF x
      <4>5. r[x] = s[j] /\ r[x] \in DOMAIN mem'
        BY <2>1, <2>2, <4>4 DEF Linked
      <4>6. mem'[r[x]].id = i /\ mem'[r[x]].when = mem[s[j]].when
        BY <1>5, <4>2, <4>5
      <4>7. Due(r[x])'
        BY <1>3, <4>2, <4>5, <4>6 DEF Due, Now, NowSec, NowMs, clock
      <4> QED BY <4>4, <4>6, <4>7
    <3>5. n - 1 + 1 = n
      OBVIOUS
    <3> QED BY <1>0, <1>3, <3>1, <3>2, <3>3, <3>4, <3>5 DEF WalkAt
  <2>4. n - 1 \in Nat /\ k \in 1 .. n - 1 + 1
    BY <1>2
  <2> QED BY <1>0, <1>3, <2>1, <2>3, <2>4 DEF ListInv, InWalk
<1>8. IdsInv'
  <2>1. \A i \in DOMAIN asked \ over : i # AE_DELETED_EVENT_ID
    BY <1>1 DEF TypeOK, AE_DELETED_EVENT_ID
  <2>2. \A i \in DOMAIN asked \ over : \E m \in DOMAIN mem' : mem'[m].id = i
    BY <1>0, <1>1, <1>5, <2>1 DEF IdsInv, Alive
  <2>3. \A m, l \in DOMAIN mem' : Alive(m)' /\ mem'[m].id = mem'[l].id => m = l
    BY <1>1, <1>5 DEF IdsInv, Alive
  <2>4. \A m \in DOMAIN mem' : Alive(m)' => mem'[m].id \notin over
    BY <1>1, <1>5 DEF IdsInv, Alive
  <2> QED BY <1>0, <1>3, <2>2, <2>3, <2>4 DEF IdsInv, history
<1>9. ClockInv'
  BY <1>3, <1>5 DEF IInv, ClockInv, Alive, clock, history, NowSec, Now
<1>10. PollsInTime'
  BY <1>0, <1>3 DEF PollsInTime
<1> QED BY <1>6, <1>7, <1>8, <1>9, <1>10 DEF IInv

LEMMA SkipStep ==
    ASSUME IInv, Skip
    PROVE  IInv'
<1>0. pc = "walk" /\ te # NULL /\ Alive(te)
  BY DEF Skip, Walking
<1>1. TypeOK
  BY DEF IInv
<1>n. PICK n \in Nat : \E s \in [1 .. n -> Nodes] :
         Linked(s, n) /\ \E k \in 1 .. n + 1 : WalkAt(s, n, k)
  BY <1>0 DEF IInv, ListInv, InWalk
<1>s. PICK s \in [1 .. n -> Nodes] :
         Linked(s, n) /\ \E k \in 1 .. n + 1 : WalkAt(s, n, k)
  BY <1>n
<1>k. PICK k \in 1 .. n + 1 : WalkAt(s, n, k)
  BY <1>s
<1>2. k \in 1 .. n /\ te = s[k] /\ te \in DOMAIN mem
  BY <1>0, <1>s, <1>k DEF WalkAt, Linked
<1>3. /\ te' = mem[te].next /\ prev' = te /\ ~Due(te)
      /\ UNCHANGED <<clock, mem, loopVars, pc, wake, maxId, id, history>>
  <2>1. mem[te].id <= maxId /\ mem[te].id \in Int /\ maxId \in Int
    BY <1>1, <1>2, <1>k DEF WalkAt, TypeOK, Timer, AE_DELETED_EVENT_ID
  <2> QED BY <2>1 DEF Skip
<1>4. TypeOK'
  <2>1. Timer' = Timer
    BY <1>3 DEF Timer, loopVars
  <2>2. te' \in Nodes \cup {NULL} /\ prev' \in Nodes \cup {NULL}
    BY <1>1, <1>2, <1>3 DEF TypeOK, Timer
  <2> QED BY <1>1, <1>3, <2>1, <2>2 DEF TypeOK, clock, loopVars, history
<1>5. ListInv'
  <2>1. Linked(s, n)'
    BY <1>s, <1>3 DEF Linked, loopVars
  <2>2. WalkAt(s, n, k + 1)'
    <3>1. te' = IF k + 1 = n + 1 THEN NULL ELSE s[k + 1]
      BY <1>s, <1>2, <1>3 DEF Linked
    <3>2. prev' = s[k] /\ k + 1 # 1 /\ k + 1 - 1 = k
      BY <1>2, <1>3
    <3>3. \A j \in k + 1 .. n : mem[s[j]].id <= maxId
      BY <1>k DEF WalkAt
    <3>4. ASSUME NEW i \in must
          PROVE  \E j \in k + 1 .. n : mem[s[j]].id = i /\ Due(s[j])'
      <4>1. PICK j \in k .. n : mem[s[j]].id = i /\ Due(s[j])
        BY <1>k DEF WalkAt
      <4>2. j \in k + 1 .. n
        BY <1>2, <1>3, <4>1
      <4>3. Due(s[j])'
        BY <1>3, <4>1 DEF Due, Now, NowSec, NowMs, clock
      <4> QED BY <4>1, <4>2, <4>3
    <3> QED BY <1>0, <1>3, <3>1, <3>2, <3>3, <3>4 DEF WalkAt, history
  <2>3. k + 1 \in 1 .. n + 1
    BY <1>2
  <2> QED BY <1>0, <1>3, <2>1, <2>2, <2>3 DEF ListInv, InWalk
<1>6. IdsInv'
  BY <1>0, <1>3 DEF IInv, IdsInv, Alive, history
<1>7. ClockInv'
  BY <1>3 DEF IInv, ClockInv, Alive, clock, loopVars, history, NowSec, Now
<1>8. PollsInTime'
  BY <1>0, <1>3 DEF PollsInTime
<1> QED BY <1>4, <1>5, <1>6, <1>7, <1>8 DEF IInv

LEMMA CallStep ==
    ASSUME IInv, Call
    PROVE  IInv'
<1>0. pc = "walk" /\ te # NULL /\ Alive(te)
  BY DEF Call, Walking
<1>1. TypeOK
  BY DEF IInv
<1>n. PICK n \in Nat : \E s \in [1 .. n -> Nodes] :
         Linked(s, n) /\ \E k \in 1 .. n + 1 : WalkAt(s, n, k)
  BY <1>0 DEF IInv, ListInv, InWalk
<1>s. PICK s \in [1 .. n -> Nodes] :
         Linked(s, n) /\ \E k \in 1 .. n + 1 : WalkAt(s, n, k)
  BY <1>n
<1>k. PICK k \in 1 .. n + 1 : WalkAt(s, n, k)
  BY <1>s
<1>2. k \in 1 .. n /\ te = s[k] /\ te \in DOMAIN mem
  BY <1>0, <1>s, <1>k DEF WalkAt, Linked
<1>3. /\ id' = mem[te].id /\ must' = must \ {mem[te].id} /\ pc' = "call"
      /\ UNCHANGED <<clock, mem, loopVars, wake, te, prev, maxId, asked, over>>
  BY DEF Call
<1>4. mem[te].id \in DOMAIN asked
  BY <1>0, <1>1, <1>2 DEF TypeOK, Timer, Alive
<1>5. TypeOK'
  <2>1. Timer' = Timer
    BY <1>3 DEF Timer, loopVars
  <2>2. id' \in -1 .. MaxId - 1
    BY <1>1, <1>3, <1>4, AeTimersAssumption DEF TypeOK
  <2> QED BY <1>1, <1>3, <2>1, <2>2 DEF TypeOK, clock, loopVars
<1>6. ListInv'
  <2>1. Linked(s, n)'
    BY <1>s, <1>3 DEF Linked, loopVars
  <2>2. \A m \in DOMAIN mem : Due(m)' <=> Due(m)
    BY <1>3 DEF Due, Now, NowSec, NowMs, clock
  <2>3. WalkAt(s, n, k)'
    <3>1. \A i \in must' : \E j \in k .. n : mem'[s[j]].id = i /\ Due(s[j])'
      BY <1>s, <1>k, <1>2, <1>3, <2>2 DEF WalkAt, Linked
    <3> QED BY <1>k, <1>2, <1>3, <3>1 DEF WalkAt
  <2> QED BY <1>3, <2>1, <2>3 DEF ListInv, InWalk
<1>7. IdsInv'
  BY <1>3, <1>4 DEF IInv, IdsInv, Alive
<1>8. ClockInv'
  BY <1>3 DEF IInv, ClockInv, Alive, clock, loopVars, NowSec, Now
<1>9. PollsInTime'
  BY <1>3 DEF PollsInTime
<1> QED BY <1>5, <1>6, <1>7, <1>8, <1>9 DEF IInv

LEMMA WalkEndsStep ==
    ASSUME IInv, WalkEnds
    PROVE  IInv'
<1>0. pc = "walk" /\ te = NULL
  BY DEF WalkEnds
<1>1. TypeOK
  BY DEF IInv
<1>n. PICK n \in Nat : \E s \in [1 .. n -> Nodes] :
         Linked(s, n) /\ \E k \in 1 .. n + 1 : WalkAt(s, n, k)
  BY <1>0 DEF IInv, ListInv, InWalk
<1>s. PICK s \in [1 .. n -> Nodes] :
         Linked(s, n) /\ \E k \in 1 .. n + 1 : WalkAt(s, n, k)
  BY <1>n
<1>k. PICK k \in 1 .. n + 1 : WalkAt(s, n, k)
  BY <1>s
<1>2. must = {}
  <2>1. k = n + 1
    BY <1>0, <1>s, <1>k, AeTimersAssumption DEF WalkAt
  <2>2. k .. n = {}
    BY <2>1
  <2> QED BY <1>k, <2>2 DEF WalkAt
<1>3. /\ pc' = "loop" /\ prev' = NULL /\ maxId' = -1
      /\ UNCHANGED <<clock, mem, loopVars, wake, te, id, history>>
  BY DEF WalkEnds
<1>4. TypeOK'
  <2>1. Timer' = Timer
    BY <1>3 DEF Timer, loopVars
  <2>2. -1 \in -1 .. MaxId - 1
    BY AeTimersAssumption
  <2> QED BY <1>1, <1>3, <2>1, <2>2 DEF TypeOK, clock, loopVars, history
<1>5. ListInv'
  <2>1. Linked(s, n)'
    BY <1>s, <1>3 DEF Linked, loopVars
  <2> QED BY <1>2, <1>3, <2>1 DEF ListInv, InWalk, history
<1>6. IdsInv'
  BY <1>3 DEF IInv, IdsInv, Alive, history
<1>7. ClockInv'
  BY <1>3 DEF IInv, ClockInv, Alive, clock, loopVars, history, NowSec, Now
<1>8. PollsInTime'
  BY <1>3 DEF PollsInTime
<1> QED BY <1>4, <1>5, <1>6, <1>7, <1>8 DEF IInv

LEMMA ReturnStep ==
    ASSUME IInv, NEW retval \in Delays \cup {AE_NOMORE}, Return(retval)
    PROVE  IInv'
<1>0. pc = "call" /\ pc' = "walk"
  BY DEF Return
<1>1. TypeOK /\ Now \in Nat
  BY NowShown DEF IInv
<1>n. PICK n \in Nat : \E s \in [1 .. n -> Nodes] :
         Linked(s, n) /\ \E k \in 1 .. n + 1 : WalkAt(s, n, k)
  BY <1>0 DEF IInv, ListInv, InWalk
<1>s. PICK s \in [1 .. n -> Nodes] :
         Linked(s, n) /\ \E k \in 1 .. n + 1 : WalkAt(s, n, k)
  BY <1>n
<1>k. PICK k \in 1 .. n + 1 : WalkAt(s, n, k)
  BY <1>s
<1>2. k \in 1 .. n /\ te = s[k] /\ te \in DOMAIN mem
  BY <1>0, <1>s, <1>k DEF WalkAt, Linked
<1>3. /\ mem' = Returned(retval)
      /\ asked' = [asked EXCEPT ![id] = IF retval # AE_NOMORE THEN real + retval ELSE 0]
      /\ over' = IF retval # AE_NOMORE THEN over ELSE over \cup {id}
      /\ prev' = te /\ te' = mem[te].next /\ id' = -1
      /\ UNCHANGED <<clock, loopVars, wake, maxId, must>>
  BY DEF Return
<1>4. /\ id \in DOMAIN asked /\ id \notin must
      /\ mem[te].id = id \/ (mem[te].id = AE_DELETED_EVENT_ID /\ id \in over)
      /\ id # AE_DELETED_EVENT_ID /\ AE_DELETED_EVENT_ID \notin must
      /\ AE_DELETED_EVENT_ID \notin DOMAIN asked
  BY <1>0, <1>1 DEF IInv, IdsInv, TypeOK, AE_DELETED_EVENT_ID
<1>5. retval # AE_NOMORE =>
        /\ retval \in Nat /\ aeAddMillisecondsToNow(retval) \in When
        /\ TimeOf(aeAddMillisecondsToNow(retval)) = Now + retval
  BY <1>1, AeTimersAssumption, aeAddMilliseconds
<1>6. /\ DOMAIN mem' = DOMAIN mem
      /\ \A m \in DOMAIN mem : mem'[m].next = mem[m].next /\ (m # te => mem'[m] = mem[m])
      /\ IF retval # AE_NOMORE
         THEN mem'[te].id = mem[te].id /\ mem'[te].when = aeAddMillisecondsToNow(retval)
         ELSE mem'[te].id = AE_DELETED_EVENT_ID
      /\ mem'[te] \in Timer
  <2>1. CASE retval # AE_NOMORE
    <3>1. mem' = [mem EXCEPT ![te].when = aeAddMillisecondsToNow(retval)]
      BY <1>3, <2>1 DEF Returned
    <3> QED BY <1>1, <1>2, <1>5, <2>1, <3>1 DEF TypeOK, Timer, When
  <2>2. CASE retval = AE_NOMORE
    <3>1. mem' = [mem EXCEPT ![te].id = AE_DELETED_EVENT_ID]
      BY <1>3, <2>2 DEF Returned, Marked
    <3> QED BY <1>1, <1>2, <2>2, <3>1 DEF TypeOK, Timer
  <2> QED BY <2>1, <2>2
<1>7. TypeOK'
  <2>1. mem' \in [DOMAIN mem' -> Timer'] /\ DOMAIN mem' \subseteq Nodes
    <3>1. Timer' = Timer
      BY <1>3 DEF Timer, loopVars
    <3>2. \A m \in DOMAIN mem : mem'[m] \in Timer
      BY <1>1, <1>6 DEF TypeOK
    <3>3. mem' = [m \in DOMAIN mem' |-> mem'[m]]
      <4>1. CASE retval # AE_NOMORE
        BY <1>1, <1>3, <4>1 DEF Returned, TypeOK
      <4>2. CASE retval = AE_NOMORE
        BY <1>1, <1>3, <4>2 DEF Returned, Marked, TypeOK
      <4> QED BY <4>1, <4>2
    <3>4. mem' \in [DOMAIN mem' -> Timer]
      BY <1>6, <3>2, <3>3
    <3>5. DOMAIN mem' \subseteq Nodes
      BY <1>1, <1>6 DEF TypeOK
    <3> QED BY <3>1, <3>4, <3>5
  <2>2. asked' \in [0 .. timeEventNextId - 1 -> Nat]
    <3> DEFINE due == IF retval # AE_NOMORE THEN real + retval ELSE 0
    <3>1. due \in Nat
      BY <1>1, <1>5 DEF TypeOK
    <3>2. asked' = [asked EXCEPT ![id] = due]
      BY <1>3
    <3> HIDE DEF due
    <3> QED BY <1>1, <3>1, <3>2 DEF TypeOK
  <2>3. DOMAIN asked' = DOMAIN asked
    BY <1>3
  <2>4. over' \subseteq DOMAIN asked' /\ must' \subseteq DOMAIN asked'
    BY <1>1, <1>3, <1>4, <2>3 DEF TypeOK
  <2>5. te' \in Nodes \cup {NULL} /\ prev' \in Nodes \cup {NULL}
    BY <1>1, <1>2, <1>3 DEF TypeOK, Timer
  <2>6. id' \in -1 .. MaxId - 1
    BY <1>3, AeTimersAssumption
  <2> QED BY <1>0, <1>1, <1>3, <2>1, <2>2, <2>4, <2>5, <2>6 DEF TypeOK, clock, loopVars
<1>8. ListInv'
  <2>1. Linked(s, n)'
    BY <1>s, <1>3, <1>6, SameLinks DEF loopVars
  <2>2. WalkAt(s, n, k + 1)'
    <3>0. \A j \in k + 1 .. n : s[j] \in DOMAIN mem /\ s[j] # te
      BY <1>s, <1>2 DEF Linked
    <3>1. te' = IF k + 1 = n + 1 THEN NULL ELSE s[k + 1]
      BY <1>s, <1>2, <1>3 DEF Linked
    <3>2. prev' = s[k] /\ k + 1 # 1 /\ k + 1 - 1 = k
      BY <1>2, <1>3
    <3>3. \A j \in k + 1 .. n : mem'[s[j]].id <= maxId
      BY <1>k, <1>6, <3>0 DEF WalkAt
    <3>4. ASSUME NEW i \in must
          PROVE  \E j \in k + 1 .. n : mem'[s[j]].id = i /\ Due(s[j])'
      <4>1. PICK j \in k .. n : mem[s[j]].id = i /\ Due(s[j])
        BY <1>k DEF WalkAt
      <4>2. j \in k + 1 .. n
        BY <1>2, <1>4, <4>1
      <4>3. Due(s[j])'
        BY <1>3, <1>6, <3>0, <4>1, <4>2 DEF Due, Now, NowSec, NowMs, clock
      <4> QED BY <1>6, <3>0, <4>1, <4>2, <4>3
    <3> QED BY <1>0, <1>3, <3>1, <3>2, <3>3, <3>4 DEF WalkAt
  <2>3. k + 1 \in 1 .. n + 1
    BY <1>2
  <2> QED BY <1>0, <2>1, <2>2, <2>3 DEF ListInv, InWalk
<1>9. IdsInv'
  <2>1. DOMAIN asked' = DOMAIN asked
    BY <1>3
  <2>2. \A m \in DOMAIN mem' : Alive(m)' => Alive(m) /\ mem'[m].id = mem[m].id
    BY <1>6 DEF Alive
  <2>3. \A m \in DOMAIN mem' : Alive(m)' => mem'[m].id \notin over'
    <3>1. CASE retval # AE_NOMORE
      BY <1>3, <1>6, <2>2, <3>1 DEF IInv, IdsInv
    <3>2. CASE retval = AE_NOMORE
      <4>1. ASSUME NEW m \in DOMAIN mem', Alive(m)'
            PROVE  mem[m].id # id
        <5>1. m # te
          BY <1>6, <3>2, <4>1 DEF Alive
        <5> QED BY <1>2, <1>4, <1>6, <2>2, <4>1, <5>1 DEF IInv, IdsInv
      <4> QED BY <1>3, <1>6, <2>2, <3>2, <4>1 DEF IInv, IdsInv
    <3> QED BY <3>1, <3>2
  <2>4. \A i \in DOMAIN asked' \ over' : \E m \in DOMAIN mem' : mem'[m].id = i
    <3> SUFFICES ASSUME NEW i \in DOMAIN asked' \ over'
                 PROVE  \E m \in DOMAIN mem' : mem'[m].id = i
      OBVIOUS
    <3>1. PICK m \in DOMAIN mem : mem[m].id = i
      BY <1>3, <2>1 DEF IInv, IdsInv
    <3>2. CASE m = te
      BY <1>3, <1>4, <1>6, <2>1, <3>1, <3>2
    <3>3. CASE m # te
      BY <1>6, <3>1, <3>3
    <3> QED BY <3>2, <3>3
  <2>5. \A m, l \in DOMAIN mem' : Alive(m)' /\ mem'[m].id = mem'[l].id => m = l
    <3> SUFFICES ASSUME NEW m \in DOMAIN mem', NEW l \in DOMAIN mem',
                        Alive(m)', mem'[m].id = mem'[l].id
                 PROVE  m = l
      OBVIOUS
    <3>1. Alive(l)'
      BY DEF Alive
    <3> QED BY <1>6, <2>2, <3>1 DEF IInv, IdsInv
  <2> QED BY <1>0, <2>3, <2>4, <2>5 DEF IdsInv
<1>10. ClockInv'
  <2>1. ASSUME jumps' = 0, NEW l \in DOMAIN mem', Alive(l)'
        PROVE  TimeOf(mem'[l].when) = Epoch + asked'[mem'[l].id]
    <3>0. /\ l \in DOMAIN mem /\ Alive(l) /\ mem'[l].id = mem[l].id
          /\ l = te => retval # AE_NOMORE
      BY <1>6, <2>1 DEF Alive
    <3>1. CASE l = te
      <4>1. Now = Epoch + real /\ Epoch \in Nat /\ real \in Nat
        BY <1>1, <1>3, <2>1, AeTimersAssumption DEF IInv, ClockInv, Now, TypeOK, clock
      <4>2. retval \in Nat /\ TimeOf(mem'[l].when) = Now + retval
        BY <1>5, <1>6, <3>0, <3>1
      <4>3. mem'[l].id = id /\ asked'[id] = real + retval
        BY <1>3, <1>4, <3>0, <3>1 DEF Alive
      <4>4. (Epoch + real) + retval = Epoch + (real + retval)
        BY <4>1, <4>2
      <4> QED BY <4>1, <4>2, <4>3, <4>4
    <3>2. CASE l # te
      <4>1. mem'[l] = mem[l] /\ mem[l].id # id
        BY <1>2, <1>4, <1>6, <3>0, <3>2 DEF IInv, IdsInv
      <4>2. asked'[mem[l].id] = asked[mem[l].id]
        <5>1. mem[l].id \in DOMAIN asked
          BY <1>1, <3>0 DEF TypeOK, Timer, Alive
        <5> QED BY <1>3, <4>1, <5>1
      <4> QED BY <1>3, <2>1, <3>0, <4>1, <4>2 DEF IInv, ClockInv, clock
    <3> QED BY <3>1, <3>2
  <2>2. jumps' = 0 => offset' = 0 /\ lastTime' <= NowSec'
    BY <1>3 DEF IInv, ClockInv, clock, loopVars, NowSec, Now
  <2> QED BY <2>1, <2>2 DEF ClockInv
<1>11. PollsInTime'
  BY <1>0 DEF PollsInTime
<1> QED BY <1>7, <1>8, <1>9, <1>10, <1>11 DEF IInv

---------------------------------------------------------------------------
(* The clock.                                                              *)

LEMMA SecondsPass ==
    ASSUME NEW a \in Nat, NEW b \in Nat, a <= b
    PROVE  a \div Sec <= b \div Sec
<1> DEFINE q == a \div Sec  p == b \div Sec  r == a % Sec  o == b % Sec
<1>1. /\ q \in Nat /\ p \in Nat /\ r \in 0 .. Sec - 1 /\ o \in 0 .. Sec - 1
      /\ a = (q * Sec) + r /\ b = (p * Sec) + o /\ Sec \in Nat \ {0}
  BY AeTimersAssumption, DivMod
<1> HIDE DEF q, p, r, o
<1>2. p < q => p * Sec + Sec <= q * Sec
  BY <1>1, Product
<1>3. p * Sec \in Nat /\ q * Sec \in Nat
  BY <1>1
<1>4. ~(p < q)
  BY <1>1, <1>2, <1>3
<1>5. q <= p
  BY <1>1, <1>4
<1> QED BY <1>5 DEF q, p

LEMMA TickStep ==
    ASSUME IInv, Tick
    PROVE  IInv'
<1>1. TypeOK /\ real \in Nat /\ Epoch \in Nat /\ offset \in Int /\ Sec \in Nat
      /\ Epoch + offset >= Sec
  BY AeTimersAssumption DEF IInv, TypeOK
<1>2. /\ real' = real + 1 /\ real < MaxTime
      /\ (pc = "poll" /\ wake # Forever => real < wake)
      /\ UNCHANGED <<offset, jumps, mem, loopVars, pc, wake, walkVars, history>>
  BY DEF Tick
<1>3. Now \in Nat /\ Now' \in Nat /\ Now' >= Now
  BY <1>1, <1>2 DEF Now
<1>4. TypeOK'
  <2>1. Timer' = Timer
    BY <1>2 DEF Timer, loopVars
  <2>2. real' \in 0 .. MaxTime
    BY <1>1, <1>2, AeTimersAssumption
  <2> QED BY <1>1, <1>2, <2>1, <2>2 DEF TypeOK, loopVars, walkVars, history
<1>5. \A m \in DOMAIN mem : Due(m) => Due(m)'
  BY <1>1, <1>2, <1>3, DueLater
<1>6. ListInv'
  <2>n. PICK n \in Nat : \E s \in [1 .. n -> Nodes] :
           Linked(s, n) /\ (InWalk => \E k \in 1 .. n + 1 : WalkAt(s, n, k))
    BY DEF IInv, ListInv
  <2>s. PICK s \in [1 .. n -> Nodes] :
           Linked(s, n) /\ (InWalk => \E k \in 1 .. n + 1 : WalkAt(s, n, k))
    BY <2>n
  <2>1. Linked(s, n)'
    BY <2>s, <1>2 DEF Linked, loopVars
  <2>2. ASSUME NEW k \in 1 .. n + 1, WalkAt(s, n, k)
        PROVE  WalkAt(s, n, k)'
    <3>1. \A j \in k .. n : s[j] \in DOMAIN mem
      BY <2>s DEF Linked
    <3> QED BY <1>2, <1>5, <2>2, <3>1 DEF WalkAt, walkVars, history
  <2> QED BY <1>2, <2>s, <2>1, <2>2 DEF IInv, ListInv, InWalk, history
<1>7. IdsInv'
  BY <1>2 DEF IInv, IdsInv, Alive, walkVars, history
<1>8. ClockInv'
  <2>1. NowSec <= NowSec' /\ NowSec \in Nat
    <3>1. NowSec <= NowSec'
      BY <1>3, SecondsPass DEF NowSec
    <3> QED BY <1>1, <3>1, NowShown
  <2>2. NowSec' \in Nat
    BY <1>3, AeTimersAssumption, DivMod DEF NowSec
  <2>3. lastTime \in Nat
    BY <1>1 DEF TypeOK
  <2> QED BY <1>2, <2>1, <2>2, <2>3 DEF IInv, ClockInv, Alive, loopVars, history
<1>9. PollsInTime'
  <2> SUFFICES ASSUME pc = "poll", jumps = 0, NEW i \in DOMAIN asked \ over
               PROVE  wake # Forever /\ wake <= asked[i]
    BY <1>2 DEF PollsInTime, history
  <2>1. wake # Forever /\ (wake <= asked[i] \/ wake = real)
    BY DEF IInv, PollsInTime
  <2> QED BY <1>1, <1>2, <2>1
<1> QED BY <1>4, <1>6, <1>7, <1>8, <1>9 DEF IInv

LEMMA SetClockStep ==
    ASSUME IInv, NEW j \in Jumps, SetClock(j)
    PROVE  IInv'
<1>1. TypeOK /\ real \in Nat /\ Epoch \in Nat /\ offset \in Int /\ Sec \in Nat
      /\ Epoch + offset >= Sec /\ j \in Int /\ jumps \in Nat
  BY AeTimersAssumption DEF IInv, TypeOK
<1>2. /\ jumps < MaxJumps /\ Epoch + offset + j >= Sec
      /\ offset' = offset + j /\ jumps' = jumps + 1
      /\ must' = IF j > 0 THEN must
                 ELSE {mem[n].id : n \in {m \in DOMAIN mem : mem[m].when.sec = 0}} \cap must
      /\ UNCHANGED <<real, mem, loopVars, pc, wake, walkVars, asked, over>>
  BY DEF SetClock
<1>3. Now \in Nat /\ Now' \in Nat /\ Now' >= Sec /\ (j > 0 => Now' >= Now)
  BY <1>1, <1>2 DEF Now
<1>4. TypeOK'
  <2>1. Timer' = Timer
    BY <1>2 DEF Timer, loopVars
  <2>2. offset' \in Int /\ Epoch + offset' >= Sec /\ jumps' \in 0 .. MaxJumps
    BY <1>1, <1>2, AeTimersAssumption
  <2>3. must' \subseteq must
    BY <1>2
  <2> QED BY <1>1, <1>2, <2>1, <2>2, <2>3 DEF TypeOK, loopVars, walkVars
<1>5. ListInv'
  <2>n. PICK n \in Nat : \E s \in [1 .. n -> Nodes] :
           Linked(s, n) /\ (InWalk => \E k \in 1 .. n + 1 : WalkAt(s, n, k))
    BY DEF IInv, ListInv
  <2>s. PICK s \in [1 .. n -> Nodes] :
           Linked(s, n) /\ (InWalk => \E k \in 1 .. n + 1 : WalkAt(s, n, k))
    BY <2>n
  <2>1. Linked(s, n)'
    BY <2>s, <1>2 DEF Linked, loopVars
  <2>2. ASSUME NEW k \in 1 .. n + 1, WalkAt(s, n, k)
        PROVE  WalkAt(s, n, k)'
    <3>1. \A x \in k .. n : s[x] \in DOMAIN mem
      BY <2>s DEF Linked
    <3>2. ASSUME NEW i \in must'
          PROVE  \E x \in k .. n : mem[s[x]].id = i /\ Due(s[x])'
      <4>1. PICK x \in k .. n : mem[s[x]].id = i /\ Due(s[x])
        BY <1>2, <2>2 DEF WalkAt
      <4>2. s[x] \in DOMAIN mem
        BY <3>1
      <4>3. CASE j > 0
        BY <1>1, <1>2, <1>3, <4>1, <4>2, <4>3, DueLater
      <4>4. CASE ~(j > 0)
        <5>1. PICK m \in DOMAIN mem : mem[m].id = i /\ mem[m].when.sec = 0
          BY <1>2, <4>4
        <5>2. i # AE_DELETED_EVENT_ID
          BY <1>1, <1>2 DEF TypeOK, AE_DELETED_EVENT_ID
        <5>3. s[x] = m
          BY <4>1, <4>2, <5>1, <5>2 DEF IInv, IdsInv, Alive
        <5>4. mem'[m].when \in When /\ mem'[m].when.sec = 0
          BY <1>1, <1>2, <5>1 DEF TypeOK, Timer, When
        <5>5. Due(m)'
          BY <1>3, <5>4, DueWhenForced
        <5> QED BY <4>1, <5>3, <5>5
      <4> QED BY <4>3, <4>4
    <3> QED BY <1>2, <2>2, <3>2 DEF WalkAt, walkVars
  <2> QED BY <1>2, <2>s, <2>1, <2>2 DEF IInv, ListInv, InWalk
<1>6. IdsInv'
  BY <1>2 DEF IInv, IdsInv, Alive, walkVars
<1>7. jumps' # 0
  BY <1>1, <1>2
<1> QED BY <1>4, <1>5, <1>6, <1>7 DEF IInv, ClockInv, PollsInTime

LEMMA IInvStutter ==
    ASSUME IInv, UNCHANGED vars
    PROVE  IInv'
<1> USE DEF vars, clock, loopVars, walkVars, history
<1>1. TypeOK'
  <2>1. Timer' = Timer
    BY DEF Timer
  <2> QED BY <2>1 DEF IInv, TypeOK
<1>2. ListInv'
  <2>n. PICK n \in Nat : \E s \in [1 .. n -> Nodes] :
           Linked(s, n) /\ (InWalk => \E k \in 1 .. n + 1 : WalkAt(s, n, k))
    BY DEF IInv, ListInv
  <2>s. PICK s \in [1 .. n -> Nodes] :
           Linked(s, n) /\ (InWalk => \E k \in 1 .. n + 1 : WalkAt(s, n, k))
    BY <2>n
  <2>1. Linked(s, n)'
    BY <2>s DEF Linked
  <2>2. \A m \in DOMAIN mem : Due(m)' <=> Due(m)
    BY DEF Due, Now, NowSec, NowMs
  <2>3. \A k \in 1 .. n + 1 : WalkAt(s, n, k) => WalkAt(s, n, k)'
    BY <2>s, <2>2 DEF WalkAt, Linked
  <2> QED BY <2>s, <2>1, <2>3 DEF IInv, ListInv, InWalk
<1>3. IdsInv'
  BY DEF IInv, IdsInv, Alive
<1>4. ClockInv'
  BY DEF IInv, ClockInv, Alive, NowSec, Now
<1>5. PollsInTime'
  BY DEF IInv, PollsInTime
<1> QED BY <1>1, <1>2, <1>3, <1>4, <1>5 DEF IInv

---------------------------------------------------------------------------
(* The invariant.                                                          *)

LEMMA IInvInit == Init => IInv
<1> SUFFICES ASSUME Init
             PROVE  IInv
  OBVIOUS
<1>1. mem \in [{} -> Timer] /\ DOMAIN mem = {} /\ DOMAIN asked = {} /\ asked \in [{} -> Nat]
  BY EmptyFunction DEF Init
<1>2. Epoch \in Nat /\ Sec \in Nat /\ Epoch >= Sec /\ {MaxJumps, MaxTime, MaxId} \subseteq Nat
  BY AeTimersAssumption
<1>3. NowSec \in Nat
  <2>1. Now \in Nat
    BY <1>2 DEF Init, Now
  <2> QED BY <2>1, AeTimersAssumption, DivMod DEF NowSec
<1>4. TypeOK
  <2>1. asked \in [0 .. timeEventNextId - 1 -> Nat]
    <3>1. 0 .. timeEventNextId - 1 = {}
      BY DEF Init
    <3> QED BY <1>1, <3>1
  <2>2. DOMAIN mem \subseteq Nodes /\ mem \in [DOMAIN mem -> Timer]
    BY <1>1
  <2>3. /\ real \in 0 .. MaxTime /\ offset \in Int /\ Epoch + offset >= Sec
        /\ jumps \in 0 .. MaxJumps /\ timeEventNextId \in 0 .. MaxId /\ lastTime \in Nat
        /\ maxId \in -1 .. MaxId - 1 /\ id \in -1 .. MaxId - 1
    BY <1>2, <1>3 DEF Init
  <2> QED BY <2>1, <2>2, <2>3 DEF Init, TypeOK
<1>5. ListInv
  <2> DEFINE s == [i \in 1 .. 0 |-> NULL]
  <2>1. s \in [1 .. 0 -> Nodes] /\ Linked(s, 0)
    BY <1>1 DEF Init, Linked
  <2>2. ~InWalk /\ must = {} /\ 0 \in Nat
    BY DEF Init, InWalk
  <2> HIDE DEF s
  <2> QED BY <2>1, <2>2 DEF ListInv
<1>6. IdsInv
  BY <1>1 DEF Init, IdsInv
<1>7. ClockInv
  BY <1>1, <1>3 DEF Init, ClockInv
<1>8. PollsInTime
  BY DEF Init, PollsInTime
<1> QED BY <1>4, <1>5, <1>6, <1>7, <1>8 DEF IInv

LEMMA IInvStep == IInv /\ [Next]_vars => IInv'
<1> SUFFICES ASSUME IInv, [Next]_vars
             PROVE  IInv'
  OBVIOUS
<1>1. CASE \E ms \in Delays : Create(ms)
  BY <1>1, CreateStep
<1>2. CASE \E i \in 0 .. timeEventNextId - 1 : Delete(i)
  BY <1>2, DeleteStep
<1>3. CASE \E retval \in Delays \cup {AE_NOMORE} : Return(retval)
  BY <1>3, ReturnStep
<1>4. CASE \E j \in Jumps : SetClock(j)
  BY <1>4, SetClockStep
<1>5. CASE Poll \/ WakeUp \/ Walk \/ Unlink
  BY <1>5, PollStep, WakeUpStep, WalkStep, UnlinkStep
<1>6. CASE Skip \/ Call \/ WalkEnds \/ Tick
  BY <1>6, SkipStep, CallStep, WalkEndsStep, TickStep
<1>7. CASE UNCHANGED vars
  BY <1>7, IInvStutter
<1> QED BY <1>1, <1>2, <1>3, <1>4, <1>5, <1>6, <1>7 DEF Next

LEMMA IInvHolds == Spec => []IInv
BY IInvInit, IInvStep, PTL DEF Spec

---------------------------------------------------------------------------
(* What follows.                                                           *)

(* The layout of the list is one of the sequences that ListSound speaks of.*)
LEMMA LaidOut ==
    ASSUME TypeOK, NEW n \in Nat, NEW s \in [1 .. n -> Nodes], Linked(s, n)
    PROVE  s \in SetToSeqs(DOMAIN mem) /\ IsList(s)
<1>1. s \in [1 .. n -> DOMAIN mem]
  BY DEF Linked
<1>2. Cardinality(DOMAIN mem) = n
  <2> DEFINE D == DOMAIN mem
  <2>1. /\ s \in [1 .. n -> D]
        /\ \A a, b \in 1 .. n : s[a] = s[b] => a = b
        /\ \A m \in D : \E i \in 1 .. n : s[i] = m
    BY <1>1 DEF Linked
  <2> HIDE DEF D
  <2>2. s \in Bijection(1 .. n, D)
    BY <2>1, Fun_IsBij
  <2>3. ExistsBijection(1 .. n, D)
    BY <2>2, Fun_ExistsBij
  <2>4. Cardinality(D) = n
    BY <2>3, FS_CountingElements
  <2> QED BY <2>4 DEF D
<1>3. s \in SetToSeqs(DOMAIN mem)
  BY <1>1, <1>2 DEF SetToSeqs, Linked
<1>4. s \in Seq(Nodes) /\ Len(s) = n /\ DOMAIN s = 1 .. n
  <2>1. s \in Seq(Nodes) /\ DOMAIN s = 1 .. n
    OBVIOUS
  <2>2. Len(s) \in Nat /\ DOMAIN s = 1 .. Len(s)
    BY <2>1, LenProperties
  <2> DEFINE l == Len(s)
  <2>3. l \in Nat /\ 1 .. l = 1 .. n
    BY <2>1, <2>2
  <2> HIDE DEF l
  <2>4. l = n
    <3>1. ~(l < n)
      <4>1. n \in 1 .. n => n \in 1 .. l
        BY <2>3
      <4> QED BY <2>3, <4>1
    <3>2. ~(n < l)
      <4>1. l \in 1 .. l => l \in 1 .. n
        BY <2>3
      <4> QED BY <2>3, <4>1
    <3> QED BY <2>3, <3>1, <3>2
  <2> QED BY <2>1, <2>4 DEF l
<1>5. s = <<>> <=> n = 0
  BY <1>4, EmptySeq
<1>6. IsList(s)
  BY <1>4, <1>5 DEF IsList, Linked
<1> QED BY <1>3, <1>6

(* The types of the struct fields, of the loop's and of the walk's locals  *)
(* are kept by every step, of callbacks and of the loop (ae.c:203-334).    *)
THEOREM AeTimersTypeCorrect == Spec => []TypeOK
<1>1. IInv => TypeOK
  BY DEF IInv
<1> QED BY <1>1, IInvHolds, PTL

(* Whatever callbacks add to the list and delete from it while it is       *)
(* walked, it holds all that is allocated, once, and every timer that is   *)
(* asked for, and the walk's pointers are neighbours (ae.c:262-334).       *)
THEOREM ListStaysSound == Spec => []ListSound
<1>1. ASSUME IInv
      PROVE  ListSound
  <2>0. TypeOK
    BY <1>1 DEF IInv
  <2>n. PICK n \in Nat : \E s \in [1 .. n -> Nodes] :
           Linked(s, n) /\ (InWalk => \E k \in 1 .. n + 1 : WalkAt(s, n, k))
    BY <1>1 DEF IInv, ListInv
  <2>s. PICK s \in [1 .. n -> Nodes] :
           Linked(s, n) /\ (InWalk => \E k \in 1 .. n + 1 : WalkAt(s, n, k))
    BY <2>n
  <2>1. \E r \in SetToSeqs(DOMAIN mem) : IsList(r)
    BY <2>0, <2>s, LaidOut
  <2>2. {mem[m].id : m \in {l \in DOMAIN mem : Alive(l)}} = DOMAIN asked \ over
    <3>1. ASSUME NEW m \in DOMAIN mem, Alive(m)
          PROVE  mem[m].id \in DOMAIN asked \ over
      BY <1>1, <2>0, <3>1 DEF IInv, IdsInv, TypeOK, Timer, Alive
    <3>2. ASSUME NEW i \in DOMAIN asked \ over
          PROVE  \E m \in DOMAIN mem : Alive(m) /\ mem[m].id = i
      BY <1>1, <2>0 DEF IInv, IdsInv, TypeOK, Alive, AE_DELETED_EVENT_ID
    <3> QED BY <3>1, <3>2
  <2>3. ASSUME pc = "walk"
        PROVE  te = IF prev = NULL THEN timeEventHead ELSE mem[prev].next
    <3>1. PICK k \in 1 .. n + 1 : WalkAt(s, n, k)
      BY <2>s, <2>3 DEF InWalk
    <3>2. CASE k = 1
      BY <2>s, <2>3, <3>1, <3>2 DEF WalkAt, Linked
    <3>3. CASE k # 1
      <4>1. k - 1 \in 1 .. n /\ prev = s[k - 1] /\ prev # NULL
        BY <2>3, <3>1, <3>3, AeTimersAssumption DEF WalkAt
      <4>2. mem[prev].next = IF k - 1 = n THEN NULL ELSE s[k]
        BY <2>s, <4>1 DEF Linked
      <4> QED BY <3>1, <4>1, <4>2 DEF WalkAt
    <3> QED BY <3>2, <3>3
  <2> QED BY <2>0, <2>1, <2>2, <2>3 DEF ListSound
<1>2. IInv => ListSound
  BY <1>1
<1> QED BY <1>2, IInvHolds, PTL

(* No timer is missed: a poll outlasts none that is asked for, as long as  *)
(* the clock is not set; a pass ends with nothing left that it had to call *)
(* (ae.c:262-334 and 377-393).                                             *)
THEOREM TimersInTime == Spec => []InTime
<1>1. IInv => InTime
  BY DEF IInv, ListInv, InTime, InWalk
<1> QED BY <1>1, IInvHolds, PTL

(* Whenever a timer's proc is called, the timer was neither deleted nor    *)
(* did it return AE_NOMORE before, and with a clock that is never set its  *)
(* time has come, though the seconds and the milliseconds of it are added  *)
(* and compared apart (ae.c:189-201, 304-312).                             *)
THEOREM CalledOnlyWhenAsked == Spec => OnlyWhenAsked
<1>1. ASSUME IInv, Call
      PROVE  id' \notin over /\ (jumps = 0 => real >= asked[id'])
  <2>1. TypeOK /\ Alive(te) /\ Due(te) /\ id' = mem[te].id /\ pc = "walk" /\ te # NULL
    BY <1>1 DEF IInv, Call, Walking
  <2>n. PICK n \in Nat : \E s \in [1 .. n -> Nodes] :
           Linked(s, n) /\ \E k \in 1 .. n + 1 : WalkAt(s, n, k)
    BY <1>1, <2>1 DEF IInv, ListInv, InWalk
  <2>2. te \in DOMAIN mem
    BY <2>1, <2>n DEF WalkAt, Linked
  <2>3. id' \notin over
    BY <1>1, <2>1, <2>2 DEF IInv, IdsInv
  <2>4. ASSUME jumps = 0
        PROVE  real >= asked[id']
    <3>1. TimeOf(mem[te].when) <= Now /\ TimeOf(mem[te].when) = Epoch + asked[id']
      BY <1>1, <2>1, <2>2, <2>4, DueFromItsTime DEF IInv, ClockInv
    <3>2. Now = Epoch + real /\ Epoch \in Nat /\ real \in Nat
      BY <1>1, <2>1, <2>4, AeTimersAssumption DEF IInv, ClockInv, Now, TypeOK
    <3>3. asked[id'] \in Nat
      BY <2>1, <2>2 DEF TypeOK, Timer, Alive
    <3>4. Epoch + asked[id'] <= Epoch + real
      BY <3>1, <3>2
    <3> DEFINE a == asked[id']
    <3> HIDE DEF a
    <3>5. a \in Nat /\ Epoch + a <= Epoch + real
      BY <3>3, <3>4 DEF a
    <3>6. real >= a
      BY <3>2, <3>5
    <3> QED BY <3>6 DEF a
  <2> QED BY <2>3, <2>4
<1>2. IInv => [Call => id' \notin over /\ (jumps = 0 => real >= asked[id'])]_vars
  BY <1>1
<1> QED BY <1>2, IInvHolds, PTL DEF OnlyWhenAsked
=============================================================================
