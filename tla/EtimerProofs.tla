---------------------------- MODULE EtimerProofs ----------------------------
(***************************************************************************)
(* Proofs about Etimer, for any timers, intervals and adjustments, any     *)
(* width of the clock and any size of the event queue.                     *)
(*                                                                         *)
(* The age of a timer counts the ticks that have really passed since its   *)
(* start time, and is negative while that time is ahead of the clock.  As  *)
(* long as it is counted the start time is the clock less the age, modulo  *)
(* Wrap, and the unsigned comparisons of the code are comparisons of ages. *)
(***************************************************************************)
EXTENDS Etimer, SequenceTheorems, WellFoundedInduction, TLAPS

-----------------------------------------------------------------------------
(* Arithmetic of clock_time_t.                                             *)

\* One round away from the range of clock_time_t the modulus adds or
\* subtracts one Wrap.
LEMMA ModValue ==
  ASSUME NEW x \in Int
  PROVE  /\ Mod(x) \in 0 .. Far
         /\ x \in 0 .. Far => Mod(x) = x
         /\ x \in Wrap .. Wrap + Far => Mod(x) = x - Wrap
         /\ x \in -Wrap .. -1 => Mod(x) = x + Wrap
BY EtimerAssumption DEF Mod, Far

LEMMA ModCases ==
  ASSUME NEW x \in -Wrap .. Wrap + Far
  PROVE  Mod(x) = x \/ Mod(x) = x - Wrap \/ Mod(x) = x + Wrap
<1>1. /\ Wrap \in Nat \ {0} /\ Far = Wrap - 1 /\ x \in Int
      /\ x \in 0 .. Far \/ x \in Wrap .. Wrap + Far \/ x \in -Wrap .. -1
  BY EtimerAssumption DEF Far
<1> QED BY <1>1, ModValue

\* Counting on from a time that was itself wrapped around.
LEMMA ModShift ==
  ASSUME NEW x \in -Wrap .. Wrap + Far, NEW y \in Int, x + y \in -2 * Wrap .. 3 * Wrap
  PROVE  Mod(Mod(x) + y) = Mod(x + y)
<1> Wrap \in Nat \ {0} /\ Far = Wrap - 1
  BY EtimerAssumption DEF Far
<1>1. Mod(x) = x \/ Mod(x) = x - Wrap \/ Mod(x) = x + Wrap
  BY ModCases
<1>2. \A z \in -2 * Wrap .. 3 * Wrap : (z - Wrap) % Wrap = z % Wrap
  OBVIOUS
<1>3. \A z \in -2 * Wrap .. 3 * Wrap : (z + Wrap) % Wrap = z % Wrap
  OBVIOUS
<1>4. x + y \in -2 * Wrap .. 3 * Wrap
  OBVIOUS
<1>5. (x + y) - Wrap = (x - Wrap) + y /\ (x + y) + Wrap = (x + Wrap) + y
  OBVIOUS
<1> QED BY <1>1, <1>2, <1>3, <1>4, <1>5 DEF Mod

\* A set of naturals has a least element.
LEMMA MinFacts ==
  ASSUME NEW S, S \subseteq Nat, S # {}
  PROVE  Min(S) \in S /\ \A y \in S : Min(S) <= y
<1>1. PICK x \in S : \A y \in S : ~ (<<y, x>> \in OpToRel(<, Nat))
  BY NatLessThanWellFounded, WFMin
<1>2. \A y \in S : ~ (y < x)
  BY <1>1 DEF OpToRel
<1>3. \A y \in S : x <= y
  BY <1>2
<1> QED BY <1>3 DEF Min

-----------------------------------------------------------------------------
(* The list of timers.                                                     *)

\* A timer that is not on the list is linked in front.
LEMMA LinkInFront ==
  ASSUME NEW L \in Seq(Timers), NEW t \in Timers
  PROVE  /\ <<t>> \o L \in Seq(Timers)
         /\ ToSet(<<t>> \o L) = ToSet(L) \cup {t}
         /\ IsInjective(L) /\ t \notin ToSet(L) => IsInjective(<<t>> \o L)
<1> DEFINE M == <<t>> \o L
<1>1. /\ M \in Seq(Timers) /\ Len(M) = Len(L) + 1
      /\ M[1] = t /\ \A i \in 1 .. Len(L) : M[i + 1] = L[i]
  OBVIOUS
<1>2. \A i \in 1 .. Len(M) : i = 1 \/ (i - 1 \in 1 .. Len(L) /\ M[i] = L[i - 1])
  BY <1>1
<1> HIDE DEF M
<1>3. ToSet(M) = ToSet(L) \cup {t}
  <2>1. \A x \in ToSet(M) : x \in ToSet(L) \cup {t}
    BY <1>1, <1>2 DEF ToSet
  <2>2. \A x \in ToSet(L) : x \in ToSet(M)
    <3> SUFFICES ASSUME NEW i \in 1 .. Len(L) PROVE L[i] \in ToSet(M)
      BY DEF ToSet
    <3>1. i + 1 \in DOMAIN M /\ M[i + 1] = L[i]
      BY <1>1
    <3> QED BY <3>1 DEF ToSet
  <2>3. t \in ToSet(M)
    BY <1>1 DEF ToSet
  <2> QED BY <2>1, <2>2, <2>3
<1>4. ASSUME IsInjective(L), t \notin ToSet(L)
      PROVE  IsInjective(M)
  <2> SUFFICES ASSUME NEW i \in 1 .. Len(M), NEW j \in 1 .. Len(M), M[i] = M[j]
               PROVE  i = j
    BY <1>1 DEF IsInjective
  <2>1. \A k \in 1 .. Len(L) : L[k] # t
    BY <1>4 DEF ToSet
  <2>2. CASE i = 1 \/ j = 1
    BY <2>1, <2>2, <1>1, <1>2
  <2>3. CASE i # 1 /\ j # 1
    <3>1. L[i - 1] = L[j - 1] /\ i - 1 \in DOMAIN L /\ j - 1 \in DOMAIN L
      BY <2>3, <1>2
    <3>2. i - 1 = j - 1
      BY <3>1, <1>4 DEF IsInjective
    <3> QED BY <3>2
  <2> QED BY <2>2, <2>3
<1> QED BY <1>1, <1>3, <1>4 DEF M

\* Unlinking the element at a place leaves all the others.
LEMMA UnlinkAt ==
  ASSUME NEW L \in Seq(Timers), IsInjective(L), NEW i \in 1 .. Len(L)
  PROVE  /\ RemoveAt(L, i) \in Seq(Timers)
         /\ IsInjective(RemoveAt(L, i))
         /\ ToSet(RemoveAt(L, i)) = ToSet(L) \ {L[i]}
<1> DEFINE M == RemoveAt(L, i)
           old(k) == IF k < i THEN k ELSE k + 1
<1>1. /\ M \in Seq(Timers) /\ Len(M) = Len(L) - 1
      /\ \A k \in 1 .. Len(M) : M[k] = L[old(k)]
  <2> DEFINE a == SubSeq(L, 1, i - 1)
             b == SubSeq(L, i + 1, Len(L))
  <2>1. a \in Seq(Timers) /\ Len(a) = i - 1 /\ \A k \in 1 .. i - 1 : a[k] = L[k]
    OBVIOUS
  <2>2. b \in Seq(Timers) /\ Len(b) = Len(L) - i /\ \A k \in 1 .. Len(L) - i : b[k] = L[k + i]
    OBVIOUS
  <2> HIDE DEF a, b
  <2>3. /\ a \o b \in Seq(Timers) /\ Len(a \o b) = Len(L) - 1
        /\ \A k \in 1 .. Len(L) - 1 : (a \o b)[k] = IF k < i THEN a[k] ELSE b[k - (i - 1)]
    <3>1. Len(a) + Len(b) = Len(L) - 1
      BY <2>1, <2>2
    <3>2. /\ a \o b \in Seq(Timers) /\ Len(a \o b) = Len(a) + Len(b)
          /\ \A k \in 1 .. Len(a) + Len(b) :
               (a \o b)[k] = IF k <= Len(a) THEN a[k] ELSE b[k - Len(a)]
      BY <2>1, <2>2, ConcatProperties
    <3> QED BY <2>1, <3>1, <3>2
  <2>4. M = a \o b
    BY DEF RemoveAt, a, b
  <2>5. \A k \in 1 .. Len(L) - 1 : M[k] = L[old(k)]
    BY SMTT(30), <2>1, <2>2, <2>3, <2>4
  <2> QED BY <2>3, <2>4, <2>5
<1>2. \A k \in 1 .. Len(M) : old(k) \in 1 .. Len(L) /\ old(k) # i
  BY <1>1
<1>3. \A j \in 1 .. Len(L) : j # i => \E k \in 1 .. Len(M) : old(k) = j
  <2> SUFFICES ASSUME NEW j \in 1 .. Len(L), j # i
               PROVE  \E k \in 1 .. Len(M) : old(k) = j
    OBVIOUS
  <2>1. CASE j < i
    <3>1. j \in 1 .. Len(M) /\ old(j) = j  BY <2>1, <1>1
    <3> QED BY <3>1
  <2>2. CASE j > i
    <3>1. j - 1 \in 1 .. Len(M) /\ old(j - 1) = j  BY <2>2, <1>1
    <3> QED BY <3>1
  <2> QED BY <2>1, <2>2
<1>4. \A k, l \in 1 .. Len(M) : old(k) = old(l) => k = l
  BY <1>1
<1> HIDE DEF M, old
<1>5. IsInjective(M)
  BY <1>1, <1>2, <1>4 DEF IsInjective
<1>6. ToSet(M) = ToSet(L) \ {L[i]}
  <2>1. \A x \in ToSet(M) : x \in ToSet(L) /\ x # L[i]
    BY <1>1, <1>2 DEF ToSet, IsInjective
  <2>2. ASSUME NEW x \in ToSet(L), x # L[i]
        PROVE  x \in ToSet(M)
    <3>1. PICK j \in 1 .. Len(L) : L[j] = x
      BY DEF ToSet
    <3>2. PICK k \in 1 .. Len(M) : old(k) = j
      BY <3>1, <2>2, <1>3
    <3> QED BY <3>1, <3>2, <1>1 DEF ToSet
  <2> QED BY <2>1, <2>2
<1> QED BY <1>1, <1>5, <1>6 DEF M

\* The scan of etimer_process finds a timer of the list that has expired.
LEMMA FirstExpired ==
  ASSUME timerlist \in Seq(Timers), ExpiredOnList # {}
  PROVE  /\ SelectInSeq(timerlist, TimerExpired) \in 1 .. Len(timerlist)
         /\ TimerExpired(timerlist[SelectInSeq(timerlist, TimerExpired)])
<1> DEFINE I == {i \in 1 .. Len(timerlist) : TimerExpired(timerlist[i])}
<1>1. I \subseteq Nat /\ I # {}
  BY DEF ExpiredOnList, ToSet
<1>2. Min(I) \in I
  BY <1>1, MinFacts
<1> QED BY <1>1, <1>2 DEF SelectInSeq

\* Unlinking a timer leaves all the others.
LEMMA UnlinkTimer ==
  ASSUME NEW L \in Seq(Timers), IsInjective(L), NEW t
  PROVE  /\ RemoveFirst(L, t) \in Seq(Timers)
         /\ IsInjective(RemoveFirst(L, t))
         /\ ToSet(RemoveFirst(L, t)) = ToSet(L) \ {t}
         /\ t \notin ToSet(L) => RemoveFirst(L, t) = L
<1>1. CASE t \in ToSet(L)
  <2> DEFINE I == {i \in 1 .. Len(L) : L[i] = t}
  <2>1. I \subseteq Nat /\ I # {}
    BY <1>1 DEF ToSet
  <2>2. Min(I) \in I
    BY <2>1, MinFacts
  <2>3. RemoveFirst(L, t) = RemoveAt(L, Min(I))
    BY <2>1 DEF RemoveFirst, SelectInSeq
  <2> QED BY <1>1, <2>2, <2>3, UnlinkAt
<1>2. CASE t \notin ToSet(L)
  <2>1. RemoveFirst(L, t) = L
    BY <1>2 DEF RemoveFirst, ToSet
  <2> QED BY <1>2, <2>1
<1> QED BY <1>1, <1>2

-----------------------------------------------------------------------------
(* The inductive invariant.                                                *)

\* The timers as (the start times, the intervals, the ages) at a time now:
\* what the ages that are counted say about the start times.
Timed(st, iv, ag, now) ==
  /\ st \in [Timers -> 0 .. Far] /\ ag \in [Timers -> -Far .. Far]
  /\ iv \in [Timers -> Intervals \cup {0}]
  /\ \A t \in Timers : ag[t] < Far => st[t] = Mod(now - ag[t]) /\ iv[t] - ag[t] < Wrap

\* next is the first time one of the timers expires, if none is overdue.
First(L, st, iv, ag, now, next) ==
  (\A t \in ToSet(L) : ag[t] < iv[t]) /\ L /= <<>> =>
    /\ \E t \in ToSet(L) : next = Mod(st[t] + iv[t])
    /\ \A t \in ToSet(L) : Mod(next - now) <= iv[t] - ag[t]

TimedInv == Timed(start, interval, age, clock)

\* TimedInv is what keeps the comparisons right; PendingIsListed keeps
\* add_timer from linking a timer twice.
Inv ==
  /\ clock \in 0 .. Far /\ next_expiration \in 0 .. Far
  /\ timerlist \in Seq(Timers) /\ pending \in [Timers -> BOOLEAN]
  /\ polled \in BOOLEAN /\ scanning \in BOOLEAN
  /\ queue \in Seq(Timers \cup {OTHEREV}) /\ Len(queue) <= NumEvents
  /\ posts \in 0 .. MaxPosts
  /\ PendingIsListed
  /\ TimedInv
  /\ First(timerlist, start, interval, age, clock, next_expiration)

\* The bounds on the intervals.
LEMMA IntervalFacts ==
  /\ Wrap \in Nat \ {0} /\ Far \in Nat /\ Far = Wrap - 1
  /\ \A v \in Intervals : v \in Nat /\ v < Far
  /\ \A v \in Intervals \cup {0} : v \in Nat /\ v <= Far
BY EtimerAssumption DEF Far

\* timer_expired compares the age with the interval, and takes a start time
\* more than a tick ahead of the clock for one long past.
LEMMA ExpiredByAge ==
  ASSUME TimedInv, clock \in 0 .. Far, NEW t \in Timers, age[t] < Far
  PROVE  TimerExpired(t) <=> age[t] >= interval[t] \/ age[t] < -1
<1>1. /\ start[t] = Mod(clock - age[t]) /\ age[t] \in -Far .. Far /\ interval[t] \in Nat
      /\ interval[t] - age[t] < Wrap
  BY IntervalFacts DEF TimedInv, Timed
<1>2. Mod(clock - start[t] + 1) = Mod(age[t] + 1)
  <2>1. /\ start[t] \in 0 .. Far /\ (clock - age[t]) \in -Wrap .. Wrap + Far
        /\ clock - age[t] \in Int
    BY <1>1, IntervalFacts DEF TimedInv, Timed
  <2>2. \/ start[t] = clock - age[t] \/ start[t] = (clock - age[t]) - Wrap
        \/ start[t] = (clock - age[t]) + Wrap
    BY <1>1, <2>1, ModCases
  <2>3. CASE start[t] = clock - age[t]
    BY <1>1, <2>1, <2>3, IntervalFacts
  <2>4. CASE start[t] = (clock - age[t]) - Wrap
    <3>1. clock - start[t] + 1 = (age[t] + 1) + Wrap
      BY <1>1, <2>1, <2>4, IntervalFacts
    <3>2. \A z \in -Wrap .. Wrap : (z + Wrap) % Wrap = z % Wrap
      BY IntervalFacts
    <3>3. age[t] + 1 \in -Wrap .. Wrap
      BY <1>1, IntervalFacts
    <3> QED BY <3>1, <3>2, <3>3 DEF Mod
  <2>5. CASE start[t] = (clock - age[t]) + Wrap
    <3>1. clock - start[t] + 1 = (age[t] + 1) - Wrap
      BY <1>1, <2>1, <2>5, IntervalFacts
    <3>2. \A z \in -Wrap .. Wrap : (z - Wrap) % Wrap = z % Wrap
      BY IntervalFacts
    <3>3. age[t] + 1 \in -Wrap .. Wrap
      BY <1>1, IntervalFacts
    <3> QED BY <3>1, <3>2, <3>3 DEF Mod
  <2> QED BY <2>2, <2>3, <2>4, <2>5
<1>3. CASE age[t] >= -1
  <2>1. age[t] + 1 \in 0 .. Far /\ age[t] + 1 \in Int
    BY <1>1, <1>3, IntervalFacts
  <2>2. Mod(age[t] + 1) = age[t] + 1
    BY <2>1, ModValue
  <2> QED BY <1>1, <1>2, <1>3, <2>2 DEF TimerExpired
<1>4. CASE age[t] < -1
  <2>1. age[t] + 1 \in -Wrap .. -1 /\ age[t] + 1 \in Int
    BY <1>1, <1>4, IntervalFacts
  <2>2. Mod(age[t] + 1) = age[t] + 1 + Wrap
    BY <2>1, ModValue
  <2>3. interval[t] < age[t] + 1 + Wrap
    BY <1>1, IntervalFacts
  <2> QED BY <1>2, <1>4, <2>2, <2>3 DEF TimerExpired
<1> QED BY <1>1, <1>3, <1>4

\* The distance to the expiry of a timer that is a old and has an interval v
\* is what is left of the interval.
LEMMA Distance ==
  ASSUME clock \in 0 .. Far, NEW a \in -Far .. Far, NEW v \in 0 .. Far, v - a \in 0 .. Far
  PROVE  /\ Mod(Mod(clock - a) + v - clock) = v - a
         /\ Mod(clock + (v - a)) = Mod(Mod(clock - a) + v)
         /\ Mod(Mod(Mod(clock - a) + v) - clock) = v - a
<1> DEFINE s == Mod(clock - a)
<1>1. /\ clock - a \in -Wrap .. Wrap + Far /\ clock + (v - a) \in -Wrap .. Wrap + Far
      /\ v \in Int /\ v - clock \in Int /\ 0 - clock \in Int
      /\ (clock - a) + v \in -2 * Wrap .. 3 * Wrap
      /\ (clock - a) + (v - clock) \in -2 * Wrap .. 3 * Wrap
      /\ (clock + (v - a)) + (0 - clock) \in -2 * Wrap .. 3 * Wrap
      /\ v - a \in 0 .. Far /\ v - a \in Int /\ clock - a \in Int
  BY IntervalFacts
<1>2. s \in 0 .. Far
  BY <1>1, ModValue
<1>3. Mod(s + v) = Mod((clock - a) + v) /\ Mod(s + (v - clock)) = Mod((clock - a) + (v - clock))
  BY <1>1, ModShift
<1>4. Mod(Mod(clock + (v - a)) + (0 - clock)) = Mod((clock + (v - a)) + (0 - clock))
  BY <1>1, ModShift
<1> DEFINE e == Mod(clock + (v - a))
<1>5. e \in 0 .. Far
  BY <1>1, ModValue
<1> HIDE DEF s, e
<1>6. /\ s + (v - clock) = s + v - clock /\ (clock - a) + (v - clock) = v - a
      /\ (clock - a) + v = clock + (v - a) /\ (clock + (v - a)) + (0 - clock) = v - a
      /\ e + (0 - clock) = e - clock
  BY <1>1, <1>2, <1>5, IntervalFacts
<1>7. Mod(v - a) = v - a
  BY <1>1, ModValue
<1> QED BY <1>3, <1>4, <1>6, <1>7 DEF s, e

\* update_time: the distances are what is left of the delays, as long as none
\* is over, and the nearest one is the first expiry.
LEMMA UpdateIsFirst ==
  ASSUME NEW L \in Seq(Timers), NEW st, NEW iv, NEW ag, clock \in 0 .. Far,
         Timed(st, iv, ag, clock)
  PROVE  /\ UpdateTime(L, st, iv) \in 0 .. Far
         /\ First(L, st, iv, ag, clock, UpdateTime(L, st, iv))
<1>1. CASE L = <<>>
  BY <1>1, IntervalFacts DEF UpdateTime, First
<1>2. CASE L # <<>>
  <2> DEFINE left(t) == Mod(st[t] + iv[t] - clock)
             dist == {left(t) : t \in ToSet(L)}
  <2>1. ToSet(L) # {} /\ ToSet(L) \subseteq Timers
    <3>1. 1 \in DOMAIN L
      BY <1>2
    <3> QED BY <3>1 DEF ToSet
  <2>2. \A t \in ToSet(L) : left(t) \in 0 .. Far
    <3> SUFFICES ASSUME NEW t \in ToSet(L) PROVE left(t) \in 0 .. Far
      OBVIOUS
    <3>1. st[t] \in 0 .. Far /\ iv[t] \in Intervals \cup {0}
      BY <2>1 DEF Timed
    <3>2. st[t] + iv[t] - clock \in Int
      BY <3>1, IntervalFacts
    <3> QED BY <3>2, ModValue
  <2>3. dist \subseteq Nat /\ dist # {}
    BY <2>1, <2>2, IntervalFacts
  <2>4. Min(dist) \in dist /\ \A d \in dist : Min(dist) <= d
    BY <2>3, MinFacts
  <2>5. UpdateTime(L, st, iv) = Mod(clock + Min(dist))
    BY <1>2 DEF UpdateTime
  <2>6. UpdateTime(L, st, iv) \in 0 .. Far
    <3>1. clock + Min(dist) \in Int
      <4> HIDE DEF dist
      <4>1. Min(dist) \in Nat
        BY <2>3, <2>4, Zenon
      <4>2. clock \in Nat
        BY IntervalFacts
      <4> QED BY <4>1, <4>2
    <3> QED BY <3>1, <2>5, ModValue
  <2>7. ASSUME \A t \in ToSet(L) : ag[t] < iv[t]
        PROVE  /\ \E t \in ToSet(L) : UpdateTime(L, st, iv) = Mod(st[t] + iv[t])
               /\ \A t \in ToSet(L) : Mod(UpdateTime(L, st, iv) - clock) <= iv[t] - ag[t]
    <3>1. ASSUME NEW t \in ToSet(L)
          PROVE  left(t) = iv[t] - ag[t] /\ Mod(clock + left(t)) = Mod(st[t] + iv[t])
      <4>1. /\ st[t] = Mod(clock - ag[t]) /\ ag[t] \in -Far .. Far
            /\ iv[t] \in Nat /\ iv[t] <= Far /\ ag[t] < iv[t] /\ iv[t] - ag[t] < Wrap
        BY <2>1, <2>7, IntervalFacts DEF Timed
      <4>2. iv[t] \in 0 .. Far /\ iv[t] - ag[t] \in 0 .. Far
        BY <4>1, IntervalFacts
      <4>3. /\ Mod(Mod(clock - ag[t]) + iv[t] - clock) = iv[t] - ag[t]
            /\ Mod(clock + (iv[t] - ag[t])) = Mod(Mod(clock - ag[t]) + iv[t])
        BY <4>1, <4>2, Distance
      <4> QED BY <4>1, <4>3
    <3>2. \A t \in ToSet(L) : Min(dist) <= iv[t] - ag[t]
      BY <3>1, <2>4
    <3>3. PICK t \in ToSet(L) : Min(dist) = left(t)
      BY <2>4
    <3>4. Mod(Mod(clock + Min(dist)) - clock) = Min(dist)
      <4>1. Min(dist) \in 0 .. Far /\ Min(dist) - 0 \in 0 .. Far /\ Far \in Nat /\ 0 \in -Far .. Far
        BY <2>2, <3>3, IntervalFacts
      <4>2. clock - 0 = clock /\ Min(dist) - 0 = Min(dist) /\ Mod(clock) = clock
        BY <4>1, <2>3, <2>4, ModValue, IntervalFacts
      <4>3. Mod(Mod(Mod(clock - 0) + Min(dist)) - clock) = Min(dist) - 0
        BY <4>1, Distance
      <4> QED BY <4>2, <4>3
    <3> HIDE DEF left, dist
    <3> QED BY <3>1, <3>2, <3>3, <3>4, <2>5
  <2> QED BY <1>2, <2>6, <2>7 DEF First
<1> QED BY <1>1, <1>2

LEMMA InitInv == Init => Inv
<1> SUFFICES ASSUME Init PROVE Inv
  OBVIOUS
<1>1. ToSet(timerlist) = {} /\ timerlist \in Seq(Timers)
  BY DEF Init, ToSet
<1>2. PendingIsListed
  BY <1>1 DEF Init, PendingIsListed, IsInjective
<1>3. Timed(start, interval, age, clock)
  <2>1. 0 \in 0 .. Far /\ 0 \in -Far .. Far /\ 0 - 0 = 0 /\ 0 < Wrap /\ Mod(0) = 0
    BY IntervalFacts, ModValue
  <2> QED BY <1>1, <2>1 DEF Init, Timed
<1>4. First(timerlist, start, interval, age, clock, next_expiration)
  BY DEF Init, First
<1>5. /\ clock \in 0 .. Far /\ next_expiration \in 0 .. Far
      /\ posts \in 0 .. MaxPosts
  BY IntervalFacts, EtimerAssumption DEF Init
<1>6. queue \in Seq(Timers \cup {OTHEREV}) /\ Len(queue) <= NumEvents
  BY EtimerAssumption DEF Init
<1> QED BY <1>1, <1>2, <1>3, <1>4, <1>5, <1>6 DEF Init, Inv, TimedInv

\* add_timer, once the start time and the interval of the timer are set.
LEMMA AddTimerInv ==
  ASSUME Inv, NEW t \in Timers, AddTimer(t), UNCHANGED <<clock, scanning, queue, posts>>,
         Timed(start', interval', age', clock)
  PROVE  Inv'
<1> USE DEF Inv, TimedInv
<1>1. /\ timerlist' \in Seq(Timers) /\ IsInjective(timerlist')
      /\ ToSet(timerlist') = ToSet(timerlist) \cup {t}
  <2>1. CASE pending[t]
    <3>1. t \in ToSet(timerlist) /\ timerlist' = timerlist
      BY <2>1 DEF PendingIsListed, AddTimer
    <3> QED BY <3>1 DEF PendingIsListed
  <2>2. CASE ~pending[t]
    <3>1. t \notin ToSet(timerlist) /\ timerlist' = <<t>> \o timerlist
      BY <2>2 DEF PendingIsListed, AddTimer
    <3> QED BY <3>1, LinkInFront DEF PendingIsListed
  <2> QED BY <2>1, <2>2
<1>2. pending' \in [Timers -> BOOLEAN] /\ polled' \in BOOLEAN
  BY DEF AddTimer
<1>3. PendingIsListed'
  BY <1>1 DEF PendingIsListed, AddTimer
<1>4. Timed(start', interval', age', clock)
  BY <1>1 DEF Timed
<1>5. /\ next_expiration' \in 0 .. Far
      /\ First(timerlist', start', interval', age', clock, next_expiration')
  BY <1>1, <1>4, UpdateIsFirst DEF AddTimer
<1> QED BY <1>1, <1>2, <1>3, <1>4, <1>5

\* etimer_set and etimer_restart: the timer starts now.
LEMMA StartsNow ==
  ASSUME Inv, NEW t \in Timers, NEW v \in Intervals \cup {0},
         interval' = [interval EXCEPT ![t] = v], start' = [start EXCEPT ![t] = clock],
         age' = [age EXCEPT ![t] = 0]
  PROVE  Timed(start', interval', age', clock)
<1>1. 0 \in -Far .. Far /\ clock \in 0 .. Far /\ v - 0 < Wrap /\ clock - 0 = clock
  BY IntervalFacts DEF Inv
<1>2. clock = Mod(clock - 0)
  BY <1>1, ModValue
<1> QED BY <1>1, <1>2 DEF Inv, TimedInv, Timed

\* Moving the start time of a timer moves its age the other way, as long as it
\* is counted.
LEMMA MovedAge ==
  ASSUME Inv, NEW t \in Timers, NEW d \in Int
  PROVE  /\ Moved(t, d) \in -Far .. Far
         /\ Moved(t, d) < Far => /\ Mod(start[t] + d) = Mod(clock - Moved(t, d))
                                 /\ interval[t] - Moved(t, d) < Wrap
<1>1. /\ age[t] \in -Far .. Far /\ clock \in 0 .. Far /\ start[t] \in 0 .. Far
      /\ interval[t] \in Nat /\ interval[t] <= Far
      /\ age[t] < Far => start[t] = Mod(clock - age[t])
  BY IntervalFacts DEF Inv, TimedInv, Timed
<1>2. CASE Moved(t, d) = Far
  BY <1>2, IntervalFacts
<1>3. CASE Moved(t, d) # Far
  <2>1. /\ age[t] < Far /\ age[t] - d < Far /\ interval[t] - (age[t] - d) < Wrap
        /\ Moved(t, d) = age[t] - d
    BY <1>1, <1>3, IntervalFacts DEF Moved
  <2>2. age[t] - d \in -Far .. Far
    BY <1>1, <2>1, IntervalFacts
  <2>3. /\ clock - age[t] \in -Wrap .. Wrap + Far /\ (clock - age[t]) + d = clock - (age[t] - d)
        /\ (clock - age[t]) + d \in -2 * Wrap .. 3 * Wrap
    BY <1>1, <2>2, IntervalFacts
  <2>4. Mod(Mod(clock - age[t]) + d) = Mod((clock - age[t]) + d)
    BY <2>3, ModShift
  <2> QED BY <1>1, <2>1, <2>2, <2>3, <2>4
<1> QED BY <1>2, <1>3

\* timer_reset and etimer_adjust: the start time moves on by d.
LEMMA StartMoves ==
  ASSUME Inv, NEW t \in Timers, NEW d \in Int,
         UNCHANGED interval, start' = [start EXCEPT ![t] = Mod(@ + d)],
         age' = [age EXCEPT ![t] = Moved(t, d)]
  PROVE  Timed(start', interval', age', clock)
<1>1. start \in [Timers -> 0 .. Far] /\ age \in [Timers -> -Far .. Far]
  BY DEF Inv, TimedInv, Timed
<1>2. start'[t] = Mod(start[t] + d) /\ age'[t] = Moved(t, d)
  BY <1>1
<1>3. start'[t] \in 0 .. Far
  <2>1. start[t] + d \in Int
    BY <1>1, IntervalFacts
  <2> QED BY <1>2, <2>1, ModValue
<1>4. /\ age'[t] \in -Far .. Far
      /\ age'[t] < Far => start'[t] = Mod(clock - age'[t]) /\ interval[t] - age'[t] < Wrap
  BY <1>2, MovedAge
<1>5. \A u \in Timers : u # t => start'[u] = start[u] /\ age'[u] = age[u]
  BY <1>1
<1>6. start' \in [Timers -> 0 .. Far] /\ age' \in [Timers -> -Far .. Far]
  BY <1>1, <1>3, <1>4
<1>7. ASSUME NEW u \in Timers, age'[u] < Far
      PROVE  start'[u] = Mod(clock - age'[u]) /\ interval'[u] - age'[u] < Wrap
  <2>1. CASE u = t
    BY <1>4, <1>7, <2>1
  <2>2. CASE u # t
    BY <1>5, <1>7, <2>2 DEF Inv, TimedInv, Timed
  <2> QED BY <2>1, <2>2
<1>8. interval' \in [Timers -> Intervals \cup {0}]
  BY DEF Inv, TimedInv, Timed
<1> QED BY <1>6, <1>7, <1>8 DEF Timed

-----------------------------------------------------------------------------
(* The steps.                                                              *)

LEMMA SetInv ==
  ASSUME Inv, NEW t \in Timers, NEW v \in Intervals, EtimerSet(t, v)
  PROVE  Inv'
BY StartsNow, AddTimerInv DEF EtimerSet

LEMMA RestartInv ==
  ASSUME Inv, NEW t \in Timers, EtimerRestart(t)
  PROVE  Inv'
<1>1. interval[t] \in Intervals \cup {0} /\ interval' = [interval EXCEPT ![t] = interval[t]]
  BY DEF EtimerRestart, Inv, TimedInv, Timed
<1> QED BY <1>1, StartsNow, AddTimerInv DEF EtimerRestart

LEMMA ResetInv ==
  ASSUME Inv, NEW t \in Timers, EtimerReset(t)
  PROVE  Inv'
<1>1. interval[t] \in Int
  BY IntervalFacts DEF Inv, TimedInv, Timed
<1>2. Timed(start', interval', age', clock)
  BY <1>1, StartMoves DEF EtimerReset, Reset
<1> QED BY <1>2, AddTimerInv DEF EtimerReset, Reset

LEMMA AdjustInv ==
  ASSUME Inv, NEW t \in Timers, NEW d \in Adjustments, EtimerAdjust(t, d)
  PROVE  Inv'
<1>1. d \in Int
  BY EtimerAssumption
<1>3. Timed(start', interval', age', clock)
  BY <1>1, StartMoves DEF EtimerAdjust
<1>4. /\ next_expiration' \in 0 .. Far
      /\ First(timerlist', start', interval', age', clock, next_expiration')
  BY <1>3, UpdateIsFirst DEF EtimerAdjust, Inv
<1> QED BY <1>3, <1>4 DEF EtimerAdjust, Inv, TimedInv, PendingIsListed

\* A timer leaves the list: etimer_stop, and the scan.
LEMMA LeaveInv ==
  ASSUME Inv, NEW t \in Timers,
         timerlist' \in Seq(Timers), IsInjective(timerlist'),
         ToSet(timerlist') = ToSet(timerlist) \ {t},
         pending' = [pending EXCEPT ![t] = FALSE],
         next_expiration' = UpdateTime(timerlist', start, interval)
           \/ (timerlist' = timerlist /\ next_expiration' = next_expiration),
         queue' \in Seq(Timers \cup {OTHEREV}), Len(queue') <= NumEvents,
         UNCHANGED <<clock, start, interval, polled, scanning, posts, age>>
  PROVE  Inv'
<1>1. PendingIsListed'
  BY DEF Inv, PendingIsListed
<1>2. Timed(start', interval', age', clock)
  BY DEF Inv, TimedInv, Timed
<1>3. /\ next_expiration' \in 0 .. Far
      /\ First(timerlist', start', interval', age', clock, next_expiration')
  BY <1>2, UpdateIsFirst DEF Inv
<1>4. pending' \in [Timers -> BOOLEAN]
  BY DEF Inv
<1> QED BY <1>1, <1>2, <1>3, <1>4 DEF Inv, TimedInv

LEMMA StopInv ==
  ASSUME Inv, NEW t \in Timers, EtimerStop(t)
  PROVE  Inv'
<1>1. /\ timerlist' \in Seq(Timers) /\ IsInjective(timerlist')
      /\ ToSet(timerlist') = ToSet(timerlist) \ {t}
      /\ t \notin ToSet(timerlist) => timerlist' = timerlist
  BY UnlinkTimer DEF Inv, PendingIsListed, EtimerStop
<1>2. next_expiration' = UpdateTime(timerlist', start, interval)
        \/ (timerlist' = timerlist /\ next_expiration' = next_expiration)
  <2>1. CASE t \in ToSet(timerlist)
    BY <2>1 DEF EtimerStop
  <2>2. CASE t \notin ToSet(timerlist)
    BY <1>1, <2>2 DEF EtimerStop
  <2> QED BY <2>1, <2>2
<1>3. queue' \in Seq(Timers \cup {OTHEREV}) /\ Len(queue') <= NumEvents
  BY DEF EtimerStop, Inv
<1> QED BY <1>1, <1>2, <1>3, LeaveInv DEF EtimerStop

\* One turn of the scan: the timer it takes is on the list and has expired.
LEMMA ScanTakes ==
  ASSUME Inv, ScanPost
  PROVE  \E t \in Timers :
           /\ t \in ToSet(timerlist) /\ (age[t] >= interval[t] \/ age[t] < -1)
           /\ queue' = Append(queue, t)
           /\ pending' = [pending EXCEPT ![t] = FALSE]
           /\ timerlist' \in Seq(Timers) /\ IsInjective(timerlist')
           /\ ToSet(timerlist') = ToSet(timerlist) \ {t}
           /\ next_expiration' = UpdateTime(timerlist', start, interval)
<1> DEFINE i == SelectInSeq(timerlist, TimerExpired)
           t == timerlist[i]
<1>1. i \in 1 .. Len(timerlist) /\ TimerExpired(t)
  BY FirstExpired DEF Inv, ScanPost
<1>2. t \in Timers /\ t \in ToSet(timerlist)
  BY <1>1 DEF ToSet, Inv
<1>3. age[t] >= interval[t] \/ age[t] < -1
  <2>1. CASE age[t] < Far
    BY <1>1, <1>2, <2>1, ExpiredByAge DEF Inv
  <2>2. CASE ~(age[t] < Far)
    <3> HIDE DEF t
    <3>1. age[t] \in -Far .. Far /\ interval[t] \in Nat /\ interval[t] <= Far
      BY <1>2, IntervalFacts DEF Inv, TimedInv, Timed
    <3> QED BY <2>2, <3>1, IntervalFacts
  <2> QED BY <2>1, <2>2
<1>4. /\ queue' = Append(queue, t) /\ pending' = [pending EXCEPT ![t] = FALSE]
      /\ timerlist' = RemoveAt(timerlist, i)
      /\ next_expiration' = UpdateTime(timerlist', start, interval)
  BY DEF ScanPost
<1> HIDE DEF i
<1>5. /\ timerlist' \in Seq(Timers) /\ IsInjective(timerlist')
      /\ ToSet(timerlist') = ToSet(timerlist) \ {t}
  BY <1>1, <1>4, UnlinkAt DEF Inv, PendingIsListed
<1> QED BY <1>2, <1>3, <1>4, <1>5

LEMMA ScanInv ==
  ASSUME Inv, ScanPost
  PROVE  Inv'
<1>1. PICK t \in Timers :
           /\ queue' = Append(queue, t)
           /\ pending' = [pending EXCEPT ![t] = FALSE]
           /\ timerlist' \in Seq(Timers) /\ IsInjective(timerlist')
           /\ ToSet(timerlist') = ToSet(timerlist) \ {t}
           /\ next_expiration' = UpdateTime(timerlist', start, interval)
  BY ScanTakes
<1>2. queue' \in Seq(Timers \cup {OTHEREV}) /\ Len(queue') <= NumEvents
  <2>1. queue \in Seq(Timers \cup {OTHEREV}) /\ Len(queue) \in Nat /\ Len(queue) < NumEvents
    BY EtimerAssumption DEF Inv, ScanPost
  <2> QED BY <1>1, <2>1, EtimerAssumption
<1>3. UNCHANGED <<clock, start, interval, polled, scanning, posts, age>>
  BY DEF ScanPost
<1>4. next_expiration' = UpdateTime(timerlist', start, interval)
        \/ (timerlist' = timerlist /\ next_expiration' = next_expiration)
  BY <1>1
<1>5. /\ timerlist' \in Seq(Timers) /\ IsInjective(timerlist')
      /\ ToSet(timerlist') = ToSet(timerlist) \ {t}
      /\ pending' = [pending EXCEPT ![t] = FALSE]
  BY <1>1
<1> QED BY <1>2, <1>3, <1>4, <1>5, LeaveInv

\* A tick makes every timer one tick older, so that the start times stay
\* right while the clock moves.
LEMMA TickInv ==
  ASSUME Inv, Tick
  PROVE  Inv'
<1>1. /\ clock \in 0 .. Far /\ clock' \in 0 .. Far /\ clock' = Mod(clock + 1)
      /\ age' = [t \in Timers |-> IF age[t] < Far THEN age[t] + 1 ELSE Far]
      /\ UNCHANGED timers
  BY ModValue, IntervalFacts DEF Inv, Tick
<1>2. age' \in [Timers -> -Far .. Far]
  <2>1. age \in [Timers -> -Far .. Far]
    BY DEF Inv, TimedInv, Timed
  <2> QED BY <1>1, <2>1, IntervalFacts
<1>3. ASSUME NEW t \in Timers, age'[t] < Far
      PROVE  start'[t] = Mod(clock' - age'[t]) /\ interval'[t] - age'[t] < Wrap
  <2>1. /\ age[t] \in -Far .. Far /\ age[t] < Far /\ age'[t] = age[t] + 1
        /\ start[t] = Mod(clock - age[t]) /\ interval[t] \in Nat /\ interval[t] - age[t] < Wrap
    BY <1>1, <1>3, IntervalFacts DEF Inv, TimedInv, Timed
  <2>2. /\ clock + 1 \in -Wrap .. Wrap + Far /\ 0 - (age[t] + 1) \in Int
        /\ (clock + 1) + (0 - (age[t] + 1)) \in -2 * Wrap .. 3 * Wrap
    BY <1>1, <2>1, IntervalFacts
  <2>3. Mod(Mod(clock + 1) + (0 - (age[t] + 1))) = Mod((clock + 1) + (0 - (age[t] + 1)))
    BY <2>2, ModShift
  <2>4. /\ Mod(clock + 1) + (0 - (age[t] + 1)) = clock' - age'[t]
        /\ (clock + 1) + (0 - (age[t] + 1)) = clock - age[t]
    BY <1>1, <2>1, IntervalFacts
  <2>5. interval[t] - age'[t] < Wrap
    BY <2>1, IntervalFacts
  <2> QED BY <1>1, <2>1, <2>3, <2>4, <2>5 DEF timers
<1>4. ASSUME NEW t \in ToSet(timerlist), age'[t] < interval[t]
      PROVE  /\ t \in Timers /\ interval[t] \in Nat /\ interval[t] <= Far
             /\ age[t] \in -Far .. Far /\ age[t] < Far /\ age'[t] = age[t] + 1
             /\ start[t] = Mod(clock - age[t]) /\ interval[t] - age[t] < Wrap
  <2>1. t \in Timers
    BY DEF Inv, ToSet
  <2>2. /\ interval[t] \in Nat /\ interval[t] <= Far /\ age[t] \in -Far .. Far
        /\ age[t] < Far => start[t] = Mod(clock - age[t]) /\ interval[t] - age[t] < Wrap
    BY <2>1, IntervalFacts DEF Inv, TimedInv, Timed
  <2>3. age'[t] = IF age[t] < Far THEN age[t] + 1 ELSE Far
    BY <1>1, <2>1
  <2> QED BY <1>4, <2>1, <2>2, <2>3, IntervalFacts
<1>5. TimedInv'
  BY <1>1, <1>2, <1>3 DEF Inv, TimedInv, Timed, timers
<1>6. First(timerlist', start', interval', age', clock', next_expiration')
  <2> SUFFICES ASSUME \A t \in ToSet(timerlist) : age'[t] < interval[t], timerlist # <<>>
               PROVE  /\ \E t \in ToSet(timerlist) : next_expiration = Mod(start[t] + interval[t])
                      /\ \A t \in ToSet(timerlist) : Mod(next_expiration - clock') <= interval[t] - age'[t]
    BY <1>1 DEF First, timers
  <2>1. \A t \in ToSet(timerlist) : /\ interval[t] \in Nat /\ age[t] \in Int
                                    /\ age'[t] = age[t] + 1
    BY <1>4, IntervalFacts
  <2>2. /\ \E t \in ToSet(timerlist) : next_expiration = Mod(start[t] + interval[t])
        /\ \A t \in ToSet(timerlist) : Mod(next_expiration - clock) <= interval[t] - age[t]
    BY <2>1 DEF Inv, First
  <2>3. Mod(next_expiration - clock) \in 1 .. Far
    <3>1. PICK t \in ToSet(timerlist) : next_expiration = Mod(start[t] + interval[t])
      BY <2>2
    <3>2. /\ start[t] = Mod(clock - age[t]) /\ age[t] \in -Far .. Far
          /\ interval[t] \in Nat /\ interval[t] <= Far /\ age[t] + 1 < interval[t]
          /\ interval[t] - age[t] < Wrap
      BY <2>1, <1>4
    <3>3. /\ interval[t] \in 0 .. Far /\ interval[t] - age[t] \in 1 .. Far
          /\ interval[t] - age[t] \in 0 .. Far
      BY <3>2, IntervalFacts
    <3>4. Mod(next_expiration - clock) = interval[t] - age[t]
      <4>1. Mod(Mod(Mod(clock - age[t]) + interval[t]) - clock) = interval[t] - age[t]
        BY <1>1, <3>2, <3>3, Distance
      <4> QED BY <3>1, <3>2, <4>1, Zenon
    <3> QED BY <3>3, <3>4
  <2>4. Mod(next_expiration - clock') = Mod(next_expiration - clock) - 1
    <3> DEFINE n == next_expiration
               m == Mod(n - clock)
    <3>1. /\ n \in 0 .. Far /\ n - clock \in -Wrap .. Wrap + Far /\ -1 \in Int
          /\ (n - clock) + (-1) \in -2 * Wrap .. 3 * Wrap
      BY SMTT(30), <1>1, IntervalFacts DEF Inv
    <3>2. Mod(m + (-1)) = Mod((n - clock) + (-1))
      BY <3>1, ModShift
    <3>3. m - 1 \in 0 .. Far /\ m + (-1) = m - 1
      BY <2>3, IntervalFacts
    <3>4. Mod((n - clock) + (-1)) = Mod(n - clock')
      <4>1. CASE clock < Far
        <5>1. clock' = clock + 1
          BY <1>1, <4>1, ModValue, IntervalFacts
        <5>2. (n - clock) + (-1) = n - clock'
          BY <1>1, <3>1, <5>1, IntervalFacts
        <5> QED BY <5>2
      <4>2. CASE clock = Far
        <5>1. clock' = 0 /\ (n - clock) + (-1) = n - Wrap /\ n - Wrap \in -Wrap .. -1 /\ n - Wrap \in Int
          BY <1>1, <3>1, <4>2, ModValue, IntervalFacts
        <5>2. Mod(n - Wrap) = n /\ Mod(n) = n /\ n - clock' = n
          BY <3>1, <5>1, ModValue, IntervalFacts
        <5> QED BY <5>1, <5>2
      <4> QED BY <1>1, <4>1, <4>2, IntervalFacts
    <3>5. Mod(m - 1) = m - 1
      BY <3>3, ModValue
    <3> HIDE DEF n, m
    <3>6. Mod(n - clock') = m - 1
      BY <3>2, <3>3, <3>4, <3>5
    <3> QED BY <3>6 DEF n, m
  <2> QED BY <2>1, <2>2, <2>3, <2>4
<1> QED BY <1>1, <1>5, <1>6 DEF Inv, Tick, timers, PendingIsListed

LEMMA StepInv ==
  ASSUME Inv, [Next]_vars
  PROVE  Inv'
<1>1. CASE \E t \in Timers, v \in Intervals : EtimerSet(t, v)
  BY <1>1, SetInv
<1>2. CASE \E t \in Timers : EtimerReset(t)
  BY <1>2, ResetInv
<1>3. CASE \E t \in Timers : EtimerRestart(t)
  BY <1>3, RestartInv
<1>4. CASE \E t \in Timers, d \in Adjustments : EtimerAdjust(t, d)
  BY <1>4, AdjustInv
<1>5. CASE \E t \in Timers : EtimerStop(t)
  BY <1>5, StopInv
<1>6. CASE Poll
  BY <1>6 DEF Poll, timers, Inv, TimedInv, PendingIsListed
<1>7. CASE ScanPost
  BY <1>7, ScanInv
<1>8. CASE ScanEnd
  BY <1>8 DEF ScanEnd, timers, Inv, TimedInv, PendingIsListed
<1>9. CASE Deliver
  <2>1. queue' \in Seq(Timers \cup {OTHEREV}) /\ Len(queue') <= NumEvents
    <3>1. /\ queue \in Seq(Timers \cup {OTHEREV}) /\ queue # <<>>
          /\ Len(queue) <= NumEvents /\ NumEvents \in Nat /\ queue' = Tail(queue)
      BY <1>9, EtimerAssumption DEF Deliver, Inv
    <3> QED BY <3>1
  <2> QED BY <1>9, <2>1 DEF Deliver, timers, Inv, TimedInv, PendingIsListed
<1>10. CASE Tick
  BY <1>10, TickInv
<1>11. CASE IsrPost
  <2>1. queue' \in Seq(Timers \cup {OTHEREV}) /\ Len(queue') <= NumEvents
    <3>1. /\ queue \in Seq(Timers \cup {OTHEREV}) /\ Len(queue) < NumEvents
          /\ NumEvents \in Nat /\ queue' = Append(queue, OTHEREV)
      BY <1>11, EtimerAssumption DEF IsrPost, Inv
    <3> QED BY <3>1
  <2>2. posts' \in 0 .. MaxPosts
    BY <1>11, EtimerAssumption DEF IsrPost, Inv
  <2> QED BY <1>11, <2>1, <2>2 DEF IsrPost, timers, Inv, TimedInv, PendingIsListed
<1>12. CASE UNCHANGED vars
  BY <1>12 DEF vars, Inv, TimedInv, PendingIsListed
<1> QED BY <1>1, <1>2, <1>3, <1>4, <1>5, <1>6, <1>7, <1>8, <1>9, <1>10, <1>11, <1>12
        DEF Next, Kernel

-----------------------------------------------------------------------------
(* The theorems.                                                           *)

\* The inductive invariant: while the age of a timer is counted its start time
\* tells the age, whatever was set, reset, adjusted or posted.
THEOREM InvHolds == Spec => []Inv
<1>1. Inv /\ [Next]_vars => Inv'
  BY StepInv
<1> QED BY InitInv, <1>1, PTL DEF Spec

\* Every variable of etimer.c and timer.c keeps its shape: start times and
\* next_expiration stay in clock_time_t and the queue within its places.
THEOREM TypeCorrect == Spec => []TypeOK
<1>1. Inv => TypeOK
  BY IntervalFacts DEF Inv, TypeOK, TimedInv, Timed
<1> QED BY <1>1, InvHolds, PTL

\* A timer is linked once, and exactly while its process field is set.
THEOREM ListedOnce == Spec => []PendingIsListed
<1>1. Inv => PendingIsListed
  BY DEF Inv
<1> QED BY <1>1, InvHolds, PTL

\* timer_expired is exact for the timers on the list, however often the clock
\* has wrapped, but for those reset so early that they start more than a tick
\* ahead of it, which it takes for expired.
THEOREM ExpiryExact == Spec => []ExpiryIsExact
<1>1. Inv => ExpiryIsExact
  <2> SUFFICES ASSUME Inv, NEW t \in ToSet(timerlist), age[t] < Far
               PROVE  TimerExpired(t) <=> age[t] >= interval[t] \/ age[t] < -1
    BY DEF ExpiryIsExact
  <2>1. t \in Timers
    BY DEF Inv, ToSet
  <2> QED BY <2>1, ExpiredByAge DEF Inv
<1> QED BY <1>1, InvHolds, PTL

\* While no timer is overdue next_expiration is the time of the first expiry.
THEOREM FirstExpiration == Spec => []NextExpirationIsFirst
<1>1. Inv => NextExpirationIsFirst
  BY DEF Inv, First, NextExpirationIsFirst
<1> QED BY <1>1, InvHolds, PTL

\* etimer_process takes a timer off its list only with its event in the queue,
\* and only when its interval has passed or its start time is ahead of the
\* clock.
THEOREM PostedExpired == Spec => PostedWhenExpired
<1> DEFINE Posted == \A t \in Timers : scanning /\ pending[t] /\ ~pending'[t] =>
                        /\ age[t] >= interval[t] \/ age[t] < -1
                        /\ queue' = Append(queue, t)
<1>1. Inv /\ [Next]_vars => [Posted]_vars
  <2> SUFFICES ASSUME Inv, Next, NEW t \in Timers, scanning, pending[t], ~pending'[t]
               PROVE  /\ age[t] >= interval[t] \/ age[t] < -1
                      /\ queue' = Append(queue, t)
    OBVIOUS
  <2>1. CASE ScanPost
    BY <2>1, ScanTakes DEF Inv
  <2>2. CASE ~ScanPost
    BY <2>2 DEF Next, Kernel, EtimerSet, EtimerReset, EtimerRestart, EtimerAdjust,
                EtimerStop, Poll, ScanEnd, Deliver, Tick, IsrPost, timers
  <2> QED BY <2>1, <2>2
<1> QED BY <1>1, InvHolds, PTL DEF Spec, PostedWhenExpired

=============================================================================
