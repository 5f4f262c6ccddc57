------------------------- MODULE TimerServerProofs -------------------------
(***************************************************************************)
(* Proofs about TimerServer, for any timers and delays and without a bound *)
(* on the time: the list of deltas stays a list, the next alarm stays      *)
(* ahead of the tick counter, no timer is late, the handler calls all the  *)
(* timers that have expired, and a call on one timer leaves the others     *)
(* where they were but for the rounding of the deltas.                     *)
(*                                                                         *)
(* The proofs follow the deltas through absolute times: at[t] is the tick  *)
(* the deltas of the list promise for the timer t.  An operation on the    *)
(* list moves at[t] of one timer, or those of all the timers together.     *)
(* For what a call does to the others, the deltas are followed a second    *)
(* time through the plans of Plan, which count the tick each load takes.   *)
(***************************************************************************)
EXTENDS TimerServer, FiniteSetTheorems, WellFoundedInduction, TLAPS

-----------------------------------------------------------------------------
(* Numbers.                                                                *)

\* A set of naturals has a least element.
LEMMA Least ==
  ASSUME NEW S, S \subseteq Nat, S # {}
  PROVE  \E x \in S : \A y \in S : x <= y
<1>1. PICK x \in S : \A y \in S : ~ (<<y, x>> \in OpToRel(<, Nat))
  BY NatLessThanWellFounded, WFMin
<1>2. \A y \in S : ~ (y < x)
  BY <1>1 DEF OpToRel
<1> QED BY <1>2

LEMMA MinFacts ==
  ASSUME NEW S, S \subseteq Nat, S # {}
  PROVE  Min(S) \in S /\ \A y \in S : Min(S) <= y
<1>1. \E x \in S : \A y \in S : x <= y
  BY Least
<1> QED BY <1>1 DEF Min

\* The function that Totals defines exists: up to each place there is one.
LEMMA TotalsExist ==
  ASSUME NEW n \in Nat, NEW first \in Int, NEW d \in [1 .. n -> Int]
  PROVE  \E f : f = [i \in 1 .. n |-> IF i = 1 THEN first ELSE f[i - 1] + d[i]]
<1> DEFINE Upto(k) == \E f \in [1 .. k -> Int] :
                        \A i \in 1 .. k : f[i] = IF i = 1 THEN first ELSE f[i - 1] + d[i]
           Bad == {k \in 0 .. n : ~Upto(k)}
<1>1. Bad = {}
  <2> SUFFICES ASSUME Bad # {} PROVE FALSE
    OBVIOUS
  <2>1. PICK k \in Bad : \A j \in Bad : k <= j
    <3>1. Bad \subseteq Nat  OBVIOUS
    <3> HIDE DEF Bad
    <3> QED BY <3>1, Least
  <2>2. Upto(0)
    <3>1. <<>> \in [1 .. 0 -> Int] /\ 1 .. 0 = {}
      OBVIOUS
    <3> QED BY <3>1
  <2>3. k # 0 /\ k - 1 \in 0 .. n /\ Upto(k - 1)
    <3> HIDE DEF Upto
    <3>1. k \in 0 .. n /\ k # 0
      BY <2>2
    <3>2. k - 1 \in 0 .. n /\ ~(k <= k - 1)
      BY <3>1
    <3> QED BY <2>1, <3>1, <3>2
  <2>4. PICK f \in [1 .. k - 1 -> Int] :
          \A i \in 1 .. k - 1 : f[i] = IF i = 1 THEN first ELSE f[i - 1] + d[i]
    BY <2>3
  <2> DEFINE g == [i \in 1 .. k |-> IF i < k THEN f[i]
                                    ELSE IF k = 1 THEN first ELSE f[k - 1] + d[k]]
  <2>5. g \in [1 .. k -> Int]
    BY <2>3, <2>4
  <2>6. \A i \in 1 .. k : g[i] = IF i = 1 THEN first ELSE g[i - 1] + d[i]
    <3> SUFFICES ASSUME NEW i \in 1 .. k
                 PROVE  g[i] = IF i = 1 THEN first ELSE g[i - 1] + d[i]
      OBVIOUS
    <3>1. CASE i < k
      <4>1. i \in 1 .. k - 1 /\ g[i] = f[i]
        BY <2>3, <3>1
      <4>2. i # 1 => i - 1 \in 1 .. k /\ g[i - 1] = f[i - 1]
        BY <2>3, <3>1
      <4> QED BY <2>4, <4>1, <4>2
    <3>2. CASE i = k
      <4>1. i # 1 => i - 1 \in 1 .. k /\ g[i - 1] = f[i - 1]
        BY <2>3, <3>2
      <4> QED BY <3>2, <4>1
    <3> QED BY <2>3, <3>1, <3>2
  <2>7. Upto(k)
    BY <2>5, <2>6
  <2> QED BY <2>1, <2>7
<1>2. Upto(n)
  <2> HIDE DEF Upto
  <2>1. n \in 0 .. n
    OBVIOUS
  <2> QED BY <1>1, <2>1
<1>3. PICK f \in [1 .. n -> Int] :
        \A i \in 1 .. n : f[i] = IF i = 1 THEN first ELSE f[i - 1] + d[i]
  BY <1>2
<1>4. f = [i \in 1 .. n |-> IF i = 1 THEN first ELSE f[i - 1] + d[i]]
  BY <1>3
<1> QED BY <1>4

\* Each total is the one before it and one number more.
LEMMA TotalsFacts ==
  ASSUME NEW n \in Nat, NEW first \in Int, NEW d \in [1 .. n -> Int]
  PROVE  /\ Totals(first, d) = [i \in 1 .. n |-> Totals(first, d)[i]]
         /\ \A i \in 1 .. n :
              Totals(first, d)[i] = IF i = 1 THEN first ELSE Totals(first, d)[i - 1] + d[i]
<1> DEFINE f == Totals(first, d)
<1>1. DOMAIN d = 1 .. n
  OBVIOUS
<1>2. f = [i \in 1 .. n |-> IF i = 1 THEN first ELSE f[i - 1] + d[i]]
  <2>1. PICK g : g = [i \in 1 .. n |-> IF i = 1 THEN first ELSE g[i - 1] + d[i]]
    BY TotalsExist
  <2>2. f = CHOOSE h : h = [i \in 1 .. n |-> IF i = 1 THEN first ELSE h[i - 1] + d[i]]
    BY <1>1 DEF Totals
  <2> QED BY <2>1, <2>2, Zenon
<1> HIDE DEF f
<1>3. \A i \in 1 .. n : f[i] = IF i = 1 THEN first ELSE f[i - 1] + d[i]
  BY <1>2, Zenon
<1> QED BY <1>2, <1>3 DEF f

\* A function that counts up in the same way has the same values.
LEMMA TotalsUnique ==
  ASSUME NEW n \in Nat, NEW first \in Int, NEW d \in [1 .. n -> Int],
         NEW f \in [1 .. n -> Int],
         \A i \in 1 .. n : f[i] = IF i = 1 THEN first ELSE f[i - 1] + d[i]
  PROVE  \A i \in 1 .. n : Totals(first, d)[i] = f[i]
<1> DEFINE g == Totals(first, d)
           Bad == {i \in 1 .. n : g[i] # f[i]}
<1>1. \A i \in 1 .. n : g[i] = IF i = 1 THEN first ELSE g[i - 1] + d[i]
  BY TotalsFacts
<1> HIDE DEF g
<1>2. Bad = {}
  <2> SUFFICES ASSUME Bad # {} PROVE FALSE
    OBVIOUS
  <2>1. PICK k \in Bad : \A j \in Bad : k <= j
    <3>1. Bad \subseteq Nat  OBVIOUS
    <3> HIDE DEF Bad
    <3> QED BY <3>1, Least
  <2>2. k # 1
    BY <1>1
  <2>3. k - 1 \in 1 .. n /\ g[k - 1] = f[k - 1]
    <3>1. k \in 1 .. n /\ k - 1 \in 1 .. n /\ ~(k <= k - 1)
      BY <2>2
    <3> QED BY <2>1, <3>1
  <2> QED BY SMTT(30), <1>1, <2>2, <2>3
<1> QED BY <1>2 DEF g

-----------------------------------------------------------------------------
(* The list.                                                               *)

\* A chain is a sequence of timers without repetition.
LEMMA ChainFacts ==
  ASSUME NEW l
  PROVE  l \in Chains <=> /\ l \in Seq(Timers)
                          /\ l \in [1 .. Len(l) -> Timers] /\ Len(l) \in Nat
                          /\ \A i, j \in 1 .. Len(l) : l[i] = l[j] => i = j
<1>1. ASSUME l \in Chains
      PROVE  /\ l \in Seq(Timers)
             /\ l \in [1 .. Len(l) -> Timers] /\ Len(l) \in Nat
             /\ \A i, j \in 1 .. Len(l) : l[i] = l[j] => i = j
  <2>1. Cardinality(Timers) \in Nat
    BY TimerAssumption, FS_CardinalityType
  <2>2. PICK n \in 0 .. Cardinality(Timers) : l \in Injection(1 .. n, Timers)
    BY <1>1 DEF Chains
  <2>3. l \in [1 .. n -> Timers] /\ n \in Nat /\ IsInjective(l)
    BY <2>1, <2>2 DEF Injection
  <2>4. Len(l) = n /\ l \in Seq(Timers)
    BY <2>3
  <2> QED BY <2>3, <2>4 DEF IsInjective
<1>2. ASSUME /\ l \in [1 .. Len(l) -> Timers] /\ Len(l) \in Nat
             /\ \A i, j \in 1 .. Len(l) : l[i] = l[j] => i = j
      PROVE  l \in Chains
  <2> DEFINE n == Len(l)
  <2>1. l \in Injection(1 .. n, Timers)
    BY <1>2 DEF Injection, IsInjective
  <2>2. IsFiniteSet(1 .. n) /\ Cardinality(1 .. n) = n
    <3>1. n \in Int /\ 1 \in Int /\ n - 1 + 1 = n /\ (1 > n => n = 0)
      BY <1>2
    <3> HIDE DEF n
    <3> QED BY <3>1, FS_Interval
  <2>3. Cardinality(1 .. n) <= Cardinality(Timers) /\ Cardinality(Timers) \in Nat
    BY <2>1, TimerAssumption, FS_Injection, FS_CardinalityType
  <2>4. n \in 0 .. Cardinality(Timers)
    BY <1>2, <2>2, <2>3
  <2> QED BY <2>1, <2>4 DEF Chains
<1> QED BY <1>1, <1>2

\* Two lists that follow the same pointers: the second is no shorter than the
\* first and agrees with it.
LEMMA ListPrefix ==
  ASSUME NEW m, NEW l \in Chains, NEW k \in Chains, IsList(m, l), IsList(m, k)
  PROVE  \A i \in 1 .. Len(l) : i <= Len(k) /\ k[i] = l[i]
<1> DEFINE Bad == {i \in 1 .. Len(l) : ~(i <= Len(k) /\ k[i] = l[i])}
<1>1. /\ l \in Seq(Timers) /\ k \in Seq(Timers)
      /\ l \in [1 .. Len(l) -> Timers] /\ Len(l) \in Nat
      /\ k \in [1 .. Len(k) -> Timers] /\ Len(k) \in Nat
  BY ChainFacts
<1>2. \A t \in Timers : t # NULL
  BY TimerAssumption
<1>3. ASSUME NEW i \in Bad, \A j \in Bad : i <= j
      PROVE  FALSE
  <2>1. CASE i = 1
    <3>1. 1 \in 1 .. Len(l) /\ l # <<>> /\ l[1] \in Timers /\ m.head = l[1]
      <4>1. 1 \in 1 .. Len(l) /\ l[1] \in Timers
        BY <1>1, <2>1
      <4>2. l # <<>>
        BY <4>1
      <4> QED BY <4>1, <4>2 DEF IsList
    <3>2. k # <<>> /\ m.head = k[1]
      BY <3>1, <1>2 DEF IsList
    <3>3. 1 <= Len(k)
      BY <3>2, <1>1
    <3> QED BY <2>1, <3>1, <3>2, <3>3
  <2>2. CASE i # 1
    <3>1. i - 1 \in 1 .. Len(l) /\ i - 1 # Len(l) /\ ~(i <= i - 1) /\ i \in 1 .. Len(l)
      BY <1>1, <2>2
    <3>2. i - 1 <= Len(k) /\ k[i - 1] = l[i - 1]
      BY <3>1, <1>3
    <3>3. m.next[l[i - 1]] = l[i] /\ l[i] # NULL
      <4>1. (i - 1) + 1 = i /\ l[i] \in Timers
        BY <3>1, <1>1
      <4>2. m.next[l[i - 1]] = l[(i - 1) + 1]
        BY <3>1 DEF IsList
      <4> QED BY <4>1, <4>2, <1>2
    <3>4. i - 1 \in 1 .. Len(k)
      BY <1>1, <3>1, <3>2
    <3>5. i - 1 # Len(k) /\ m.next[k[i - 1]] = k[i]
      BY <3>2, <3>3, <3>4 DEF IsList
    <3>6. i <= Len(k) /\ k[i] = l[i]
      BY <3>1, <3>2, <3>3, <3>4, <3>5, <1>1
    <3> QED BY <3>6
  <2> QED BY <2>1, <2>2
<1>4. Bad \subseteq Nat
  BY <1>1
<1> HIDE DEF Bad
<1>5. Bad = {}
  BY <1>3, <1>4, Least
<1> QED BY <1>5 DEF Bad

\* There is only one list to follow, and List finds it.
LEMMA ListIs ==
  ASSUME NEW m, NEW l \in Chains, IsList(m, l)
  PROVE  List(m) = l /\ Armed(m) = {l[i] : i \in 1 .. Len(l)}
<1>1. List(m) \in Chains /\ IsList(m, List(m))
  BY DEF List
<1> DEFINE k == List(m)
<1> HIDE DEF k
<1>2. /\ l \in [1 .. Len(l) -> Timers] /\ Len(l) \in Nat
      /\ k \in [1 .. Len(k) -> Timers] /\ Len(k) \in Nat
  BY <1>1, ChainFacts DEF k
<1>3. /\ \A i \in 1 .. Len(l) : i <= Len(k) /\ k[i] = l[i]
      /\ \A i \in 1 .. Len(k) : i <= Len(l) /\ l[i] = k[i]
  BY <1>1, ListPrefix DEF k
<1>4. Len(k) = Len(l)
  <2>1. Len(l) = 0 \/ Len(l) \in 1 .. Len(l)
    BY <1>2
  <2>2. Len(k) = 0 \/ Len(k) \in 1 .. Len(k)
    BY <1>2
  <2>3. Len(l) <= Len(k)
    BY <1>2, <1>3, <2>1
  <2>4. Len(k) <= Len(l)
    BY <1>2, <1>3, <2>2
  <2>5. Len(l) \in Nat /\ Len(k) \in Nat
    BY <1>2
  <2> QED BY <2>3, <2>4, <2>5
<1>5. k = l
  BY <1>2, <1>3, <1>4
<1>6. DOMAIN l = 1 .. Len(l)
  BY <1>2
<1> QED BY <1>5, <1>6 DEF Armed, ToSet, k

-----------------------------------------------------------------------------
(* What the operations preserve.                                           *)

\* m is a memory whose list is l, and no timer behind the head is running.
Linked(m, l) ==
  /\ m \in Shape
  /\ l \in Chains /\ IsList(m, l)
  /\ \A i \in 2 .. Len(l) : ~m.running[l[i]]

\* A running head is the one TimerHwStart was last called for.
Loaded(m) ==
  m.head # NULL /\ m.running[m.head] =>
    m.timeout = IF m.ts[m.head] <= 2 THEN m.context + 1
                ELSE m.context + m.ts[m.head] - 1

\* What is left of the head's delay; one that is not loaded yet will lose a
\* tick when it is.
HeadLeft(m, now) ==
  IF m.running[m.head] THEN Remaining(m, now)
  ELSE IF m.ts[m.head] = 0 THEN 0 ELSE m.ts[m.head] - 1

\* Each timer is promised the time of its predecessor and its own delta, and
\* none is promised a time after it is due.
Steps(m, l, at, due_) ==
  /\ at \in [Timers -> Int] /\ due_ \in [Timers -> Nat]
  /\ \A i \in 2 .. Len(l) : at[l[i]] = at[l[i - 1]] + m.ts[l[i]]
  /\ \A i \in 1 .. Len(l) : at[l[i]] <= due_[l[i]]

Sound(m, l, at, due_, now) ==
  /\ Linked(m, l) /\ Loaded(m)
  /\ m.context <= now
  /\ Steps(m, l, at, due_)
  /\ l # <<>> => at[l[1]] = now + HeadLeft(m, now)

\* Outside the handler: the head is loaded and its alarm is still to come.
Awake(m, now) == m.head # NULL => m.running[m.head] /\ m.timeout > now

\* Inside the handler: what has been loaded has been loaded now.
Fresh(m, now) == m.head # NULL /\ m.running[m.head] => m.context = now

\* The ticks by which TimerHwStart puts off a timer with delta x.
Cost(x) == IF x = 0 THEN 0 ELSE IF x <= 2 THEN 1 ELSE x - 1

\* p gives the ticks at which the timers of l will fire if nobody calls.
Planned(m, l, p) ==
  /\ p \in [Timers -> Int]
  /\ l # <<>> => p[l[1]] = m.timeout
  /\ \A i \in 2 .. Len(l) : p[l[i]] = p[l[i - 1]] + Cost(m.ts[l[i]])

\* From the memory m with the list l to n no timer but t is planned more than
\* two ticks earlier or one tick later.
Near(m, l, n, t) ==
  \A p : Planned(m, l, p) =>
    \E k, q : /\ Linked(n, k) /\ Planned(n, k, q)
              /\ \A u \in Armed(m) \ {t} : q[u] - p[u] \in -2 .. 1

\* A call on t leaves the timers alone that are neither armed nor t.
Aside(m, n, t) ==
  \A u \in Timers \ {t} : u \notin Armed(m) =>
    u \notin Armed(n) /\ n.next[u] = m.next[u] /\ n.ts[u] = m.ts[u]

\* What a call on t makes of the memory m.
Result(m, n, t, due_, now) ==
  /\ \E l, at : Sound(n, l, at, due_, now)
  /\ Aside(m, n, t)
  /\ Awake(m, now) => Awake(n, now)
  /\ Fresh(m, now) => Fresh(n, now)

LEMMA LinkedFacts ==
  ASSUME NEW m, NEW l, Linked(m, l)
  PROVE  /\ m \in Shape
         /\ l \in Seq(Timers) /\ l \in [1 .. Len(l) -> Timers] /\ Len(l) \in Nat
         /\ \A i, j \in 1 .. Len(l) : l[i] = l[j] => i = j
         /\ Armed(m) = {l[i] : i \in 1 .. Len(l)}
         /\ l = <<>> <=> Len(l) = 0
         /\ l = <<>> <=> m.head = NULL
         /\ l # <<>> => 1 \in 1 .. Len(l) /\ m.head = l[1] /\ m.head \in Timers
         /\ NULL \notin Timers
<1>1. /\ l \in Seq(Timers) /\ l \in [1 .. Len(l) -> Timers] /\ Len(l) \in Nat
      /\ \A i, j \in 1 .. Len(l) : l[i] = l[j] => i = j
  BY ChainFacts DEF Linked
<1>2. Armed(m) = {l[i] : i \in 1 .. Len(l)}
  BY ListIs DEF Linked
<1>3. l = <<>> <=> Len(l) = 0
  BY <1>1
<1>4. l # <<>> => 1 \in 1 .. Len(l) /\ l[1] \in Timers
  BY <1>1, <1>3
<1>5. m.head = IF l = <<>> THEN NULL ELSE l[1]
  BY DEF Linked, IsList
<1> QED BY <1>1, <1>2, <1>3, <1>4, <1>5, TimerAssumption DEF Linked

\* Splitting a delta moves what is behind it by a tick at most, and so do the
\* ticks that TimerHwStart takes off the head.
LEMMA CostFacts ==
  ASSUME NEW x \in Nat, NEW y \in Nat
  PROVE  /\ Cost(x) \in Nat
         /\ Cost(x) + Cost(y) - Cost(x + y) \in -1 .. 1
         /\ x >= 1 /\ y >= 1 => Cost(x) + Cost(y) - (x + y) \in -2 .. 0
         /\ (IF x + y <= 2 THEN 1 ELSE (x + y) - 1) - ((IF x = 0 THEN 1 ELSE x) + Cost(y))
               \in -1 .. 0
BY DEF Cost

\* What is left of the delay of a loaded head, and when it will fire.
LEMMA HeadPlan ==
  ASSUME NEW now \in Nat, NEW m, NEW l, Linked(m, l), Loaded(m), Awake(m, now),
         m.context <= now, l # <<>>
  PROVE  /\ Remaining(m, now) \in Nat
         /\ m.timeout = now + (IF Remaining(m, now) = 0 THEN 1 ELSE Remaining(m, now))
<1> DEFINE h == m.head
<1>1. m \in Shape /\ h \in Timers /\ h # NULL
  BY LinkedFacts
<1>2. m.ts[h] \in Nat /\ m.context \in Nat /\ m.timeout \in Nat
  BY <1>1 DEF Shape
<1>3. m.running[h] /\ m.timeout > now
  BY <1>1 DEF Awake
<1>4. m.timeout = IF m.ts[h] <= 2 THEN m.context + 1 ELSE m.context + m.ts[h] - 1
  BY <1>1, <1>3 DEF Loaded
<1>5. Remaining(m, now) = IF now - m.context + 1 > m.ts[h] THEN 0
                          ELSE m.ts[h] - (now - m.context + 1)
  BY <1>3 DEF Remaining, Elapsed
<1> DEFINE d == m.ts[h]
           c == m.context
           e == m.timeout
           r == Remaining(m, now)
<1>6. /\ d \in Nat /\ c \in Nat /\ e > now /\ c <= now
      /\ e = (IF d <= 2 THEN c + 1 ELSE c + d - 1)
      /\ r = (IF now - c + 1 > d THEN 0 ELSE d - (now - c + 1))
  BY <1>2, <1>3, <1>4, <1>5
<1> HIDE DEF h, d, c, e, r
<1>7. CASE d <= 2
  <2>1. c = now /\ e = now + 1
    BY <1>6, <1>7
  <2>2. now - c + 1 = 1
    BY <2>1
  <2>3. r = (IF 1 > d THEN 0 ELSE d - 1)
    BY <1>6, <2>2
  <2>4. r \in Nat /\ r <= 1
    BY <1>6, <1>7, <2>3
  <2> QED BY <2>1, <2>4 DEF e, r
<1>8. CASE ~(d <= 2)
  <2>1. e = c + d - 1 /\ c + d - 1 > now
    BY <1>6, <1>8
  <2>2. ~(now - c + 1 > d)
    BY <1>6, <2>1
  <2>3. r = d - (now - c + 1)
    BY <1>6, <2>2
  <2>4. r \in Nat /\ r >= 1 /\ e = now + r
    BY <1>6, <2>1, <2>3
  <2> QED BY <2>4 DEF e, r
<1> QED BY <1>7, <1>8

\* If the head is promised more than what is left of its delay, all the
\* promises can be brought forward.
LEMMA Rebase ==
  ASSUME NEW now \in Nat, NEW m, NEW l, NEW at, NEW due_,
         Linked(m, l), Loaded(m), m.context <= now, Steps(m, l, at, due_),
         l # <<>> => at[l[1]] >= now + HeadLeft(m, now)
  PROVE  \E bt : Sound(m, l, bt, due_, now)
<1>1. CASE l = <<>>
  BY <1>1 DEF Sound
<1>2. CASE l # <<>>
  <2> DEFINE e == at[l[1]] - (now + HeadLeft(m, now))
             bt == [t \in Timers |-> at[t] - e]
  <2>1. /\ l \in [1 .. Len(l) -> Timers] /\ Len(l) \in Nat /\ 1 \in 1 .. Len(l)
        /\ at \in [Timers -> Int] /\ due_ \in [Timers -> Nat]
        /\ m \in Shape /\ m.head \in Timers
    BY <1>2, LinkedFacts DEF Steps
  <2>2. HeadLeft(m, now) \in Int
    BY <2>1 DEF HeadLeft, Remaining, Elapsed, Shape
  <2>3. e \in Int /\ e >= 0 /\ at[l[1]] - e = now + HeadLeft(m, now)
    BY <1>2, <2>1, <2>2
  <2> HIDE DEF e
  <2>4. bt \in [Timers -> Int]
    BY <2>1, <2>3
  <2>5. \A i \in 2 .. Len(l) : bt[l[i]] = bt[l[i - 1]] + m.ts[l[i]]
    <3> SUFFICES ASSUME NEW i \in 2 .. Len(l)
                 PROVE  bt[l[i]] = bt[l[i - 1]] + m.ts[l[i]]
      OBVIOUS
    <3>1. l[i] \in Timers /\ l[i - 1] \in Timers
      BY <2>1
    <3>2. m.ts[l[i]] \in Nat
      BY <2>1, <3>1 DEF Shape
    <3>3. at[l[i]] = at[l[i - 1]] + m.ts[l[i]] /\ at[l[i - 1]] \in Int
      BY <2>1, <3>1 DEF Steps
    <3> QED BY <2>3, <3>1, <3>2, <3>3
  <2>6. \A i \in 1 .. Len(l) : bt[l[i]] <= due_[l[i]]
    <3> SUFFICES ASSUME NEW i \in 1 .. Len(l)
                 PROVE  bt[l[i]] <= due_[l[i]]
      OBVIOUS
    <3>1. l[i] \in Timers /\ at[l[i]] \in Int /\ due_[l[i]] \in Int /\ at[l[i]] <= due_[l[i]]
      BY <2>1 DEF Steps
    <3> QED BY <2>3, <3>1
  <2>7. Steps(m, l, bt, due_)
    BY <2>1, <2>4, <2>5, <2>6 DEF Steps
  <2>8. bt[l[1]] = now + HeadLeft(m, now)
    BY <2>1, <2>3
  <2> HIDE DEF bt
  <2> QED BY <2>7, <2>8 DEF Sound
<1> QED BY <1>1, <1>2

\* TimerSetTimeout for the head of a list of promises.
LEMMA Load ==
  ASSUME NEW now \in Nat, NEW m, NEW l, NEW at, NEW due_,
         Linked(m, l), Steps(m, l, at, due_), l # <<>>, m.running[m.head],
         at[l[1]] >= now + (IF m.ts[m.head] = 0 THEN 0 ELSE m.ts[m.head] - 1)
  PROVE  /\ \E bt : Sound(SetTimeout(m, now), l, bt, due_, now)
         /\ Awake(SetTimeout(m, now), now) /\ Fresh(SetTimeout(m, now), now)
         /\ Armed(SetTimeout(m, now)) = Armed(m)
         /\ SetTimeout(m, now).next = m.next /\ SetTimeout(m, now).ts = m.ts
<1> DEFINE n == SetTimeout(m, now)
<1>1. /\ m \in Shape /\ m.head \in Timers /\ m.head # NULL
  BY LinkedFacts
<1>2. m.ts[m.head] \in Nat
  BY <1>1 DEF Shape
<1>3. /\ n.head = m.head /\ n.next = m.next /\ n.ts = m.ts /\ n.running = m.running
      /\ n.context = now
      /\ n.timeout = IF m.ts[m.head] <= 2 THEN now + 1 ELSE now + m.ts[m.head] - 1
  BY <1>1 DEF SetTimeout, Shape
<1>4. n \in Shape
  <2>1. n.timeout \in Nat
    BY <1>2, <1>3
  <2>2. n = [m EXCEPT !.context = now, !.timeout = n.timeout]
    BY <1>1 DEF SetTimeout, Shape
  <2> HIDE DEF n
  <2> QED BY <1>1, <2>1, <2>2 DEF Shape
<1> HIDE DEF n
<1>5. Linked(n, l)
  BY <1>3, <1>4 DEF Linked, IsList
<1>6. Steps(n, l, at, due_) /\ Loaded(n) /\ n.context <= now
  BY <1>3 DEF Steps, Loaded
<1>7. HeadLeft(n, now) = IF m.ts[m.head] = 0 THEN 0 ELSE m.ts[m.head] - 1
  <2>1. Elapsed(n, now) = 1
    BY <1>3 DEF Elapsed
  <2> QED BY <1>2, <1>3, <2>1 DEF HeadLeft, Remaining
<1>8. \E bt : Sound(n, l, bt, due_, now)
  BY <1>5, <1>6, <1>7, Rebase
<1>9. Awake(n, now) /\ Fresh(n, now)
  BY <1>2, <1>3 DEF Awake, Fresh
<1>10. Armed(n) = Armed(m)
  BY <1>5, LinkedFacts, ZenonT(60)
<1> QED BY <1>3, <1>8, <1>9, <1>10 DEF n

-----------------------------------------------------------------------------
(* Starting a timer.                                                       *)

LEMMA ChainOf ==
  ASSUME NEW n \in Nat, NEW l \in [1 .. n -> Timers],
         \A i, j \in 1 .. n : l[i] = l[j] => i = j
  PROVE  l \in Chains /\ Len(l) = n
<1>1. Len(l) = n
  OBVIOUS
<1> QED BY <1>1, ChainFacts

LEMMA NoTimers == <<>> \in Chains
<1> DEFINE none == [i \in 1 .. 0 |-> NULL]
<1>1. none \in [1 .. 0 -> Timers] /\ \A i, j \in 1 .. 0 : none[i] = none[j] => i = j
  OBVIOUS
<1>2. none = <<>>
  OBVIOUS
<1> HIDE DEF none
<1>3. none \in Chains
  BY <1>1, ChainOf
<1> QED BY <1>2, <1>3

\* Setting the fields of a timer that is not in the list.
LEMMA Outside ==
  ASSUME NEW now \in Nat, NEW m, NEW l, NEW at, NEW due_, Sound(m, l, at, due_, now),
         NEW t \in Timers, t \notin Armed(m),
         NEW n \in Shape, NEW due2 \in [Timers -> Nat],
         n.head = m.head, n.next = m.next,
         n.context = m.context, n.timeout = m.timeout,
         \A u \in Timers \ {t} : /\ n.ts[u] = m.ts[u] /\ n.running[u] = m.running[u]
                                 /\ due2[u] = due_[u]
  PROVE  /\ Sound(n, l, at, due2, now)
         /\ Result(m, n, t, due2, now)
         /\ Armed(n) = Armed(m)
         /\ Linked(n, l) /\ \A p : Planned(m, l, p) => Planned(n, l, p)
<1>1. Linked(m, l)
  BY DEF Sound
<1>2. /\ l \in [1 .. Len(l) -> Timers] /\ Armed(m) = {l[i] : i \in 1 .. Len(l)}
      /\ l # <<>> => 1 \in 1 .. Len(l) /\ m.head = l[1] /\ m.head \in Timers
      /\ l = <<>> <=> m.head = NULL
  BY <1>1, LinkedFacts
<1>3. \A i \in 1 .. Len(l) : l[i] \in Timers \ {t}
  BY <1>2
<1>4. /\ Linked(n, l)
      /\ l # <<>> => n.ts[n.head] = m.ts[m.head] /\ n.running[n.head] = m.running[m.head]
  <2>1. IsList(n, l)
    BY <1>1 DEF Linked, IsList
  <2>2. \A i \in 2 .. Len(l) : ~n.running[l[i]]
    <3> TAKE i \in 2 .. Len(l)
    <3>1. i \in 1 .. Len(l)
      OBVIOUS
    <3> QED BY <1>1, <1>3, <3>1 DEF Linked
  <2> QED BY <1>1, <1>2, <1>3, <2>1, <2>2 DEF Linked
<1>5. Armed(n) = Armed(m)
  BY <1>2, <1>4, LinkedFacts
<1>6. Steps(n, l, at, due2)
  <2>1. \A i \in 2 .. Len(l) : at[l[i]] = at[l[i - 1]] + n.ts[l[i]]
    <3> TAKE i \in 2 .. Len(l)
    <3>1. i \in 1 .. Len(l)
      OBVIOUS
    <3>2. n.ts[l[i]] = m.ts[l[i]]
      BY <1>3, <3>1
    <3> QED BY <3>2 DEF Sound, Steps
  <2>2. \A i \in 1 .. Len(l) : at[l[i]] <= due2[l[i]]
    BY <1>3 DEF Sound, Steps
  <2> QED BY <2>1, <2>2 DEF Sound, Steps
<1>7. Sound(n, l, at, due2, now)
  <2>1. Loaded(n)
    BY <1>2, <1>4 DEF Sound, Loaded
  <2>2. l # <<>> => HeadLeft(n, now) = HeadLeft(m, now)
    BY <1>2, <1>4 DEF HeadLeft, Remaining, Elapsed
  <2> QED BY <1>4, <1>6, <2>1, <2>2 DEF Sound
<1>8. Aside(m, n, t)
  BY <1>5 DEF Aside
<1>9. (Awake(m, now) => Awake(n, now)) /\ (Fresh(m, now) => Fresh(n, now))
  BY <1>2, <1>4 DEF Awake, Fresh
<1>10. ASSUME NEW p, Planned(m, l, p) PROVE Planned(n, l, p)
  <2>1. \A i \in 2 .. Len(l) : n.ts[l[i]] = m.ts[l[i]]
    <3> TAKE i \in 2 .. Len(l)
    <3>1. i \in 1 .. Len(l)
      OBVIOUS
    <3> QED BY <1>3, <3>1
  <2> QED BY <1>10, <2>1 DEF Planned
<1> QED BY <1>4, <1>5, <1>7, <1>8, <1>9, <1>10 DEF Result

\* Nothing moves if nothing is called.
LEMMA NearSelf ==
  ASSUME NEW m, NEW l, Linked(m, l), NEW t
  PROVE  Near(m, l, m, t)
<1> SUFFICES ASSUME NEW p, Planned(m, l, p)
             PROVE  \A u \in Armed(m) \ {t} : p[u] - p[u] \in -2 .. 1
  BY DEF Near
<1> TAKE u \in Armed(m) \ {t}
<1>1. p[u] \in Int
  BY LinkedFacts DEF Planned
<1> QED BY <1>1

\* The timer that ends before the head: the new head is loaded, and the old one
\* keeps its promise.
LEMMA NewHead ==
  ASSUME NEW now \in Nat, NEW m, NEW l, NEW at, NEW due_, Sound(m, l, at, due_, now),
         NEW t \in Timers, t \notin Armed(m), m.ts[t] >= 1,
         due_[t] = now + m.ts[t],
         NEW left, m.head # NULL => left = Remaining(m, now) /\ m.ts[t] < left
  PROVE  /\ Result(m, InsertNewHead(m, t, left, now), t, due_, now)
         /\ Awake(m, now) => Near(m, l, InsertNewHead(m, t, left, now), t)
<1> DEFINE v == m.ts[t]
           old == m.head
           moved == IF old = NULL THEN m
                    ELSE [m EXCEPT !.ts[old] = left - v, !.running[old] = FALSE]
           base == [moved EXCEPT !.next[t] = old, !.running[t] = TRUE, !.head = t]
           len == Len(l) + 1
           k == [i \in 1 .. len |-> IF i = 1 THEN t ELSE l[i - 1]]
           bt == [at EXCEPT ![t] = IF l = <<>> THEN now + v - 1 ELSE at[l[1]] - (left - v)]
<1>1. Linked(m, l) /\ Steps(m, l, at, due_)
  BY DEF Sound
<1>2. /\ m \in Shape
      /\ l \in [1 .. Len(l) -> Timers] /\ Len(l) \in Nat
      /\ \A i, j \in 1 .. Len(l) : l[i] = l[j] => i = j
      /\ Armed(m) = {l[i] : i \in 1 .. Len(l)}
      /\ l # <<>> => 1 \in 1 .. Len(l) /\ old = l[1] /\ old \in Timers /\ t # old
      /\ l = <<>> <=> old = NULL
      /\ l = <<>> <=> Len(l) = 0
      /\ NULL \notin Timers
      /\ \A i \in 1 .. Len(l) : l[i] # t
  BY <1>1, LinkedFacts
<1>3. v \in Nat /\ v >= 1
  BY <1>2 DEF Shape
<1>31. due_[t] = now + v
  OBVIOUS
<1>32. m.head # NULL => left = Remaining(m, now) /\ v < left
  OBVIOUS
<1> HIDE DEF v
<1>4. l # <<>> => left \in Nat /\ left > v /\ left - v \in Nat
                  /\ at[l[1]] \in {now + left, now + left - 1}
  <2> SUFFICES ASSUME l # <<>>
               PROVE  /\ left \in Nat /\ left > v /\ left - v \in Nat
                      /\ at[l[1]] \in {now + left, now + left - 1}
    OBVIOUS
  <2>1. old \in Timers /\ old # NULL /\ m.ts[old] \in Nat /\ m.context \in Nat
    BY <1>2 DEF Shape
  <2>2. left = Remaining(m, now) /\ v < left
    BY <1>32, <2>1
  <2>3. left \in Nat
    BY <2>1, <2>2 DEF Remaining, Elapsed
  <2>4. at[l[1]] = now + HeadLeft(m, now)
    BY DEF Sound
  <2>5. HeadLeft(m, now) \in {left, left - 1}
    BY <1>3, <2>1, <2>2, <2>3 DEF HeadLeft, Remaining
  <2> QED BY <1>3, <2>2, <2>3, <2>4, <2>5
<1>5. /\ base \in Shape
      /\ base.head = t /\ base.next = [m.next EXCEPT ![t] = old]
      /\ base.running[t]
      /\ base.ts = IF old = NULL THEN m.ts ELSE [m.ts EXCEPT ![old] = left - v]
      /\ base.running = IF old = NULL THEN [m.running EXCEPT ![t] = TRUE]
                        ELSE [m.running EXCEPT ![old] = FALSE, ![t] = TRUE]
  <2>1. CASE old = NULL
    BY <1>2, <2>1 DEF Shape, Pointers
  <2>2. CASE old # NULL
    <3>1. l # <<>>
      BY <1>2, <2>2
    <3> QED BY <1>2, <1>4, <2>2, <3>1 DEF Shape, Pointers
  <2> QED BY <2>1, <2>2
<1> HIDE DEF base, moved
<1>51. old # NULL => \A u \in Timers \ {t} :
         /\ base.ts[u] = IF u = old THEN left - v ELSE m.ts[u]
         /\ base.running[u] = IF u = old THEN FALSE ELSE m.running[u]
  <2> SUFFICES ASSUME old # NULL, NEW u \in Timers \ {t}
               PROVE  /\ base.ts[u] = IF u = old THEN left - v ELSE m.ts[u]
                      /\ base.running[u] = IF u = old THEN FALSE ELSE m.running[u]
    OBVIOUS
  <2>1. base.ts = [m.ts EXCEPT ![old] = left - v]
        /\ base.running = [m.running EXCEPT ![old] = FALSE, ![t] = TRUE]
    BY <1>5
  <2>2. DOMAIN m.ts = Timers /\ DOMAIN m.running = Timers
    BY <1>2 DEF Shape
  <2> QED BY <2>1, <2>2
<1>6. k \in Chains /\ Len(k) = len
  <2>1. len \in Nat
    BY <1>2
  <2>2. k \in [1 .. len -> Timers]
    BY <1>2
  <2>3. \A i, j \in 1 .. len : k[i] = k[j] => i = j
    <3> TAKE i, j \in 1 .. len
    <3>1. i # 1 => i - 1 \in 1 .. Len(l) /\ k[i] = l[i - 1] /\ k[i] # t
      BY <1>2
    <3>2. j # 1 => j - 1 \in 1 .. Len(l) /\ k[j] = l[j - 1] /\ k[j] # t
      BY <1>2
    <3>3. (i = 1 => k[i] = t) /\ (j = 1 => k[j] = t)
      OBVIOUS
    <3> QED BY <1>2, <3>1, <3>2, <3>3
  <2> HIDE DEF k, len
  <2> QED BY <2>1, <2>2, <2>3, ChainOf
<1>7. k # <<>> /\ k[1] = t /\ 1 \in 1 .. len /\ len \in Nat
      /\ \A i \in 2 .. len : i - 1 \in 1 .. Len(l) /\ k[i] = l[i - 1] /\ k[i] # t
  <2>1. len \in Nat /\ len # 0 /\ 1 \in 1 .. len
    BY <1>2
  <2>2. k # <<>>
    BY <1>6, <2>1
  <2> QED BY <1>2, <2>1, <2>2
<1> HIDE DEF k
<1>8. IsList(base, k)
  <2>1. base.next[k[1]] = IF 1 = Len(k) THEN NULL ELSE k[1 + 1]
    <3>1. base.next[t] = old
      BY <1>2, <1>5 DEF Shape
    <3>2. CASE l = <<>>
      BY <1>2, <1>6, <1>7, <3>1, <3>2
    <3>3. CASE l # <<>>
      <4>1. Len(k) # 1 /\ 2 \in 2 .. len /\ 2 - 1 = 1
        BY <1>2, <1>6, <3>3
      <4>2. k[2] = l[1]
        BY <1>7, <4>1
      <4> QED BY <1>2, <1>7, <3>1, <3>3, <4>1, <4>2
    <3> QED BY <3>2, <3>3
  <2>2. \A i \in 2 .. len : base.next[k[i]] = IF i = Len(k) THEN NULL ELSE k[i + 1]
    <3> TAKE i \in 2 .. len
    <3>1. i - 1 \in 1 .. Len(l) /\ k[i] = l[i - 1] /\ k[i] # t
      BY <1>7
    <3>2. base.next[k[i]] = m.next[l[i - 1]]
      BY <1>2, <1>5, <3>1 DEF Shape
    <3>3. m.next[l[i - 1]] = IF i - 1 = Len(l) THEN NULL ELSE l[(i - 1) + 1]
      BY <1>1, <3>1 DEF Linked, IsList
    <3>4. CASE i = len
      BY <1>2, <1>6, <3>2, <3>3, <3>4
    <3>5. CASE i # len
      <4>1. i + 1 \in 2 .. len /\ (i + 1) - 1 = (i - 1) + 1 /\ i - 1 # Len(l)
        BY <1>2, <3>5
      <4>2. k[i + 1] = l[(i - 1) + 1]
        BY <1>7, <4>1
      <4> QED BY <1>6, <3>2, <3>3, <3>5, <4>1, <4>2
    <3> QED BY <3>4, <3>5
  <2>3. \A i \in 1 .. len : i = 1 \/ i \in 2 .. len
    BY <1>7
  <2> QED BY <1>5, <1>6, <1>7, <2>1, <2>2, <2>3 DEF IsList
<1>9. \A i \in 2 .. Len(k) : ~base.running[k[i]]
  <2> TAKE i \in 2 .. Len(k)
  <2>1. i - 1 \in 1 .. Len(l) /\ k[i] = l[i - 1] /\ k[i] # t /\ l[i - 1] \in Timers
    BY <1>2, <1>6, <1>7
  <2>2. l # <<>> /\ old # NULL
    BY <1>2, <2>1
  <2>3. base.running[k[i]] = IF k[i] = old THEN FALSE ELSE m.running[k[i]]
    BY <1>51, <2>1, <2>2
  <2>4. i - 1 = 1 \/ i - 1 \in 2 .. Len(l)
    BY <1>2, <2>1
  <2>5. CASE i - 1 = 1
    BY <1>2, <2>1, <2>2, <2>3, <2>5
  <2>6. CASE i - 1 \in 2 .. Len(l)
    BY <1>1, <2>1, <2>3, <2>6 DEF Linked
  <2> QED BY <2>4, <2>5, <2>6
<1>10. Linked(base, k)
  BY <1>5, <1>6, <1>8, <1>9 DEF Linked
<1>11. /\ bt \in [Timers -> Int] /\ bt[t] <= due_[t] /\ bt[t] >= now + v - 1
       /\ \A u \in Timers \ {t} : bt[u] = at[u]
       /\ l # <<>> => at[l[1]] = bt[t] + (left - v)
  <2>1. at \in [Timers -> Int] /\ due_[t] = now + v
    BY <1>1, <1>31 DEF Steps
  <2>2. bt[t] = IF l = <<>> THEN now + v - 1 ELSE at[l[1]] - (left - v)
    BY <2>1
  <2>3. CASE l = <<>>
    BY <1>3, <2>1, <2>2, <2>3
  <2>4. CASE l # <<>>
    <3>1. left \in Nat /\ at[l[1]] \in {now + left, now + left - 1}
      BY <1>4, <2>4
    <3>2. bt[t] \in Int /\ bt[t] \in {now + v, now + v - 1} /\ at[l[1]] = bt[t] + (left - v)
      BY <1>3, <2>2, <2>4, <3>1
    <3>3. bt \in [Timers -> Int]
      BY <2>1, <2>2, <2>4, <3>2
    <3> QED BY <1>3, <2>1, <2>4, <3>2, <3>3
  <2> QED BY <2>3, <2>4
<1> HIDE DEF bt
<1>12. Steps(base, k, bt, due_)
  <2>1. \A i \in 2 .. Len(k) : bt[k[i]] = bt[k[i - 1]] + base.ts[k[i]]
    <3> TAKE i \in 2 .. Len(k)
    <3>1. i - 1 \in 1 .. Len(l) /\ k[i] = l[i - 1] /\ k[i] # t /\ l[i - 1] \in Timers
      BY <1>2, <1>6, <1>7
    <3>2. l # <<>> /\ old # NULL /\ bt[k[i]] = at[l[i - 1]]
      BY <1>2, <1>11, <3>1
    <3>3. base.ts[k[i]] = IF k[i] = old THEN left - v ELSE m.ts[k[i]]
      BY <1>51, <3>1, <3>2
    <3>4. i - 1 = 1 \/ i - 1 \in 2 .. Len(l)
      BY <1>2, <3>1
    <3>5. CASE i - 1 = 1
      BY <1>2, <1>7, <1>11, <3>1, <3>2, <3>3, <3>5
    <3>6. CASE i - 1 \in 2 .. Len(l)
      <4>1. k[i] # old
        BY <1>2, <3>1, <3>2, <3>6
      <4>2. k[i - 1] = l[(i - 1) - 1] /\ k[i - 1] # t /\ k[i - 1] \in Timers
        <5>1. i - 1 \in 2 .. len
          BY <1>2, <3>6
        <5>2. (i - 1) - 1 \in 1 .. Len(l) /\ k[i - 1] = l[(i - 1) - 1] /\ k[i - 1] # t
          BY <1>7, <5>1
        <5> QED BY <1>2, <5>2
      <4>3. at[l[i - 1]] = at[l[(i - 1) - 1]] + m.ts[l[i - 1]]
        BY <1>1, <3>6 DEF Steps
      <4> QED BY <1>11, <3>1, <3>2, <3>3, <4>1, <4>2, <4>3
    <3> QED BY <3>4, <3>5, <3>6
  <2>2. \A i \in 1 .. Len(k) : bt[k[i]] <= due_[k[i]]
    <3> TAKE i \in 1 .. Len(k)
    <3>1. CASE i = 1
      BY <1>7, <1>11, <3>1
    <3>2. CASE i # 1
      <4>1. i \in 2 .. len
        BY <1>6, <3>2
      <4>2. i - 1 \in 1 .. Len(l) /\ k[i] = l[i - 1] /\ k[i] # t /\ l[i - 1] \in Timers
        BY <1>2, <1>7, <4>1
      <4> QED BY <1>1, <1>11, <4>2 DEF Steps
    <3> QED BY <3>1, <3>2
  <2> QED BY <1>1, <1>11, <2>1, <2>2 DEF Steps
<1>13. base.ts[t] = v
  BY <1>2, <1>5 DEF Shape, v
<1>14. bt[k[1]] >= now + (IF base.ts[base.head] = 0 THEN 0 ELSE base.ts[base.head] - 1)
  BY <1>3, <1>5, <1>7, <1>11, <1>13
<1> DEFINE n == SetTimeout(base, now)
<1>15. /\ \E ct : Sound(n, k, ct, due_, now)
       /\ Awake(n, now) /\ Fresh(n, now)
       /\ Armed(n) = Armed(base) /\ n.next = base.next /\ n.ts = base.ts
  <2>1. base.running[base.head] /\ k # <<>>
    BY <1>5, <1>7
  <2> QED BY <1>10, <1>12, <1>14, <2>1, Load
<1>16. Aside(m, n, t)
  <2>1. Armed(base) = {k[i] : i \in 1 .. Len(k)}
    BY <1>10, LinkedFacts
  <2>2. \A i \in 1 .. Len(k) : k[i] = t \/ k[i] \in Armed(m)
    <3> TAKE i \in 1 .. Len(k)
    <3>1. i = 1 \/ i \in 2 .. len
      BY <1>6
    <3> QED BY <1>2, <1>7, <3>1
  <2>3. \A u \in Timers \ {t} : u \notin Armed(m) => u \notin Armed(n)
    BY <1>15, <2>1, <2>2
  <2>4. \A u \in Timers \ {t} : u \notin Armed(m) =>
          base.next[u] = m.next[u] /\ base.ts[u] = m.ts[u]
    <3>1. old # NULL => old \in Armed(m)
      BY <1>2
    <3> QED BY <1>2, <1>5, <3>1 DEF Shape
  <2> QED BY <1>15, <2>3, <2>4 DEF Aside
<1>17. n = InsertNewHead(m, t, left, now)
  BY DEF InsertNewHead, base, moved, v
<1>171. n.timeout = now + Cost(v)
  BY <1>3, <1>5, <1>13 DEF SetTimeout, Shape, Cost
<1> HIDE DEF n
<1>18. ASSUME Awake(m, now), NEW p, Planned(m, l, p)
       PROVE  \E k2, q : /\ Linked(n, k2) /\ Planned(n, k2, q)
                         /\ \A u \in Armed(m) \ {t} : q[u] - p[u] \in -2 .. 1
  <2> DEFINE gap == IF l = <<>> THEN 0 ELSE now + Cost(v) + Cost(left - v) - m.timeout
             q == [u \in Timers |-> IF u = t THEN now + Cost(v) ELSE p[u] + gap]
  <2>1. Cost(v) \in Nat /\ now + Cost(v) \in Int
    BY <1>3, CostFacts
  <2>2. gap \in -2 .. 0 /\ gap \in Int
    <3>1. CASE l = <<>>
      BY <3>1
    <3>2. CASE l # <<>>
      <4>1. left \in Nat /\ left > v /\ left - v \in Nat /\ left = Remaining(m, now)
        BY <1>2, <1>4, <1>32, <3>2
      <4>2. m.timeout = now + left
        <5>1. m.timeout = now + (IF left = 0 THEN 1 ELSE left)
          BY <1>1, <1>18, <3>2, <4>1, HeadPlan DEF Sound
        <5> QED BY <1>3, <4>1, <5>1
      <4>3. left - v >= 1 /\ v + (left - v) = left
        BY <1>3, <4>1
      <4>4. Cost(v) + Cost(left - v) - left \in -2 .. 0 /\ Cost(left - v) \in Nat
        BY <1>3, <4>1, <4>3, CostFacts
      <4>5. gap = now + Cost(v) + Cost(left - v) - (now + left)
        BY <3>2, <4>2
      <4> HIDE DEF gap
      <4> QED BY <2>1, <4>1, <4>4, <4>5
    <3> QED BY <3>1, <3>2
  <2>3. l # <<>> => p[l[1]] + gap = now + Cost(v) + Cost(left - v)
    <3> SUFFICES ASSUME l # <<>> PROVE p[l[1]] + gap = now + Cost(v) + Cost(left - v)
      OBVIOUS
    <3>1. p[l[1]] = m.timeout /\ m.timeout \in Nat
      BY <1>2, <1>18 DEF Planned, Shape
    <3>2. Cost(left - v) \in Nat
      BY <1>4, CostFacts
    <3> QED BY <2>1, <3>1, <3>2
  <2> HIDE DEF gap
  <2>4. /\ q \in [Timers -> Int] /\ q[t] = now + Cost(v)
        /\ \A u \in Timers \ {t} : q[u] = p[u] + gap /\ p[u] \in Int
    BY <1>18, <2>1, <2>2 DEF Planned
  <2> HIDE DEF q
  <2>5. \A i \in 2 .. Len(k) : q[k[i]] = q[k[i - 1]] + Cost(n.ts[k[i]])
    <3> TAKE i \in 2 .. Len(k)
    <3>1. i - 1 \in 1 .. Len(l) /\ k[i] = l[i - 1] /\ k[i] # t /\ l[i - 1] \in Timers
      BY <1>2, <1>6, <1>7
    <3>2. l # <<>> /\ old # NULL /\ q[k[i]] = p[l[i - 1]] + gap
      BY <1>2, <2>4, <3>1
    <3>3. n.ts[k[i]] = IF k[i] = old THEN left - v ELSE m.ts[k[i]]
      BY <1>15, <1>51, <3>1, <3>2
    <3>4. i - 1 = 1 \/ i - 1 \in 2 .. Len(l)
      BY <1>2, <3>1
    <3>5. CASE i - 1 = 1
      <4>1. k[i - 1] = t /\ n.ts[k[i]] = left - v
        BY <1>2, <1>7, <3>1, <3>2, <3>3, <3>5
      <4> QED BY <2>3, <2>4, <3>2, <3>5, <4>1
    <3>6. CASE i - 1 \in 2 .. Len(l)
      <4>1. k[i] # old
        BY <1>2, <3>1, <3>2, <3>6
      <4>2. k[i - 1] = l[(i - 1) - 1] /\ k[i - 1] # t /\ k[i - 1] \in Timers
        <5>1. i - 1 \in 2 .. len
          BY <1>2, <3>6
        <5>2. (i - 1) - 1 \in 1 .. Len(l) /\ k[i - 1] = l[(i - 1) - 1] /\ k[i - 1] # t
          BY <1>7, <5>1
        <5> QED BY <1>2, <5>2
      <4>3. p[l[i - 1]] = p[l[(i - 1) - 1]] + Cost(m.ts[l[i - 1]])
        BY <1>18, <3>6 DEF Planned
      <4>4. Cost(m.ts[l[i - 1]]) \in Nat
        BY <1>2, <3>1, CostFacts DEF Shape
      <4>5. q[k[i - 1]] = p[l[(i - 1) - 1]] + gap /\ p[l[(i - 1) - 1]] \in Int
        BY <2>4, <4>2
      <4>6. n.ts[k[i]] = m.ts[l[i - 1]]
        BY <3>1, <3>3, <4>1
      <4> QED BY <2>2, <3>2, <4>3, <4>4, <4>5, <4>6
    <3> QED BY <3>4, <3>5, <3>6
  <2>6. Linked(n, k) /\ Planned(n, k, q)
    BY <1>7, <1>15, <1>171, <2>4, <2>5 DEF Sound, Planned
  <2>7. \A u \in Armed(m) \ {t} : q[u] - p[u] \in -2 .. 1
    <3> TAKE u \in Armed(m) \ {t}
    <3>1. u \in Timers \ {t}
      BY <1>2
    <3>2. q[u] = p[u] + gap /\ p[u] \in Int
      BY <2>4, <3>1
    <3> QED BY <2>2, <3>2
  <2> QED BY <2>6, <2>7
<1>19. Awake(m, now) => Near(m, l, n, t)
  BY <1>18 DEF Near
<1> QED BY <1>15, <1>16, <1>17, <1>19 DEF Result

\* The timer that is linked behind the last one that ends no later.
LEMMA Behind ==
  ASSUME NEW now \in Nat, NEW m, NEW l, NEW at, NEW due_, Sound(m, l, at, due_, now),
         NEW t \in Timers, t \notin Armed(m), m.head # NULL, ~m.running[t],
         due_[t] = now + m.ts[t], Remaining(m, now) <= m.ts[t]
  PROVE  /\ Result(m, InsertTimer(m, t, Remaining(m, now)), t, due_, now)
         /\ Near(m, l, InsertTimer(m, t, Remaining(m, now)), t)
<1> DEFINE v == m.ts[t]
           left == Remaining(m, now)
           d == [i \in 1 .. Len(l) |-> m.ts[l[i]]]
           sum == Totals(left, d)
           e == at[l[1]] - left
           f == [i \in 1 .. Len(l) |-> at[l[i]] - e]
           Ends(i) == /\ i = Len(l) \/ sum[i + 1] > v
                      /\ \A j \in 1 .. i - 1 : sum[j + 1] <= v
           pos == CHOOSE i \in 1 .. Len(l) : Ends(i)
           delta == v - sum[pos]
           cur == IF pos = Len(l) THEN NULL ELSE l[pos + 1]
           base == [m EXCEPT !.ts[t] = delta, !.next[l[pos]] = t, !.next[t] = cur]
           n == IF cur = NULL THEN base ELSE [base EXCEPT !.ts[cur] = @ - delta]
           len == Len(l) + 1
           k == [i \in 1 .. len |-> IF i <= pos THEN l[i]
                                    ELSE IF i = pos + 1 THEN t ELSE l[i - 1]]
           bt == [at EXCEPT ![t] = e + v]
<1>1. Linked(m, l) /\ Steps(m, l, at, due_) /\ List(m) = l
  BY ListIs DEF Sound, Linked
<1>2. /\ m \in Shape
      /\ l \in [1 .. Len(l) -> Timers] /\ Len(l) \in Nat
      /\ \A i, j \in 1 .. Len(l) : l[i] = l[j] => i = j
      /\ Armed(m) = {l[i] : i \in 1 .. Len(l)}
      /\ l # <<>> /\ 1 \in 1 .. Len(l) /\ m.head = l[1]
      /\ NULL \notin Timers
      /\ \A i \in 1 .. Len(l) : l[i] # t
  BY <1>1, LinkedFacts
<1>3. n = InsertTimer(m, t, left)
  BY <1>1 DEF InsertTimer
<1>4. /\ at \in [Timers -> Int] /\ due_ \in [Timers -> Nat] /\ due_[t] = now + v
      /\ \A i \in 2 .. Len(l) : at[l[i]] = at[l[i - 1]] + m.ts[l[i]]
      /\ \A i \in 1 .. Len(l) : at[l[i]] <= due_[l[i]]
  BY <1>1 DEF Steps
<1>5. v \in Nat /\ left \in Nat /\ left <= v /\ e \in {now, now - 1} /\ e \in Int
  <2>1. m.head \in Timers /\ m.ts[m.head] \in Nat /\ m.context \in Nat /\ v \in Nat
    BY <1>2 DEF Shape
  <2>2. left \in Nat
    BY <2>1 DEF Remaining, Elapsed
  <2>3. at[l[1]] = now + HeadLeft(m, now)
    BY <1>2 DEF Sound
  <2>4. HeadLeft(m, now) \in {left, left - 1}
    BY <2>1, <2>2 DEF HeadLeft, Remaining
  <2>5. left <= v
    OBVIOUS
  <2> HIDE DEF left
  <2> QED BY <2>1, <2>2, <2>3, <2>4, <2>5
<1>6. at[l[1]] = e + left
  BY <1>2, <1>4, <1>5
<1> HIDE DEF v, left, e
<1>7. /\ d \in [1 .. Len(l) -> Nat] /\ f \in [1 .. Len(l) -> Int]
      /\ \A i \in 1 .. Len(l) : f[i] = IF i = 1 THEN left ELSE f[i - 1] + d[i]
  <2>1. \A i \in 1 .. Len(l) : m.ts[l[i]] \in Nat /\ at[l[i]] \in Int
    BY <1>2, <1>4 DEF Shape
  <2>2. d \in [1 .. Len(l) -> Nat] /\ f \in [1 .. Len(l) -> Int]
    BY <1>5, <2>1
  <2>3. \A i \in 1 .. Len(l) : f[i] = IF i = 1 THEN left ELSE f[i - 1] + d[i]
    <3> TAKE i \in 1 .. Len(l)
    <3>1. CASE i = 1
      BY <1>5, <1>6, <3>1
    <3>2. CASE i # 1
      <4>1. i \in 2 .. Len(l) /\ i - 1 \in 1 .. Len(l)
        BY <3>2
      <4>2. f[i] = at[l[i]] - e /\ f[i - 1] = at[l[i - 1]] - e /\ d[i] = m.ts[l[i]]
        BY <4>1
      <4>3. at[l[i]] = at[l[i - 1]] + m.ts[l[i]]
        BY <1>4, <4>1
      <4>4. at[l[i - 1]] \in Int /\ m.ts[l[i]] \in Int
        BY <2>1, <4>1
      <4> HIDE DEF f, d
      <4> QED BY <1>5, <3>2, <4>2, <4>3, <4>4
    <3> QED BY <3>1, <3>2
  <2> QED BY <2>2, <2>3
<1>8. \A i \in 1 .. Len(l) : sum[i] = at[l[i]] - e /\ sum[i] \in Int
  <2>1. d \in [1 .. Len(l) -> Int] /\ left \in Int
    BY <1>5, <1>7
  <2>2. \A i \in 1 .. Len(l) : f[i] = at[l[i]] - e /\ f[i] \in Int
    BY <1>7
  <2> HIDE DEF f, d
  <2>3. \A i \in 1 .. Len(l) : Totals(left, d)[i] = f[i]
    <3>1. Len(l) \in Nat
      BY <1>2
    <3>2. f \in [1 .. Len(l) -> Int]
      BY <1>7
    <3>3. \A i \in 1 .. Len(l) : f[i] = IF i = 1 THEN left ELSE f[i - 1] + d[i]
      BY <1>7
    <3> QED BY <2>1, <3>1, <3>2, <3>3, TotalsUnique
  <2> QED BY <2>2, <2>3
<1> HIDE DEF sum, d, f
<1>9. pos \in 1 .. Len(l) /\ Ends(pos)
  <2> DEFINE Stops == {i \in 1 .. Len(l) : i = Len(l) \/ sum[i + 1] > v}
  <2>1. Stops # {} /\ Stops \subseteq Nat
    BY <1>2
  <2>2. PICK i \in Stops : \A j \in Stops : i <= j
    <3> HIDE DEF Stops
    <3> QED BY <2>1, Least
  <2>3. \A j \in 1 .. i - 1 : sum[j + 1] <= v
    <3> TAKE j \in 1 .. i - 1
    <3>0. i \in 1 .. Len(l) /\ Len(l) \in Nat
      BY <1>2
    <3>1. j \in 1 .. Len(l) /\ j # Len(l) /\ ~(i <= j) /\ j + 1 \in 1 .. Len(l)
      BY <3>0
    <3>2. ~(sum[j + 1] > v)
      BY <2>2, <3>1
    <3> QED BY <1>5, <1>8, <3>1, <3>2
  <2>4. i \in 1 .. Len(l) /\ Ends(i)
    BY <2>3
  <2> HIDE DEF Ends
  <2> QED BY <2>4
<1>10. sum[pos] <= v /\ sum[pos] \in Int /\ sum[pos] = at[l[pos]] - e
       /\ (pos = Len(l) \/ (pos + 1 \in 1 .. Len(l) /\ sum[pos + 1] > v))
  <2> HIDE DEF pos
  <2>1. sum[pos] = at[l[pos]] - e /\ sum[pos] \in Int
    BY <1>8, <1>9
  <2>2. sum[pos] <= v
    <3>1. CASE pos = 1
      BY <1>5, <1>6, <2>1, <3>1, <1>2, <1>4
    <3>2. CASE pos # 1
      <4>1. pos - 1 \in 1 .. pos - 1 /\ (pos - 1) + 1 = pos
        BY <1>9, <3>2
      <4> QED BY <1>9, <4>1
    <3> QED BY <3>1, <3>2
  <2>3. pos # Len(l) => pos + 1 \in 1 .. Len(l)
    <3>1. pos \in 1 .. Len(l) /\ Len(l) \in Nat
      BY <1>2, <1>9
    <3> QED BY <3>1
  <2> QED BY <1>9, <2>1, <2>2, <2>3
<1>11. pos \in 1 .. Len(l)
  BY <1>9
<1> HIDE DEF pos, Ends
<1>12. delta \in Nat /\ delta = v - sum[pos]
  BY <1>5, <1>10
<1>13. /\ pos # Len(l) => /\ cur = l[pos + 1] /\ cur \in Timers /\ cur # t /\ cur # NULL
                          /\ cur # m.head
       /\ pos = Len(l) => cur = NULL
       /\ cur \in Pointers
  <2>1. CASE pos = Len(l)
    BY <2>1 DEF Pointers
  <2>2. CASE pos # Len(l)
    <3>1. pos + 1 \in 1 .. Len(l) /\ pos + 1 # 1
      BY <1>10, <1>11, <2>2
    <3>2. cur = l[pos + 1] /\ cur \in Timers /\ cur # t /\ cur # l[1]
      BY <1>2, <2>2, <3>1
    <3> QED BY <1>2, <2>2, <3>2 DEF Pointers
  <2> QED BY <2>1, <2>2
<1> HIDE DEF delta, cur
<1>14. pos # Len(l) => /\ m.ts[cur] - delta \in Nat
                       /\ at[cur] = e + v + (m.ts[cur] - delta)
  <2> SUFFICES ASSUME pos # Len(l)
               PROVE  m.ts[cur] - delta \in Nat /\ at[cur] = e + v + (m.ts[cur] - delta)
    OBVIOUS
  <2>1. pos + 1 \in 2 .. Len(l) /\ (pos + 1) - 1 = pos /\ pos + 1 \in 1 .. Len(l)
    BY <1>10, <1>11
  <2>2. at[l[pos + 1]] = at[l[pos]] + m.ts[l[pos + 1]]
    BY <1>4, <2>1
  <2>3. sum[pos + 1] = at[l[pos + 1]] - e /\ sum[pos + 1] \in Int /\ sum[pos + 1] > v
    BY <1>8, <1>10, <2>1
  <2>4. m.ts[cur] \in Nat /\ at[cur] \in Int /\ at[l[pos]] \in Int
    BY <1>2, <1>4, <1>11, <1>13 DEF Shape
  <2>5. at[cur] = at[l[pos]] + m.ts[cur] /\ at[cur] - e > v
    BY <1>13, <2>2, <2>3
  <2>6. v \in Int /\ e \in Int /\ delta = v - (at[l[pos]] - e)
    BY <1>5, <1>10, <1>12
  <2> QED BY SMTT(30), <2>4, <2>5, <2>6
<1>15. /\ n \in Shape /\ n.head = m.head /\ n.running = m.running
       /\ n.context = m.context /\ n.timeout = m.timeout
       /\ n.next = [m.next EXCEPT ![l[pos]] = t, ![t] = cur]
       /\ n.ts = IF cur = NULL THEN [m.ts EXCEPT ![t] = delta]
                 ELSE [m.ts EXCEPT ![t] = delta, ![cur] = m.ts[cur] - delta]
  <2>1. CASE cur = NULL
    BY <1>2, <1>11, <1>12, <1>13, <2>1 DEF Shape, Pointers
  <2>2. CASE cur # NULL
    BY <1>2, <1>11, <1>12, <1>13, <1>14, <2>2 DEF Shape, Pointers
  <2> QED BY <2>1, <2>2
<1> HIDE DEF n
<1>16. /\ n.next[t] = cur /\ n.ts[t] = delta /\ n.next[l[pos]] = t
       /\ \A u \in Timers \ {t} : u # l[pos] => n.next[u] = m.next[u]
       /\ \A u \in Timers \ {t} : u # cur => n.ts[u] = m.ts[u]
       /\ cur # NULL => n.ts[cur] = m.ts[cur] - delta
  <2>1. DOMAIN m.next = Timers /\ DOMAIN m.ts = Timers /\ l[pos] \in Timers /\ l[pos] # t
    BY <1>2, <1>11 DEF Shape
  <2>2. CASE cur = NULL
    BY <1>15, <2>1, <2>2
  <2>3. CASE cur # NULL
    BY <1>13, <1>15, <2>1, <2>3
  <2> QED BY <2>2, <2>3
<1>17. /\ len \in Nat
       /\ \A i \in 1 .. pos : i \in 1 .. len /\ i \in 1 .. Len(l) /\ k[i] = l[i]
       /\ pos + 1 \in 1 .. len /\ k[pos + 1] = t
       /\ \A i \in pos + 2 .. len : i \in 1 .. len /\ i - 1 \in 1 .. Len(l) /\ k[i] = l[i - 1]
       /\ \A i \in 1 .. len : i \in 1 .. pos \/ i = pos + 1 \/ i \in pos + 2 .. len
  <2>1. pos \in Int
    BY <1>11
  <2> QED BY <1>2, <1>11, <2>1
<1>18. k \in Chains /\ Len(k) = len
  <2>1. k \in [1 .. len -> Timers]
    BY <1>2, <1>11, <1>17
  <2>2. \A i, j \in 1 .. len : k[i] = k[j] => i = j
    <3> HIDE DEF k, len
    <3> TAKE i, j \in 1 .. len
    <3>1. i \in 1 .. pos \/ i = pos + 1 \/ i \in pos + 2 .. len
      BY <1>17
    <3>2. j \in 1 .. pos \/ j = pos + 1 \/ j \in pos + 2 .. len
      BY <1>17
    <3>3. \A a \in 1 .. pos : k[a] = l[a] /\ l[a] # t /\ a \in 1 .. Len(l)
      BY <1>2, <1>17
    <3>4. \A a \in pos + 2 .. len : k[a] = l[a - 1] /\ l[a - 1] # t /\ a - 1 \in 1 .. Len(l)
      BY <1>2, <1>17
    <3>5. k[pos + 1] = t
      BY <1>17
    <3>6. CASE i \in 1 .. pos
      BY <1>2, <1>11, <3>2, <3>3, <3>4, <3>5, <3>6
    <3>7. CASE i = pos + 1
      BY <1>2, <1>11, <3>2, <3>3, <3>4, <3>5, <3>7
    <3>8. CASE i \in pos + 2 .. len
      BY <1>2, <1>11, <3>2, <3>3, <3>4, <3>5, <3>8
    <3> QED BY <3>1, <3>6, <3>7, <3>8
  <2> HIDE DEF k, len
  <2> QED BY <1>17, <2>1, <2>2, ChainOf
<1>181. /\ Len(l) \in Nat /\ len = Len(l) + 1 /\ Len(k) = len
        /\ pos \in Nat /\ pos >= 1 /\ pos <= Len(l)
  BY <1>2, <1>11, <1>18
<1> HIDE DEF k, len
<1>19. k # <<>> /\ 1 \in 1 .. pos /\ k[1] = l[1]
  <2>1. 1 \in 1 .. pos /\ Len(k) # 0
    BY <1>181
  <2>2. k # <<>>
    BY <2>1
  <2> QED BY <1>17, <2>1, <2>2
<1>20. Linked(n, k)
  <2>1. IsList(n, k)
    <3> SUFFICES ASSUME NEW i \in 1 .. Len(k)
                 PROVE  n.next[k[i]] = IF i = Len(k) THEN NULL ELSE k[i + 1]
      BY <1>2, <1>15, <1>19 DEF IsList
    <3>1. \A a \in 1 .. Len(l) : m.next[l[a]] = IF a = Len(l) THEN NULL ELSE l[a + 1]
      BY <1>1 DEF Linked, IsList
    <3>2. CASE i \in 1 .. pos /\ i # pos
      <4>1. i \in 1 .. Len(l) /\ i # Len(l) /\ i + 1 \in 1 .. pos /\ k[i] = l[i] /\ i # Len(k)
        <5>1. i \in 1 .. Len(l) /\ i # Len(l) /\ i + 1 \in 1 .. pos /\ i # Len(k)
          BY <1>181, <3>2
        <5> QED BY <1>17, <3>2, <5>1
      <4>2. k[i + 1] = l[i + 1]
        BY <1>17, <4>1
      <4>3. l[i] \in Timers /\ l[i] # t /\ l[i] # l[pos]
        BY <1>2, <1>11, <3>2, <4>1
      <4> QED BY SMTT(30), <1>16, <3>1, <4>1, <4>2, <4>3
    <3>3. CASE i = pos
      <4>1. i # Len(k) /\ k[i] = l[pos] /\ k[i + 1] = t
        BY <1>17, <1>181, <3>3
      <4> QED BY <1>16, <4>1
    <3>4. CASE i = pos + 1
      <4>1. k[i] = t /\ n.next[k[i]] = cur
        BY <1>16, <1>17, <3>4
      <4>2. CASE pos = Len(l)
        BY <1>13, <1>181, <3>4, <4>1, <4>2
      <4>3. CASE pos # Len(l)
        <5>1. i + 1 \in pos + 2 .. len /\ (i + 1) - 1 = pos + 1 /\ i # Len(k)
          BY <1>181, <3>4, <4>3
        <5>2. k[i + 1] = l[pos + 1]
          BY <1>17, <5>1
        <5> QED BY <1>13, <4>1, <4>3, <5>1, <5>2
      <4> QED BY <4>2, <4>3
    <3>5. CASE i \in pos + 2 .. len
      <4>1. i - 1 \in 1 .. Len(l) /\ k[i] = l[i - 1] /\ i - 1 # pos
        BY <1>11, <1>17, <3>5
      <4>2. l[i - 1] \in Timers /\ l[i - 1] # t /\ l[i - 1] # l[pos]
        BY <1>2, <1>11, <4>1
      <4>3. n.next[k[i]] = IF i - 1 = Len(l) THEN NULL ELSE l[(i - 1) + 1]
        BY <1>16, <3>1, <4>1, <4>2
      <4>4. CASE i = len
        BY <1>181, <4>3, <4>4
      <4>5. CASE i # len
        <5>1. i + 1 \in pos + 2 .. len /\ (i + 1) - 1 = (i - 1) + 1 /\ i - 1 # Len(l)
          BY <1>181, <3>5, <4>5
        <5>2. k[i + 1] = l[(i - 1) + 1]
          BY <1>17, <5>1
        <5> QED BY <1>18, <4>3, <4>5, <5>1, <5>2
      <4> QED BY <4>4, <4>5
    <3> QED BY <1>17, <1>18, <3>2, <3>3, <3>4, <3>5
  <2>2. \A i \in 2 .. Len(k) : ~n.running[k[i]]
    <3> TAKE i \in 2 .. Len(k)
    <3>1. i \in 1 .. pos \/ i = pos + 1 \/ i \in pos + 2 .. len
      BY <1>17, <1>18
    <3>2. CASE i \in 1 .. pos
      <4>1. k[i] = l[i] /\ i \in 2 .. Len(l)
        BY <1>2, <1>11, <1>17, <3>2
      <4> QED BY <1>1, <1>15, <4>1 DEF Linked
    <3>3. CASE i = pos + 1
      BY <1>15, <1>17, <3>3
    <3>4. CASE i \in pos + 2 .. len
      <4>1. k[i] = l[i - 1] /\ i - 1 \in 2 .. Len(l)
        BY <1>2, <1>11, <1>17, <3>4
      <4> QED BY <1>1, <1>15, <4>1 DEF Linked
    <3> QED BY <3>1, <3>2, <3>3, <3>4
  <2> QED BY <1>15, <1>18, <2>1, <2>2 DEF Linked
<1>21. /\ bt \in [Timers -> Int] /\ bt[t] = e + v /\ bt[t] <= due_[t]
       /\ \A u \in Timers \ {t} : bt[u] = at[u]
  BY <1>4, <1>5
<1> HIDE DEF bt
<1>22. Steps(n, k, bt, due_)
  <2>1. \A i \in 2 .. Len(k) : bt[k[i]] = bt[k[i - 1]] + n.ts[k[i]]
    <3> TAKE i \in 2 .. Len(k)
    <3>0. \A a \in 1 .. Len(l) : l[a] \in Timers \ {t} /\ bt[l[a]] = at[l[a]] /\ at[l[a]] \in Int
      BY <1>2, <1>4, <1>21
    <3>1. i \in 1 .. pos \/ i = pos + 1 \/ i = pos + 2 \/ i \in pos + 3 .. len
      BY <1>11, <1>17, <1>18
    <3>2. CASE i \in 1 .. pos
      <4>1. i \in 2 .. Len(l) /\ i - 1 \in 1 .. pos /\ i - 1 \in 1 .. Len(l)
            /\ k[i] = l[i] /\ k[i - 1] = l[i - 1] /\ i \in 1 .. Len(l)
        BY <1>2, <1>11, <1>17, <3>2
      <4>2. l[i] # cur
        <5>1. pos # Len(l) => pos + 1 \in 1 .. Len(l) /\ i # pos + 1
          BY <1>181, <3>2
        <5> QED BY <1>2, <1>13, <4>1, <5>1
      <4>3. n.ts[l[i]] = m.ts[l[i]]
        BY <1>16, <3>0, <4>1, <4>2
      <4> QED BY <1>4, <3>0, <4>1, <4>3
    <3>3. CASE i = pos + 1
      <4>1. k[i] = t /\ i - 1 = pos /\ k[i - 1] = l[pos]
        <5>1. i - 1 = pos /\ pos \in 1 .. pos
          BY <1>181, <3>3
        <5> QED BY <1>17, <3>3, <5>1
      <4>2. bt[l[pos]] = at[l[pos]] /\ at[l[pos]] \in Int
        BY <1>11, <3>0
      <4>3. n.ts[k[i]] = v - sum[pos] /\ bt[k[i]] = e + v
        BY <1>12, <1>16, <1>21, <4>1
      <4> QED BY <1>5, <1>10, <4>1, <4>2, <4>3
    <3>4. CASE i = pos + 2
      <4>1. i \in pos + 2 .. len /\ pos # Len(l) /\ i - 1 = pos + 1
        BY <1>181, <3>4
      <4>2. k[i] = l[pos + 1] /\ k[i - 1] = t /\ pos + 1 \in 1 .. Len(l)
        BY <1>17, <4>1
      <4>3. k[i] = cur /\ cur # NULL /\ bt[cur] = at[cur] /\ n.ts[cur] = m.ts[cur] - delta
        BY <1>13, <1>16, <1>21, <4>1, <4>2
      <4> QED BY <1>14, <1>21, <4>1, <4>2, <4>3
    <3>5. CASE i \in pos + 3 .. len
      <4>1. i \in pos + 2 .. len /\ i - 1 \in pos + 2 .. len
        BY <1>181, <3>5
      <4>2. /\ k[i] = l[i - 1] /\ k[i - 1] = l[(i - 1) - 1]
            /\ i - 1 \in 1 .. Len(l) /\ (i - 1) - 1 \in 1 .. Len(l)
        BY <1>17, <4>1
      <4>3. i - 1 \in 2 .. Len(l) /\ i - 1 # pos + 1
        BY SMTT(30), <1>11, <3>5, <4>2
      <4>4. l[i - 1] # cur
        <5>1. pos # Len(l) => pos + 1 \in 1 .. Len(l)
          BY <1>181
        <5> QED BY SMTT(30), <1>2, <1>13, <4>2, <4>3, <5>1
      <4>5. n.ts[l[i - 1]] = m.ts[l[i - 1]]
        BY <1>16, <3>0, <4>2, <4>4
      <4>6. at[l[i - 1]] = at[l[(i - 1) - 1]] + m.ts[l[i - 1]]
        BY <1>4, <4>3
      <4> QED BY <3>0, <4>2, <4>5, <4>6
    <3> QED BY <3>1, <3>2, <3>3, <3>4, <3>5
  <2>2. \A i \in 1 .. Len(k) : bt[k[i]] <= due_[k[i]]
    <3> TAKE i \in 1 .. Len(k)
    <3>1. k[i] = t \/ \E a \in 1 .. Len(l) : k[i] = l[a]
      <4>1. i \in 1 .. pos \/ i = pos + 1 \/ i \in pos + 2 .. len
        BY <1>17, <1>18
      <4> QED BY <1>17, <4>1
    <3>2. CASE k[i] = t
      BY <1>21, <3>2
    <3>3. ASSUME NEW a \in 1 .. Len(l), k[i] = l[a]
          PROVE  bt[k[i]] <= due_[k[i]]
      BY SMTT(30), <1>2, <1>4, <1>21, <3>3
    <3> QED BY <3>1, <3>2, <3>3
  <2> QED BY <1>4, <1>21, <2>1, <2>2 DEF Steps
<1>23. n.ts[n.head] = m.ts[m.head] /\ n.running[n.head] = m.running[m.head]
  <2>1. m.head \in Timers \ {t} /\ m.head # cur
    BY <1>2, <1>13
  <2> QED BY <1>15, <1>16, <2>1
<1>24. Sound(n, k, bt, due_, now)
  <2>1. Loaded(n) /\ n.context <= now
    BY <1>15, <1>23 DEF Sound, Loaded
  <2>2. HeadLeft(n, now) = HeadLeft(m, now)
    BY <1>15, <1>23 DEF HeadLeft, Remaining, Elapsed
  <2>3. bt[k[1]] = at[l[1]]
    BY <1>2, <1>19, <1>21
  <2> QED BY <1>2, <1>20, <1>22, <2>1, <2>2, <2>3 DEF Sound
<1>25. Aside(m, n, t)
  <2>1. Armed(n) = {k[i] : i \in 1 .. Len(k)}
    BY <1>20, LinkedFacts
  <2>2. \A i \in 1 .. Len(k) : k[i] = t \/ k[i] \in Armed(m)
    BY <1>2, <1>17, <1>18
  <2>3. l[pos] \in Armed(m) /\ (cur \in Timers => cur \in Armed(m))
    BY <1>2, <1>10, <1>11, <1>13
  <2> QED BY <1>16, <2>1, <2>2, <2>3 DEF Aside
<1>26. (Awake(m, now) => Awake(n, now)) /\ (Fresh(m, now) => Fresh(n, now))
  BY <1>15, <1>23 DEF Awake, Fresh
<1>27. Result(m, n, t, due_, now)
  BY <1>24, <1>25, <1>26 DEF Result
<1>28. ASSUME NEW p, Planned(m, l, p)
       PROVE  \E k2, q : /\ Linked(n, k2) /\ Planned(n, k2, q)
                         /\ \A u \in Armed(m) \ {t} : q[u] - p[u] \in -2 .. 1
  <2> DEFINE gap == IF cur = NULL THEN 0
                    ELSE Cost(delta) + Cost(m.ts[cur] - delta) - Cost(m.ts[cur])
             After == {l[i] : i \in pos + 1 .. Len(l)}
             q == [u \in Timers |-> IF u = t THEN p[l[pos]] + Cost(delta)
                                    ELSE IF u \in After THEN p[u] + gap ELSE p[u]]
  <2>1. /\ p \in [Timers -> Int] /\ p[l[1]] = m.timeout
        /\ \A i \in 2 .. Len(l) : p[l[i]] = p[l[i - 1]] + Cost(m.ts[l[i]])
        /\ \A i \in 1 .. Len(l) : l[i] \in Timers \ {t} /\ p[l[i]] \in Int
    BY <1>2, <1>28 DEF Planned
  <2>2. gap \in -1 .. 1 /\ gap \in Int /\ Cost(delta) \in Nat
    <3>1. Cost(delta) \in Nat
      BY <1>12, CostFacts
    <3>2. ASSUME cur # NULL PROVE gap \in -1 .. 1
      <4>1. m.ts[cur] \in Nat /\ m.ts[cur] - delta \in Nat
        BY <1>2, <1>13, <1>14, <3>2 DEF Shape
      <4> DEFINE y == m.ts[cur] - delta
      <4>2. y \in Nat /\ delta + y = m.ts[cur]
        BY <1>12, <4>1
      <4> HIDE DEF y
      <4>3. Cost(delta) + Cost(y) - Cost(delta + y) \in -1 .. 1
        BY <1>12, <4>2, CostFacts
      <4>4. gap = Cost(delta) + Cost(y) - Cost(delta + y)
        BY <3>2, <4>2 DEF y
      <4> QED BY <4>3, <4>4
    <3> HIDE DEF gap
    <3>3. cur = NULL => gap = 0
      BY DEF gap
    <3> QED BY <3>1, <3>2, <3>3
  <2>3. /\ \A i \in 1 .. pos : l[i] \notin After
        /\ \A i \in pos + 1 .. Len(l) : l[i] \in After
    <3>1. ASSUME NEW i \in 1 .. pos, NEW a \in pos + 1 .. Len(l) PROVE l[i] # l[a]
      <4>1. i \in 1 .. Len(l) /\ a \in 1 .. Len(l) /\ i # a
        BY <1>181
      <4> QED BY <1>2, <4>1
    <3> QED BY <3>1
  <2>4. cur # NULL => p[l[pos]] + Cost(delta) + Cost(n.ts[cur]) = p[cur] + gap
    <3> SUFFICES ASSUME cur # NULL
                 PROVE  p[l[pos]] + Cost(delta) + Cost(n.ts[cur]) = p[cur] + gap
      OBVIOUS
    <3>1. pos # Len(l) /\ cur = l[pos + 1] /\ cur \in Timers /\ pos + 1 \in 2 .. Len(l)
          /\ (pos + 1) - 1 = pos
      BY <1>13, <1>181
    <3>2. p[cur] = p[l[pos]] + Cost(m.ts[cur])
      BY <2>1, <3>1
    <3>3. n.ts[cur] = m.ts[cur] - delta
      BY <1>16
    <3>4. m.ts[cur] \in Nat /\ m.ts[cur] - delta \in Nat
      BY <1>2, <1>14, <3>1 DEF Shape
    <3>5. Cost(m.ts[cur]) \in Nat /\ Cost(m.ts[cur] - delta) \in Nat /\ p[l[pos]] \in Int
      BY <1>11, <2>1, <3>4, CostFacts
    <3>6. gap = Cost(delta) + Cost(m.ts[cur] - delta) - Cost(m.ts[cur])
      OBVIOUS
    <3> HIDE DEF gap
    <3> QED BY <2>2, <3>2, <3>3, <3>5, <3>6
  <2> HIDE DEF gap, After
  <2>5. /\ q \in [Timers -> Int] /\ q[t] = p[l[pos]] + Cost(delta)
        /\ \A i \in 1 .. pos : q[l[i]] = p[l[i]]
        /\ \A i \in pos + 1 .. Len(l) : q[l[i]] = p[l[i]] + gap
    <3>1. p[l[pos]] \in Int
      BY <1>11, <2>1
    <3>2. q \in [Timers -> Int] /\ q[t] = p[l[pos]] + Cost(delta)
      BY <2>1, <2>2, <3>1
    <3>3. \A u \in Timers \ {t} : q[u] = IF u \in After THEN p[u] + gap ELSE p[u]
      OBVIOUS
    <3>4. \A i \in 1 .. pos : i \in 1 .. Len(l)
      BY <1>181
    <3>5. \A i \in pos + 1 .. Len(l) : i \in 1 .. Len(l)
      BY <1>181
    <3> HIDE DEF q
    <3> QED BY <2>1, <2>3, <3>2, <3>3, <3>4, <3>5
  <2> HIDE DEF q
  <2>6. \A a \in 1 .. Len(l) : a # pos + 1 => n.ts[l[a]] = m.ts[l[a]]
    <3> SUFFICES ASSUME NEW a \in 1 .. Len(l), a # pos + 1 PROVE n.ts[l[a]] = m.ts[l[a]]
      OBVIOUS
    <3>1. pos # Len(l) => pos + 1 \in 1 .. Len(l)
      BY <1>181
    <3>2. l[a] # cur
      BY <1>2, <1>13, <3>1
    <3> QED BY <1>16, <2>1, <3>2
  <2>7. \A i \in 2 .. Len(k) : q[k[i]] = q[k[i - 1]] + Cost(n.ts[k[i]])
    <3> TAKE i \in 2 .. Len(k)
    <3>1. i \in 1 .. pos \/ i = pos + 1 \/ i = pos + 2 \/ i \in pos + 3 .. len
      BY <1>11, <1>17, <1>18
    <3>2. CASE i \in 1 .. pos
      <4>1. i \in 2 .. Len(l) /\ i - 1 \in 1 .. pos /\ i \in 1 .. Len(l) /\ i # pos + 1
        BY <1>181, <3>2
      <4>2. k[i] = l[i] /\ k[i - 1] = l[i - 1]
        BY <1>17, <3>2, <4>1
      <4>3. n.ts[l[i]] = m.ts[l[i]] /\ p[l[i]] = p[l[i - 1]] + Cost(m.ts[l[i]])
        BY <2>1, <2>6, <4>1
      <4> QED BY <2>5, <3>2, <4>1, <4>2, <4>3
    <3>3. CASE i = pos + 1
      <4>1. i - 1 = pos /\ pos \in 1 .. pos
        BY <1>181, <3>3
      <4>2. k[i] = t /\ k[i - 1] = l[pos]
        BY <1>17, <3>3, <4>1
      <4> QED BY <1>16, <2>5, <4>1, <4>2
    <3>4. CASE i = pos + 2
      <4>1. i \in pos + 2 .. len /\ pos # Len(l) /\ i - 1 = pos + 1 /\ pos + 1 \in pos + 1 .. Len(l)
        BY <1>181, <3>4
      <4>2. k[i] = l[pos + 1] /\ k[i - 1] = t
        BY <1>17, <4>1
      <4>3. k[i] = cur /\ cur # NULL /\ q[cur] = p[cur] + gap
        BY <1>13, <2>5, <4>1, <4>2
      <4> QED BY <2>4, <2>5, <4>2, <4>3
    <3>5. CASE i \in pos + 3 .. len
      <4>1. i \in pos + 2 .. len /\ i - 1 \in pos + 2 .. len
        BY <1>181, <3>5
      <4>2. /\ k[i] = l[i - 1] /\ k[i - 1] = l[(i - 1) - 1]
            /\ i - 1 \in 1 .. Len(l) /\ (i - 1) - 1 \in 1 .. Len(l)
        BY <1>17, <4>1
      <4>3. /\ i - 1 \in 2 .. Len(l) /\ i - 1 # pos + 1
            /\ i - 1 \in pos + 1 .. Len(l) /\ (i - 1) - 1 \in pos + 1 .. Len(l)
        BY <1>181, <3>5
      <4>4. n.ts[l[i - 1]] = m.ts[l[i - 1]]
            /\ p[l[i - 1]] = p[l[(i - 1) - 1]] + Cost(m.ts[l[i - 1]])
        BY <2>1, <2>6, <4>2, <4>3
      <4>5. q[l[i - 1]] = p[l[i - 1]] + gap /\ q[l[(i - 1) - 1]] = p[l[(i - 1) - 1]] + gap
        BY <2>5, <4>3
      <4>6. Cost(m.ts[l[i - 1]]) \in Nat /\ p[l[(i - 1) - 1]] \in Int
        BY <1>2, <2>1, <4>2, CostFacts DEF Shape
      <4> QED BY <2>2, <4>2, <4>4, <4>5, <4>6
    <3> QED BY <3>1, <3>2, <3>3, <3>4, <3>5
  <2>8. Linked(n, k) /\ Planned(n, k, q)
    <3>1. q[k[1]] = n.timeout
      BY <1>15, <1>19, <2>1, <2>5
    <3> QED BY <1>20, <2>5, <2>7, <3>1 DEF Planned
  <2>9. \A u \in Armed(m) \ {t} : q[u] - p[u] \in -2 .. 1
    <3> TAKE u \in Armed(m) \ {t}
    <3>1. PICK a \in 1 .. Len(l) : u = l[a]
      BY <1>2
    <3>2. a \in 1 .. pos \/ a \in pos + 1 .. Len(l)
      BY <1>181
    <3>3. q[u] \in {p[u], p[u] + gap} /\ p[u] \in Int
      BY <2>1, <2>5, <3>1, <3>2
    <3> QED BY <2>2, <3>3
  <2> QED BY <2>8, <2>9
<1>29. Near(m, l, n, t)
  BY <1>28 DEF Near
<1> QED BY <1>3, <1>27, <1>29 DEF left

-----------------------------------------------------------------------------
(* Stopping a timer.                                                       *)

\* The head is stopped: its successor is loaded with what was left of both.
LEMMA HeadStopped ==
  ASSUME NEW now \in Nat, NEW m, NEW l, NEW at, NEW due_, Sound(m, l, at, due_, now),
         NEW t \in Timers, m.head = t,
         NEW due2 \in [Timers -> Nat], \A u \in Timers \ {t} : due2[u] = due_[u]
  PROVE  /\ Result(m, StopHead(m, now), t, due2, now) /\ t \notin Armed(StopHead(m, now))
         /\ Awake(m, now) => Near(m, l, StopHead(m, now), t)
<1> DEFINE n == StopHead(m, now)
<1>1. Linked(m, l) /\ Steps(m, l, at, due_)
  BY DEF Sound
<1>2. /\ m \in Shape
      /\ l \in [1 .. Len(l) -> Timers] /\ Len(l) \in Nat
      /\ \A i, j \in 1 .. Len(l) : l[i] = l[j] => i = j
      /\ Armed(m) = {l[i] : i \in 1 .. Len(l)}
      /\ 1 \in 1 .. Len(l) /\ t = l[1] /\ l # <<>>
      /\ NULL \notin Timers
  BY <1>1, LinkedFacts
<1>3. m.next[t] = IF 1 = Len(l) THEN NULL ELSE l[1 + 1]
  BY <1>1, <1>2 DEF Linked, IsList
<1>4. CASE Len(l) = 1
  <2>1. n = [m EXCEPT !.head = NULL] /\ m.next[t] = NULL
    BY <1>3, <1>4 DEF StopHead
  <2>2. /\ n \in Shape /\ n.head = NULL /\ n.next = m.next /\ n.ts = m.ts
        /\ n.context = m.context
    BY <1>2, <2>1 DEF Shape, Pointers
  <2> HIDE DEF n
  <2>3. <<>> \in Chains
    BY NoTimers
  <2>4. Linked(n, <<>>)
    BY <2>2, <2>3 DEF Linked, IsList
  <2>5. Sound(n, <<>>, at, due2, now)
    BY <1>1, <2>2, <2>4 DEF Sound, Loaded, Steps
  <2>6. Armed(n) = {}
    <3>1. Armed(n) = {<<>>[i] : i \in 1 .. Len(<<>>)} /\ 1 .. Len(<<>>) = {}
      BY <2>4, LinkedFacts
    <3> QED BY <3>1
  <2>7. Aside(m, n, t) /\ Awake(n, now) /\ Fresh(n, now)
    BY <2>2, <2>6 DEF Aside, Awake, Fresh
  <2>8. Result(m, n, t, due2, now) /\ t \notin Armed(n)
    BY <2>5, <2>6, <2>7 DEF Result
  <2>9. Near(m, l, n, t)
    <3>1. Armed(m) \ {t} = {}
      BY <1>2, <1>4
    <3>2. ASSUME NEW p, Planned(m, l, p) PROVE Planned(n, <<>>, p)
      BY <3>2 DEF Planned
    <3> QED BY <2>4, <3>1, <3>2 DEF Near
  <2> QED BY <2>8, <2>9 DEF n
<1>5. CASE Len(l) # 1
  <2> DEFINE s == m.next[t]
             left == Remaining(m, now)
             on == [m EXCEPT !.head = s, !.ts[s] = @ + left]
             to == [on EXCEPT !.running[t] = FALSE, !.running[s] = TRUE]
             len == Len(l) - 1
             k == [i \in 1 .. len |-> l[i + 1]]
  <2>1. /\ s = l[2] /\ s \in Timers /\ s # t /\ s # NULL /\ 2 \in 2 .. Len(l)
        /\ Len(l) >= 2 /\ Len(l) \in Nat /\ 2 \in 1 .. Len(l)
    <3>1. 2 \in 1 .. Len(l) /\ Len(l) >= 2 /\ 1 + 1 = 2
      BY <1>2, <1>5
    <3> QED BY <1>2, <1>3, <1>5, <3>1
  <2>2. n = IF ~m.running[t] THEN on ELSE SetTimeout(to, now)
    BY <2>1 DEF StopHead
  <2>3. m.ts[s] \in Nat /\ m.ts[t] \in Nat /\ left \in Nat /\ m.context \in Nat
    BY <1>2, <2>1 DEF Shape, Remaining, Elapsed
  <2>31. m.ts[s] + left \in Nat
    BY <2>3
  <2> HIDE DEF left, s
  <2>4. /\ on \in Shape /\ on.head = s /\ on.next = m.next
        /\ on.ts = [m.ts EXCEPT ![s] = m.ts[s] + left]
        /\ on.running = m.running /\ on.context = m.context /\ on.timeout = m.timeout
    BY <1>2, <2>1, <2>31 DEF Shape, Pointers
  <2>5. /\ to \in Shape /\ to.head = s /\ to.next = m.next /\ to.ts = on.ts
        /\ to.running = [m.running EXCEPT ![t] = FALSE, ![s] = TRUE]
    BY <1>2, <2>1, <2>4 DEF Shape
  <2> HIDE DEF n, on, to
  <2>6. /\ on.ts[s] = m.ts[s] + left
        /\ \A u \in Timers : u # s => on.ts[u] = m.ts[u] /\ to.ts[u] = m.ts[u]
        /\ to.ts[s] = m.ts[s] + left
    BY <1>2, <2>1, <2>4, <2>5 DEF Shape
  <2>7. /\ to.running[s]
        /\ \A u \in Timers \ {t, s} : to.running[u] = m.running[u]
    BY <1>2, <2>1, <2>5 DEF Shape
  <2>8. /\ len \in Nat /\ len >= 1 /\ len + 1 = Len(l)
        /\ \A i \in 1 .. len : /\ i + 1 \in 2 .. Len(l) /\ i + 1 \in 1 .. Len(l)
                               /\ k[i] = l[i + 1] /\ k[i] \in Timers /\ k[i] # t
    <3>1. len \in Nat /\ len >= 1 /\ len + 1 = Len(l)
      BY <2>1
    <3>2. ASSUME NEW i \in 1 .. len
          PROVE  /\ i + 1 \in 2 .. Len(l) /\ i + 1 \in 1 .. Len(l)
                 /\ k[i] = l[i + 1] /\ k[i] \in Timers /\ k[i] # t
      <4>1. i + 1 \in 2 .. Len(l) /\ i + 1 \in 1 .. Len(l) /\ i + 1 # 1 /\ k[i] = l[i + 1]
        BY <3>1
      <4> QED BY <1>2, <4>1
    <3> QED BY <3>1, <3>2
  <2>9. k \in Chains /\ Len(k) = len
    <3>1. k \in [1 .. len -> Timers]
      BY <2>8
    <3>2. \A i, j \in 1 .. len : k[i] = k[j] => i = j
      <4> HIDE DEF k, len
      <4> TAKE i, j \in 1 .. len
      <4>1. k[i] = k[j] => i + 1 = j + 1
        BY <1>2, <2>8
      <4> QED BY <4>1
    <3> HIDE DEF k, len
    <3> QED BY <2>8, <3>1, <3>2, ChainOf
  <2> HIDE DEF k, len
  <2>10. 1 \in 1 .. len /\ k[1] = s /\ k # <<>>
    <3>1. 1 \in 1 .. len /\ 1 + 1 = 2 /\ Len(k) # 0
      BY <2>8, <2>9
    <3>2. k # <<>>
      BY <3>1
    <3>3. k[1] = l[1 + 1]
      BY <2>8, <3>1
    <3> QED BY <2>1, <3>1, <3>2, <3>3
  <2>11. \A i \in 1 .. Len(k) : m.next[k[i]] = IF i = Len(k) THEN NULL ELSE k[i + 1]
    <3> TAKE i \in 1 .. Len(k)
    <3>1. i \in 1 .. len /\ i + 1 \in 1 .. Len(l) /\ k[i] = l[i + 1]
      BY <2>8, <2>9
    <3>2. m.next[k[i]] = IF i + 1 = Len(l) THEN NULL ELSE l[(i + 1) + 1]
      BY <1>1, <3>1 DEF Linked, IsList
    <3>3. CASE i = len
      BY <2>8, <2>9, <3>2, <3>3
    <3>4. CASE i # len
      <4>1. i + 1 \in 1 .. len /\ i + 1 # Len(l)
        BY <2>8, <3>1, <3>4
      <4>2. k[i + 1] = l[(i + 1) + 1]
        BY <2>8, <4>1
      <4> QED BY <2>9, <3>2, <3>4, <4>1, <4>2
    <3> QED BY <3>3, <3>4
  <2>12. \A i \in 2 .. Len(k) : k[i] # s /\ ~m.running[k[i]]
    <3> TAKE i \in 2 .. Len(k)
    <3>1. i \in 1 .. len /\ i + 1 # 2
      BY <2>8, <2>9
    <3>2. i + 1 \in 2 .. Len(l) /\ i + 1 \in 1 .. Len(l) /\ k[i] = l[i + 1]
      BY <2>8, <3>1
    <3>3. l[i + 1] # l[2]
      BY <1>2, <2>1, <3>1, <3>2
    <3>4. ~m.running[l[i + 1]]
      BY <1>1, <3>2 DEF Linked
    <3> QED BY <2>1, <3>2, <3>3, <3>4
  <2>13. Linked(on, k) /\ Linked(to, k)
    <3>1. IsList(on, k) /\ IsList(to, k)
      BY <2>4, <2>5, <2>10, <2>11 DEF IsList
    <3>2. \A i \in 2 .. Len(k) : k[i] \in Timers \ {t, s}
      <4> TAKE i \in 2 .. Len(k)
      <4>1. i \in 1 .. len
        BY <2>9
      <4> QED BY <2>8, <2>12, <4>1
    <3>3. \A i \in 2 .. Len(k) : ~on.running[k[i]] /\ ~to.running[k[i]]
      BY <2>4, <2>7, <2>12, <3>2
    <3> QED BY <2>4, <2>5, <2>9, <3>1, <3>3 DEF Linked
  <2>14. Steps(on, k, at, due2) /\ Steps(to, k, at, due2)
    <3>1. \A i \in 2 .. Len(k) : at[k[i]] = at[k[i - 1]] + m.ts[k[i]]
      <4> TAKE i \in 2 .. Len(k)
      <4>1. i \in 1 .. len /\ i - 1 \in 1 .. len /\ (i - 1) + 1 = i /\ (i + 1) - 1 = i
        BY <2>8, <2>9
      <4>2. k[i] = l[i + 1] /\ k[i - 1] = l[i] /\ i + 1 \in 2 .. Len(l)
        BY <2>8, <4>1
      <4>3. at[l[i + 1]] = at[l[(i + 1) - 1]] + m.ts[l[i + 1]]
        BY <1>1, <4>2 DEF Steps
      <4> QED BY <4>1, <4>2, <4>3
    <3>2. \A i \in 2 .. Len(k) : on.ts[k[i]] = m.ts[k[i]] /\ to.ts[k[i]] = m.ts[k[i]]
      <4> TAKE i \in 2 .. Len(k)
      <4>1. i \in 1 .. len
        BY <2>9
      <4> QED BY <2>6, <2>8, <2>12, <4>1
    <3>3. \A i \in 1 .. Len(k) : at[k[i]] <= due2[k[i]]
      <4> TAKE i \in 1 .. Len(k)
      <4>1. i + 1 \in 1 .. Len(l) /\ k[i] = l[i + 1] /\ k[i] \in Timers \ {t}
        BY <2>8, <2>9
      <4> QED BY <1>1, <4>1 DEF Steps
    <3>4. at \in [Timers -> Int]
      BY <1>1 DEF Steps
    <3> QED BY <3>1, <3>2, <3>3, <3>4 DEF Steps
  <2>15. at[s] = at[t] + m.ts[s] /\ at[t] = now + HeadLeft(m, now) /\ at[t] \in Int
    <3>1. at[l[2]] = at[l[2 - 1]] + m.ts[l[2]] /\ 2 - 1 = 1
      BY <1>1, <2>1 DEF Steps
    <3> QED BY <1>1, <1>2, <2>1, <3>1 DEF Sound, Steps
  <2>16. /\ \E bt : Sound(n, k, bt, due2, now)
         /\ n.next = m.next /\ n.ts = on.ts
         /\ Awake(m, now) => Awake(n, now)
         /\ Fresh(m, now) => Fresh(n, now)
    <3>1. CASE ~m.running[t]
      <4>1. ~on.running[s] /\ n = on
        BY <1>1, <2>1, <2>2, <2>4, <3>1 DEF Linked
      <4>2. Loaded(on) /\ on.context <= now
        BY <2>4, <4>1 DEF Sound, Loaded
      <4>3. HeadLeft(on, now) = IF m.ts[s] + left = 0 THEN 0 ELSE m.ts[s] + left - 1
        <5>1. on.head = s /\ on.ts[s] = m.ts[s] + left
          BY <2>4, <2>6
        <5>2. ~on.running[on.head]
          BY <4>1, <5>1
        <5>3. HeadLeft(on, now) = IF on.ts[on.head] = 0 THEN 0 ELSE on.ts[on.head] - 1
          BY <5>2 DEF HeadLeft
        <5> QED BY <2>3, <2>31, <5>1, <5>3
      <4>4. left = m.ts[t] /\ HeadLeft(m, now) = IF m.ts[t] = 0 THEN 0 ELSE m.ts[t] - 1
        BY <3>1 DEF left, Remaining, HeadLeft
      <4>5. at[k[1]] >= now + HeadLeft(on, now)
        <5>1. k[1] = s /\ at[s] = now + HeadLeft(m, now) + m.ts[s]
          BY <2>10, <2>15
        <5>2. HeadLeft(m, now) \in Int /\ HeadLeft(on, now) <= HeadLeft(m, now) + m.ts[s]
              /\ HeadLeft(on, now) \in Int
          BY <2>3, <4>3, <4>4
        <5> QED BY <2>3, <5>1, <5>2
      <4>6. \E bt : Sound(on, k, bt, due2, now)
        BY <2>13, <2>14, <4>2, <4>5, Rebase
      <4>7. ~Awake(m, now) /\ Fresh(on, now)
        BY <1>2, <2>4, <3>1, <4>1 DEF Awake, Fresh
      <4> QED BY <2>4, <4>1, <4>6, <4>7
    <3>2. CASE m.running[t]
      <4>1. n = SetTimeout(to, now)
        BY <2>2, <3>2
      <4>2. HeadLeft(m, now) = left
        BY <3>2 DEF HeadLeft, left
      <4>3. at[k[1]] >= now + (IF to.ts[to.head] = 0 THEN 0 ELSE to.ts[to.head] - 1)
        BY <2>3, <2>5, <2>6, <2>10, <2>15, <4>2
      <4>4. to.running[to.head]
        BY <2>5, <2>7
      <4>5. /\ \E bt : Sound(SetTimeout(to, now), k, bt, due2, now)
            /\ Awake(SetTimeout(to, now), now) /\ Fresh(SetTimeout(to, now), now)
            /\ SetTimeout(to, now).next = to.next /\ SetTimeout(to, now).ts = to.ts
        BY <2>10, <2>13, <2>14, <4>3, <4>4, Load
      <4> QED BY <2>5, <4>1, <4>5
    <3> QED BY <3>1, <3>2
  <2>17. Armed(n) = {k[i] : i \in 1 .. Len(k)}
    <3>1. PICK bt : Sound(n, k, bt, due2, now)
      BY <2>16
    <3>2. Linked(n, k)
      BY <3>1 DEF Sound
    <3> QED BY <3>2, LinkedFacts
  <2>18. t \notin Armed(n) /\ Armed(n) \subseteq Armed(m) /\ s \in Armed(m)
    <3>1. \A i \in 1 .. Len(k) : k[i] # t /\ k[i] \in Armed(m)
      BY <1>2, <2>8, <2>9
    <3> QED BY <1>2, <2>1, <2>17, <3>1
  <2>19. Aside(m, n, t)
    BY <2>6, <2>16, <2>18 DEF Aside
  <2>20. Result(m, n, t, due2, now) /\ t \notin Armed(n)
    BY <2>16, <2>18, <2>19 DEF Result
  <2>21. ASSUME Awake(m, now), NEW p, Planned(m, l, p)
         PROVE  \E k2, q : /\ Linked(n, k2) /\ Planned(n, k2, q)
                           /\ \A u \in Armed(m) \ {t} : q[u] - p[u] \in -2 .. 1
    <3>1. /\ p \in [Timers -> Int] /\ p[t] = m.timeout /\ p[s] = p[t] + Cost(m.ts[s])
          /\ \A i \in 2 .. Len(l) : p[l[i]] = p[l[i - 1]] + Cost(m.ts[l[i]])
      <4>1. p[l[2]] = p[l[2 - 1]] + Cost(m.ts[l[2]]) /\ 2 - 1 = 1
        BY <2>1, <2>21 DEF Planned
      <4> QED BY <1>2, <2>1, <2>21, <4>1 DEF Planned
    <3>2. n = SetTimeout(to, now)
      <4>1. m.running[t]
        BY <1>2, <2>21 DEF Awake
      <4> QED BY <2>2, <4>1
    <3> DEFINE x == left + m.ts[s]
               first == IF x <= 2 THEN 1 ELSE x - 1
               gap == now + first - p[s]
               q == [u \in Timers |-> p[u] + gap]
    <3>3. n.timeout = now + first
      <4>1. to.ts[s] = x /\ x \in Nat
        BY <2>3, <2>6
      <4> HIDE DEF x
      <4>2. n.timeout = IF to.ts[s] <= 2 THEN now + 1 ELSE now + to.ts[s] - 1
        BY <2>5, <3>2 DEF SetTimeout, Shape
      <4> QED BY <4>1, <4>2
    <3>4. gap \in -1 .. 0 /\ gap \in Int /\ p[s] + gap = now + first
      <4>1. m.timeout = now + (IF left = 0 THEN 1 ELSE left)
        BY <1>1, <1>2, <2>21, HeadPlan DEF Sound, left
      <4>3. first - ((IF left = 0 THEN 1 ELSE left) + Cost(m.ts[s])) \in -1 .. 0
            /\ Cost(m.ts[s]) \in Nat
        BY <2>3, CostFacts
      <4>4. p[s] = now + (IF left = 0 THEN 1 ELSE left) + Cost(m.ts[s])
        BY <3>1, <4>1
      <4>5. first \in Int
        <5>1. x \in Int
          BY <2>3
        <5> HIDE DEF x
        <5> QED BY <5>1
      <4> HIDE DEF first
      <4> QED BY <2>3, <4>3, <4>4, <4>5
    <3> HIDE DEF gap, first, x
    <3>5. q \in [Timers -> Int] /\ \A u \in Timers : q[u] = p[u] + gap /\ p[u] \in Int
      BY <3>1, <3>4
    <3> HIDE DEF q
    <3>6. \A i \in 2 .. Len(k) : q[k[i]] = q[k[i - 1]] + Cost(n.ts[k[i]])
      <4> TAKE i \in 2 .. Len(k)
      <4>1. i \in 1 .. len /\ i - 1 \in 1 .. len /\ (i - 1) + 1 = i /\ (i + 1) - 1 = i
        BY <2>8, <2>9
      <4>2. k[i] = l[i + 1] /\ k[i - 1] = l[i] /\ i + 1 \in 2 .. Len(l)
            /\ k[i] \in Timers /\ k[i - 1] \in Timers
        BY <2>8, <4>1
      <4>3. p[k[i]] = p[k[i - 1]] + Cost(m.ts[k[i]])
        BY SMTT(30), <3>1, <4>1, <4>2
      <4>4. n.ts[k[i]] = m.ts[k[i]] /\ m.ts[k[i]] \in Nat
        BY <1>2, <2>6, <2>12, <2>16, <4>2 DEF Shape
      <4>5. Cost(m.ts[k[i]]) \in Nat
        BY <4>4, CostFacts
      <4>6. /\ q[k[i]] = p[k[i]] + gap /\ q[k[i - 1]] = p[k[i - 1]] + gap
            /\ p[k[i - 1]] \in Int
        BY <3>5, <4>2
      <4> QED BY <3>4, <4>3, <4>4, <4>5, <4>6
    <3>7. Linked(n, k)
      BY <2>16 DEF Sound
    <3>8. Planned(n, k, q)
      BY <2>1, <2>10, <3>3, <3>4, <3>5, <3>6 DEF Planned
    <3>9. \A u \in Armed(m) \ {t} : q[u] - p[u] \in -2 .. 1
      <4> TAKE u \in Armed(m) \ {t}
      <4>1. q[u] = p[u] + gap /\ p[u] \in Int
        BY <1>2, <3>5
      <4> QED BY <3>4, <4>1
    <3> QED BY <3>7, <3>8, <3>9
  <2>22. Awake(m, now) => Near(m, l, n, t)
    BY <2>21 DEF Near
  <2> QED BY <2>20, <2>22 DEF n
<1> QED BY <1>4, <1>5

\* A timer behind the head is stopped: its successor waits for both.
LEMMA WithinStopped ==
  ASSUME NEW now \in Nat, NEW m, NEW l, NEW at, NEW due_, Sound(m, l, at, due_, now),
         NEW t \in Armed(m), m.head # t,
         NEW due2 \in [Timers -> Nat], \A u \in Timers \ {t} : due2[u] = due_[u]
  PROVE  /\ Result(m, StopWithin(m, t), t, due2, now) /\ t \notin Armed(StopWithin(m, t))
         /\ Near(m, l, StopWithin(m, t), t)
<1>1. Linked(m, l) /\ Steps(m, l, at, due_)
  BY DEF Sound
<1>2. /\ m \in Shape
      /\ l \in [1 .. Len(l) -> Timers] /\ Len(l) \in Nat
      /\ \A i, j \in 1 .. Len(l) : l[i] = l[j] => i = j
      /\ Armed(m) = {l[i] : i \in 1 .. Len(l)}
      /\ 1 \in 1 .. Len(l) => m.head = l[1]
      /\ l # <<>> <=> Len(l) # 0
      /\ NULL \notin Timers
  BY <1>1, LinkedFacts
<1>3. PICK j \in 1 .. Len(l) : t = l[j]
  BY <1>2
<1>4. /\ j \in 2 .. Len(l) /\ j - 1 \in 1 .. Len(l) /\ (j - 1) + 1 = j /\ j - 1 # Len(l)
      /\ j \in Nat /\ j >= 2 /\ j <= Len(l) /\ Len(l) \in Nat
  <2>1. j # 1
    BY <1>2, <1>3
  <2>2. Len(l) \in Nat
    BY <1>2
  <2> QED BY <2>1, <2>2
<1>5. \A i \in 1 .. Len(l) : m.next[l[i]] = IF i = Len(l) THEN NULL ELSE l[i + 1]
  BY <1>1 DEF Linked, IsList
<1> DEFINE prev == CHOOSE p \in Armed(m) : m.next[p] = t
           s == m.next[t]
           cut == [m EXCEPT !.next[prev] = s]
           n == IF s = NULL THEN cut ELSE [cut EXCEPT !.ts[s] = @ + m.ts[t]]
           len == Len(l) - 1
           k == [i \in 1 .. len |-> IF i < j THEN l[i] ELSE l[i + 1]]
<1>6. n = StopWithin(m, t)
  BY DEF StopWithin
<1>7. prev = l[j - 1] /\ prev \in Timers /\ prev # t
  <2>1. l[j - 1] \in Armed(m) /\ m.next[l[j - 1]] = t
    BY <1>2, <1>3, <1>4, <1>5
  <2>2. \A p \in Armed(m) : m.next[p] = t => p = l[j - 1]
    <3> SUFFICES ASSUME NEW i \in 1 .. Len(l), m.next[l[i]] = t
                 PROVE  l[i] = l[j - 1]
      BY <1>2
    <3>1. t # NULL
      BY <1>2, <1>3
    <3>2. i # Len(l) /\ t = l[i + 1]
      BY <1>5, <3>1
    <3>3. i + 1 \in 1 .. Len(l)
      BY <1>4, <3>2
    <3>4. i + 1 = j
      <4>1. l[i + 1] = l[j]
        BY <1>3, <3>2, Zenon
      <4>2. \A a, b \in 1 .. Len(l) : l[a] = l[b] => a = b
        BY <1>2, Zenon
      <4> QED BY <3>3, <4>1, <4>2, Zenon
    <3>5. i = j - 1
      BY <3>4, <1>4
    <3> QED BY <3>5
  <2>3. prev = l[j - 1]
    <3>1. prev \in Armed(m) /\ m.next[prev] = t
      BY <2>1
    <3> HIDE DEF prev
    <3> QED BY <2>2, <3>1
  <2>4. l[j - 1] # l[j] /\ l[j - 1] \in Timers
    BY <1>2, <1>4
  <2> HIDE DEF prev
  <2> QED BY <1>3, <2>3, <2>4
<1>8. /\ j = Len(l) => s = NULL
      /\ j # Len(l) => /\ s = l[j + 1] /\ s \in Timers /\ s # t /\ s # NULL /\ s # m.head
                       /\ j + 1 \in 2 .. Len(l) /\ j + 1 \in 1 .. Len(l) /\ (j + 1) - 1 = j
      /\ s \in Pointers
  <2>1. CASE j = Len(l)
    BY <1>3, <1>5, <2>1 DEF Pointers
  <2>2. CASE j # Len(l)
    <3>1. /\ j + 1 \in 2 .. Len(l) /\ j + 1 \in 1 .. Len(l) /\ (j + 1) - 1 = j
          /\ j + 1 # j /\ j + 1 # 1 /\ 1 \in 1 .. Len(l)
      BY <1>4, <2>2
    <3>2. s = l[j + 1]
      BY <1>3, <1>5, <2>2
    <3>3. l[j + 1] \in Timers /\ l[j + 1] # l[j] /\ l[j + 1] # l[1]
      BY <1>2, <3>1
    <3> QED BY <1>2, <1>3, <2>2, <3>1, <3>2, <3>3 DEF Pointers
  <2> QED BY <2>1, <2>2
<1> HIDE DEF prev, s
<1>9. t \in Timers /\ m.ts[t] \in Nat /\ (s \in Timers => m.ts[s] \in Nat)
  BY <1>2, <1>3 DEF Shape
<1>10. /\ n \in Shape /\ n.head = m.head /\ n.running = m.running
       /\ n.context = m.context /\ n.timeout = m.timeout
       /\ n.next = [m.next EXCEPT ![prev] = s]
       /\ n.ts = IF s = NULL THEN m.ts ELSE [m.ts EXCEPT ![s] = m.ts[s] + m.ts[t]]
  <2>1. CASE s = NULL
    BY <1>2, <1>7, <1>8, <2>1 DEF Shape
  <2>2. CASE s # NULL
    <3>1. s \in Timers /\ m.ts[s] + m.ts[t] \in Nat
      BY SMTT(30), <1>8, <1>9, <2>2
    <3> QED BY <1>2, <1>7, <1>8, <2>2, <3>1 DEF Shape
  <2> QED BY <2>1, <2>2
<1> HIDE DEF n
<1>11. /\ n.next[prev] = s
       /\ \A u \in Timers : u # prev => n.next[u] = m.next[u]
       /\ \A u \in Timers : u # s => n.ts[u] = m.ts[u]
       /\ s # NULL => n.ts[s] = m.ts[s] + m.ts[t]
  <2>1. CASE s = NULL
    BY <1>2, <1>7, <1>10, <2>1 DEF Shape
  <2>2. CASE s # NULL
    <3>1. n.next = [m.next EXCEPT ![prev] = s] /\ n.ts = [m.ts EXCEPT ![s] = m.ts[s] + m.ts[t]]
      BY <1>10, <2>2
    <3>2. DOMAIN m.next = Timers /\ DOMAIN m.ts = Timers /\ prev \in Timers /\ s \in Timers
      BY <1>2, <1>7, <1>8, <2>2 DEF Shape
    <3> QED BY <3>1, <3>2
  <2> QED BY <2>1, <2>2
<1>12. /\ len \in Nat /\ len + 1 = Len(l) /\ len >= 1 /\ j - 1 \in 1 .. len
       /\ \A i \in 1 .. j - 1 : /\ i \in 1 .. len /\ i \in 1 .. Len(l)
                                /\ k[i] = l[i] /\ k[i] \in Timers \ {t}
       /\ \A i \in j .. len : /\ i \in 1 .. len /\ i + 1 \in 1 .. Len(l)
                              /\ k[i] = l[i + 1] /\ k[i] \in Timers \ {t}
       /\ \A i \in 1 .. len : i \in 1 .. j - 1 \/ i \in j .. len
  <2>1. len \in Nat /\ len + 1 = Len(l) /\ len >= 1 /\ j - 1 \in 1 .. len
    BY <1>4
  <2>2. ASSUME NEW i \in 1 .. j - 1
        PROVE  /\ i \in 1 .. len /\ i \in 1 .. Len(l)
               /\ k[i] = l[i] /\ k[i] \in Timers \ {t}
    <3>1. i \in 1 .. len /\ i \in 1 .. Len(l) /\ i # j /\ i < j
      BY <1>4
    <3>2. k[i] = l[i]
      BY <3>1
    <3> QED BY <1>2, <1>3, <3>1, <3>2
  <2>3. ASSUME NEW i \in j .. len
        PROVE  /\ i \in 1 .. len /\ i + 1 \in 1 .. Len(l)
               /\ k[i] = l[i + 1] /\ k[i] \in Timers \ {t}
    <3>1. i \in 1 .. len /\ i + 1 \in 1 .. Len(l) /\ i + 1 # j /\ ~(i < j)
      BY <1>4
    <3>2. k[i] = l[i + 1]
      BY <3>1
    <3> QED BY <1>2, <1>3, <3>1, <3>2
  <2>4. \A i \in 1 .. len : i \in 1 .. j - 1 \/ i \in j .. len
    BY <1>4
  <2> QED BY <2>1, <2>2, <2>3, <2>4
<1>13. k \in Chains /\ Len(k) = len
  <2>1. k \in [1 .. len -> Timers]
    <3>1. \A i \in 1 .. len : k[i] \in Timers
      BY <1>12
    <3> QED BY <3>1
  <2>2. \A a, b \in 1 .. len : k[a] = k[b] => a = b
    <3> HIDE DEF k, len
    <3> TAKE a, b \in 1 .. len
    <3>1. CASE a \in 1 .. j - 1 /\ b \in 1 .. j - 1
      BY <1>2, <1>12, <3>1
    <3>2. CASE a \in 1 .. j - 1 /\ b \in j .. len
      <4>1. a # b + 1
        BY <1>4, <3>2
      <4> QED BY <1>2, <1>12, <3>2, <4>1
    <3>3. CASE a \in j .. len /\ b \in 1 .. j - 1
      <4>1. b # a + 1
        BY <1>4, <3>3
      <4> QED BY <1>2, <1>12, <3>3, <4>1
    <3>4. CASE a \in j .. len /\ b \in j .. len
      <4>1. k[a] = k[b] => a + 1 = b + 1
        <5>1. a + 1 \in 1 .. Len(l) /\ b + 1 \in 1 .. Len(l) /\ k[a] = l[a + 1] /\ k[b] = l[b + 1]
          BY <1>12, <3>4
        <5> QED BY <1>2, <5>1, ZenonT(60)
      <4>2. a \in Int /\ b \in Int
        BY <3>4
      <4> QED BY <4>1, <4>2
    <3> QED BY <1>12, <3>1, <3>2, <3>3, <3>4
  <2> HIDE DEF k, len
  <2> QED BY <1>12, <2>1, <2>2, ChainOf
<1> HIDE DEF k, len
<1>131. /\ len \in Nat /\ len + 1 = Len(l) /\ Len(k) = len
        /\ j \in Nat /\ j >= 2 /\ j <= Len(l) /\ Len(l) \in Nat
  BY <1>4, <1>12, <1>13
<1>14. k # <<>> /\ 1 \in 1 .. j - 1 /\ 1 \in 1 .. Len(l) /\ k[1] = l[1] /\ m.head = l[1]
  <2>1. 1 \in 1 .. j - 1 /\ 1 \in 1 .. Len(l)
    BY <1>4
  <2>2. Len(k) # 0
    BY <1>12, <1>13
  <2>3. k # <<>>
    BY <2>2
  <2> QED BY <1>2, <1>12, <2>1, <2>3
<1>15. Linked(n, k)
  <2>1. IsList(n, k)
    <3> SUFFICES ASSUME NEW i \in 1 .. Len(k)
                 PROVE  n.next[k[i]] = IF i = Len(k) THEN NULL ELSE k[i + 1]
      BY <1>10, <1>14 DEF IsList
    <3>1. CASE i \in 1 .. j - 1 /\ i # j - 1
      <4>1. i + 1 \in 1 .. j - 1 /\ i # Len(k) /\ i # Len(l)
        BY <1>4, <1>12, <1>13, <3>1
      <4>2. k[i] = l[i] /\ k[i + 1] = l[i + 1] /\ k[i] \in Timers /\ i \in 1 .. Len(l)
        BY <1>12, <3>1, <4>1
      <4>3. k[i] # prev
        BY <1>2, <1>4, <1>7, <3>1, <4>2
      <4> QED BY <1>5, <1>11, <4>1, <4>2, <4>3, ZenonT(60)
    <3>2. CASE i = j - 1
      <4>1. i \in 1 .. j - 1
        BY <1>4, <3>2
      <4>2. n.next[k[i]] = s
        BY <1>7, <1>11, <1>12, <3>2, <4>1
      <4>3. CASE j = Len(l)
        <5>1. i = Len(k)
          BY <1>131, <3>2, <4>3
        <5> QED BY <1>8, <4>2, <4>3, <5>1
      <4>4. CASE j # Len(l)
        <5>1. i # Len(k) /\ i + 1 \in j .. len /\ i + 1 = j
          BY <1>131, <3>2, <4>4
        <5>2. k[i + 1] = l[j + 1]
          BY <1>12, <5>1
        <5> QED BY <1>8, <4>2, <4>4, <5>1, <5>2
      <4> QED BY <4>3, <4>4
    <3>3. CASE i \in j .. len
      <4>1. k[i] = l[i + 1] /\ k[i] \in Timers /\ i + 1 \in 1 .. Len(l)
        BY <1>12, <3>3
      <4>2. k[i] # prev
        <5>1. i + 1 # j - 1
          BY <1>4, <3>3
        <5> QED BY <1>2, <1>4, <1>7, <4>1, <5>1
      <4>3. n.next[k[i]] = IF i + 1 = Len(l) THEN NULL ELSE l[(i + 1) + 1]
        BY <1>5, <1>11, <4>1, <4>2, ZenonT(60)
      <4>4. CASE i = len
        BY <1>12, <1>13, <4>3, <4>4
      <4>5. CASE i # len
        <5>1. i + 1 \in j .. len /\ i + 1 # Len(l)
          BY <1>4, <1>12, <3>3, <4>5
        <5>2. k[i + 1] = l[(i + 1) + 1]
          BY <1>12, <5>1
        <5> QED BY <1>13, <4>3, <4>5, <5>1, <5>2
      <4> QED BY <4>4, <4>5
    <3> QED BY <1>12, <1>13, <3>1, <3>2, <3>3
  <2>2. \A i \in 2 .. Len(k) : ~n.running[k[i]]
    <3> TAKE i \in 2 .. Len(k)
    <3>0. i \in 1 .. len
      BY <1>13
    <3>1. CASE i \in 1 .. j - 1
      <4>1. i \in 2 .. Len(l)
        BY <1>12, <1>13
      <4> QED BY <1>1, <1>10, <1>12, <3>1, <4>1 DEF Linked
    <3>2. CASE i \in j .. len
      <4>1. i + 1 \in 2 .. Len(l)
        BY <1>12, <1>13
      <4> QED BY <1>1, <1>10, <1>12, <3>2, <4>1 DEF Linked
    <3> QED BY <1>12, <3>0, <3>1, <3>2
  <2> QED BY <1>10, <1>13, <2>1, <2>2 DEF Linked
<1>16. Steps(n, k, at, due2)
  <2>0. /\ at \in [Timers -> Int] /\ due_ \in [Timers -> Nat]
        /\ \A i \in 2 .. Len(l) : at[l[i]] = at[l[i - 1]] + m.ts[l[i]]
        /\ \A i \in 1 .. Len(l) : at[l[i]] <= due_[l[i]]
    BY <1>1 DEF Steps
  <2>1. \A i \in 2 .. Len(k) : at[k[i]] = at[k[i - 1]] + n.ts[k[i]]
    <3> TAKE i \in 2 .. Len(k)
    <3>0. i \in 1 .. len /\ i - 1 \in 1 .. len /\ (i - 1) + 1 = i /\ (i + 1) - 1 = i
      BY <1>12, <1>13
    <3>1. CASE i \in 1 .. j - 1
      <4>1. i - 1 \in 1 .. j - 1 /\ i \in 2 .. Len(l)
        BY <1>4, <3>0, <3>1
      <4>2. k[i] = l[i] /\ k[i - 1] = l[i - 1] /\ k[i] \in Timers /\ i \in 1 .. Len(l)
        BY <1>12, <3>1, <4>1
      <4>3. l[i] # s
        <5>1. i # j + 1
          BY <1>4, <3>1
        <5>2. l[i] # NULL
          BY <1>2, <4>2
        <5>3. ASSUME j # Len(l) PROVE l[i] # l[j + 1]
          <6>1. j + 1 \in 1 .. Len(l) /\ i \in 1 .. Len(l)
            BY <1>8, <4>2, <5>3
          <6> QED BY <1>2, <5>1, <6>1
        <5> QED BY <1>8, <5>2, <5>3
      <4>4. n.ts[l[i]] = m.ts[l[i]] /\ at[l[i]] = at[l[i - 1]] + m.ts[l[i]]
        BY <1>11, <2>0, <4>1, <4>2, <4>3
      <4> QED BY <4>2, <4>4
    <3>2. CASE i = j
      <4>1. i \in j .. len /\ i - 1 \in 1 .. j - 1 /\ j # Len(l)
        BY <1>4, <1>12, <3>0, <3>2
      <4>2. k[i] = l[j + 1] /\ k[i - 1] = l[j - 1]
        BY <1>12, <3>2, <4>1
      <4>3. at[l[j + 1]] = at[l[j]] + m.ts[l[j + 1]] /\ at[l[j]] = at[l[j - 1]] + m.ts[l[j]]
        BY <1>4, <1>8, <2>0, <4>1
      <4>4. n.ts[k[i]] = m.ts[s] + m.ts[t] /\ s \in Timers
        BY <1>8, <1>11, <4>1, <4>2
      <4>5. at[s] = at[t] + m.ts[s] /\ at[t] = at[prev] + m.ts[t] /\ k[i] = s /\ k[i - 1] = prev
        BY <1>3, <1>7, <1>8, <4>1, <4>2, <4>3
      <4>6. at[prev] \in Int /\ m.ts[s] \in Int /\ m.ts[t] \in Int
        <5>1. prev \in Timers /\ at \in [Timers -> Int]
          BY <1>7, <2>0
        <5> QED BY <1>9, <4>4, <5>1
      <4>7. at[s] = (at[prev] + m.ts[t]) + m.ts[s]
        BY <4>5
      <4>8. at[s] = at[prev] + (m.ts[s] + m.ts[t])
        BY <4>6, <4>7
      <4> QED BY <4>4, <4>5, <4>8
    <3>3. CASE i \in j + 1 .. len
      <4>1. i \in j .. len /\ i - 1 \in j .. len /\ i + 1 \in 2 .. Len(l) /\ i # j
        BY <1>4, <1>12, <3>3
      <4>2. /\ k[i] = l[i + 1] /\ k[i - 1] = l[(i - 1) + 1] /\ k[i] \in Timers
            /\ i + 1 \in 1 .. Len(l)
        BY <1>12, <4>1
      <4>3. l[i + 1] # s
        <5>1. i + 1 # j + 1
          BY <1>4, <3>3
        <5>2. l[i + 1] # NULL
          BY <1>2, <4>2
        <5>3. ASSUME j # Len(l) PROVE l[i + 1] # l[j + 1]
          <6>1. j + 1 \in 1 .. Len(l) /\ i + 1 \in 1 .. Len(l)
            BY <1>8, <4>2, <5>3
          <6> QED BY <1>2, <5>1, <6>1
        <5> QED BY <1>8, <5>2, <5>3
      <4>4. at[l[i + 1]] = at[l[(i + 1) - 1]] + m.ts[l[i + 1]]
        BY <2>0, <4>1
      <4> QED BY <1>11, <3>0, <4>2, <4>3, <4>4
    <3>4. i \in 1 .. j - 1 \/ i = j \/ i \in j + 1 .. len
      BY <1>4, <3>0
    <3> QED BY <3>1, <3>2, <3>3, <3>4
  <2>2. \A i \in 1 .. Len(k) : at[k[i]] <= due2[k[i]]
    <3> TAKE i \in 1 .. Len(k)
    <3>1. k[i] \in Timers \ {t} /\ \E a \in 1 .. Len(l) : k[i] = l[a]
      BY <1>12, <1>13
    <3> QED BY <2>0, <3>1
  <2> QED BY <2>0, <2>1, <2>2 DEF Steps
<1>17. n.ts[n.head] = m.ts[m.head] /\ n.running[n.head] = m.running[m.head]
  <2>1. m.head \in Timers /\ m.head # s
    <3>1. m.head \in Timers /\ m.head # NULL
      BY <1>2, <1>14
    <3> QED BY <1>8, <3>1
  <2> QED BY <1>10, <1>11, <2>1
<1>18. Sound(n, k, at, due2, now)
  <2>1. Loaded(n) /\ n.context <= now
    BY <1>10, <1>17 DEF Sound, Loaded
  <2>2. HeadLeft(n, now) = HeadLeft(m, now)
    BY <1>10, <1>17 DEF HeadLeft, Remaining, Elapsed
  <2>3. l # <<>>
    BY <1>2, <1>4
  <2> QED BY <1>14, <1>15, <1>16, <2>1, <2>2, <2>3 DEF Sound
<1>19. t \notin Armed(n) /\ Armed(n) \subseteq Armed(m)
  <2>1. Armed(n) = {k[i] : i \in 1 .. Len(k)}
    BY <1>15, LinkedFacts
  <2>2. \A i \in 1 .. Len(k) : k[i] # t /\ k[i] \in Armed(m)
    BY SMTT(30), <1>2, <1>12, <1>13
  <2> QED BY <2>1, <2>2
<1>20. Aside(m, n, t)
  <2>1. prev \in Armed(m) /\ (s \in Timers => s \in Armed(m))
    BY <1>2, <1>4, <1>7, <1>8
  <2> QED BY <1>11, <1>19, <2>1 DEF Aside
<1>21. (Awake(m, now) => Awake(n, now)) /\ (Fresh(m, now) => Fresh(n, now))
  BY <1>10, <1>17 DEF Awake, Fresh
<1>22. ASSUME NEW p, Planned(m, l, p)
       PROVE  \E k2, q : /\ Linked(n, k2) /\ Planned(n, k2, q)
                         /\ \A u \in Armed(m) \ {t} : q[u] - p[u] \in -2 .. 1
  <2> DEFINE gap == IF s = NULL THEN 0
                    ELSE Cost(m.ts[s] + m.ts[t]) - Cost(m.ts[t]) - Cost(m.ts[s])
             After == {l[i] : i \in j + 1 .. Len(l)}
             q == [u \in Timers |-> IF u \in After THEN p[u] + gap ELSE p[u]]
  <2>1. /\ p \in [Timers -> Int] /\ p[l[1]] = m.timeout
        /\ \A i \in 2 .. Len(l) : p[l[i]] = p[l[i - 1]] + Cost(m.ts[l[i]])
        /\ \A i \in 1 .. Len(l) : /\ l[i] \in Timers /\ p[l[i]] \in Int
                                  /\ Cost(m.ts[l[i]]) \in Nat
    <3>1. l # <<>>
      BY <1>2, <1>4
    <3>2. \A i \in 1 .. Len(l) : l[i] \in Timers /\ m.ts[l[i]] \in Nat
      BY <1>2 DEF Shape
    <3> QED BY <1>22, <3>1, <3>2, CostFacts DEF Planned
  <2>2. gap \in -1 .. 1 /\ gap \in Int
    <3>1. ASSUME s # NULL PROVE gap \in -1 .. 1
      <4>1. m.ts[s] \in Nat /\ m.ts[t] \in Nat
        BY <1>8, <1>9, <3>1
      <4>2. /\ Cost(m.ts[s]) + Cost(m.ts[t]) - Cost(m.ts[s] + m.ts[t]) \in -1 .. 1
            /\ Cost(m.ts[s]) \in Nat /\ Cost(m.ts[t]) \in Nat
        BY <4>1, CostFacts
      <4>3. Cost(m.ts[s] + m.ts[t]) \in Nat
        <5>1. m.ts[s] + m.ts[t] \in Nat
          BY SMTT(30), <4>1
        <5> QED BY <5>1, CostFacts
      <4>4. gap = Cost(m.ts[s] + m.ts[t]) - Cost(m.ts[t]) - Cost(m.ts[s])
        BY <3>1
      <4> HIDE DEF gap
      <4> QED BY <4>2, <4>3, <4>4
    <3>2. s = NULL => gap = 0
      OBVIOUS
    <3> HIDE DEF gap
    <3> QED BY <3>1, <3>2
  <2>3. /\ \A i \in 1 .. j : l[i] \notin After
        /\ \A i \in j + 1 .. Len(l) : l[i] \in After
    <3>1. ASSUME NEW i \in 1 .. j, NEW a \in j + 1 .. Len(l) PROVE l[i] # l[a]
      <4>1. i \in 1 .. Len(l) /\ a \in 1 .. Len(l) /\ i # a
        BY <1>131
      <4> QED BY <1>2, <4>1
    <3> QED BY <3>1
  <2>4. s # NULL => p[prev] + Cost(n.ts[s]) = p[s] + gap
    <3> SUFFICES ASSUME s # NULL PROVE p[prev] + Cost(n.ts[s]) = p[s] + gap
      OBVIOUS
    <3>1. s = l[j + 1] /\ j + 1 \in 2 .. Len(l) /\ (j + 1) - 1 = j /\ j + 1 \in 1 .. Len(l)
      BY <1>8
    <3>2. p[s] = p[t] + Cost(m.ts[s]) /\ p[t] = p[prev] + Cost(m.ts[t])
      <4>1. p[l[j + 1]] = p[l[j]] + Cost(m.ts[l[j + 1]])
        BY <2>1, <3>1
      <4>2. p[l[j]] = p[l[j - 1]] + Cost(m.ts[l[j]])
        BY <1>4, <2>1
      <4> QED BY <1>3, <1>7, <3>1, <4>1, <4>2
    <3>3. n.ts[s] = m.ts[s] + m.ts[t] /\ s \in Timers
      BY <1>8, <1>11
    <3>4. Cost(m.ts[s]) \in Nat /\ Cost(m.ts[t]) \in Nat /\ p[prev] \in Int
      BY <1>3, <1>4, <1>7, <2>1, <3>1
    <3>5. Cost(m.ts[s] + m.ts[t]) \in Nat
      <4>1. m.ts[s] + m.ts[t] \in Nat
        BY <1>9, <3>3
      <4> QED BY <4>1, CostFacts
    <3>6. gap = Cost(m.ts[s] + m.ts[t]) - Cost(m.ts[t]) - Cost(m.ts[s])
      OBVIOUS
    <3> HIDE DEF gap
    <3> QED BY <2>2, <3>2, <3>3, <3>4, <3>5, <3>6
  <2> HIDE DEF gap, After
  <2>5. /\ q \in [Timers -> Int]
        /\ \A i \in 1 .. j : q[l[i]] = p[l[i]]
        /\ \A i \in j + 1 .. Len(l) : q[l[i]] = p[l[i]] + gap
    <3>1. q \in [Timers -> Int]
      BY <2>1, <2>2
    <3>2. \A u \in Timers : q[u] = IF u \in After THEN p[u] + gap ELSE p[u]
      OBVIOUS
    <3>3. \A i \in 1 .. j : i \in 1 .. Len(l)
      BY <1>131
    <3>4. \A i \in j + 1 .. Len(l) : i \in 1 .. Len(l)
      BY <1>131
    <3> HIDE DEF q
    <3> QED BY <2>1, <2>3, <3>1, <3>2, <3>3, <3>4
  <2> HIDE DEF q
  <2>6. \A a \in 1 .. Len(l) : a # j + 1 => n.ts[l[a]] = m.ts[l[a]]
    <3> SUFFICES ASSUME NEW a \in 1 .. Len(l), a # j + 1 PROVE n.ts[l[a]] = m.ts[l[a]]
      OBVIOUS
    <3>1. l[a] # s
      <4>1. l[a] # NULL
        BY <1>2
      <4> QED BY <1>2, <1>8, <4>1
    <3> QED BY <1>2, <1>11, <3>1
  <2>7. \A i \in 2 .. Len(k) : q[k[i]] = q[k[i - 1]] + Cost(n.ts[k[i]])
    <3> TAKE i \in 2 .. Len(k)
    <3>1. i \in 1 .. j - 1 \/ i = j \/ i \in j + 1 .. len
      BY <1>131
    <3>2. CASE i \in 1 .. j - 1
      <4>1. /\ i \in 2 .. Len(l) /\ i \in 1 .. Len(l) /\ i # j + 1
            /\ i - 1 \in 1 .. j - 1 /\ i \in 1 .. j /\ i - 1 \in 1 .. j
        BY <1>131, <3>2
      <4>2. k[i] = l[i] /\ k[i - 1] = l[i - 1]
        BY <1>12, <3>2, <4>1
      <4>3. n.ts[l[i]] = m.ts[l[i]] /\ p[l[i]] = p[l[i - 1]] + Cost(m.ts[l[i]])
        BY <2>1, <2>6, <4>1
      <4> QED BY <2>5, <4>1, <4>2, <4>3
    <3>3. CASE i = j
      <4>1. /\ i \in j .. len /\ i - 1 \in 1 .. j - 1 /\ j # Len(l)
            /\ j + 1 \in j + 1 .. Len(l) /\ j - 1 \in 1 .. j
        BY <1>131, <3>3
      <4>2. k[i] = s /\ k[i - 1] = prev /\ s # NULL
        BY <1>7, <1>8, <1>12, <3>3, <4>1
      <4>3. q[s] = p[s] + gap /\ q[prev] = p[prev]
        BY <1>7, <1>8, <2>5, <4>1
      <4> QED BY <2>4, <4>2, <4>3
    <3>4. CASE i \in j + 1 .. len
      <4>1. /\ i \in j .. len /\ i - 1 \in j .. len /\ (i - 1) + 1 = i /\ (i + 1) - 1 = i
            /\ i + 1 \in 2 .. Len(l) /\ i + 1 \in 1 .. Len(l) /\ i \in 1 .. Len(l)
            /\ i + 1 # j + 1 /\ i \in j + 1 .. Len(l) /\ i + 1 \in j + 1 .. Len(l)
        BY <1>131, <3>4
      <4>2. k[i] = l[i + 1] /\ k[i - 1] = l[i]
        BY <1>12, <4>1
      <4>3. n.ts[l[i + 1]] = m.ts[l[i + 1]] /\ p[l[i + 1]] = p[l[i]] + Cost(m.ts[l[i + 1]])
        BY <2>1, <2>6, <4>1
      <4>4. q[l[i + 1]] = p[l[i + 1]] + gap /\ q[l[i]] = p[l[i]] + gap
        BY <2>5, <4>1
      <4>5. Cost(m.ts[l[i + 1]]) \in Nat /\ p[l[i]] \in Int
        BY <2>1, <4>1
      <4> QED BY <2>2, <4>2, <4>3, <4>4, <4>5
    <3> QED BY <3>1, <3>2, <3>3, <3>4
  <2>8. Linked(n, k) /\ Planned(n, k, q)
    <3>1. q[k[1]] = n.timeout
      <4>1. 1 \in 1 .. j
        BY <1>131
      <4> QED BY <1>10, <1>14, <2>1, <2>5, <4>1
    <3> QED BY <1>15, <2>5, <2>7, <3>1 DEF Planned
  <2>9. \A u \in Armed(m) \ {t} : q[u] - p[u] \in -2 .. 1
    <3> TAKE u \in Armed(m) \ {t}
    <3>1. PICK a \in 1 .. Len(l) : u = l[a]
      BY <1>2
    <3>2. a \in 1 .. j \/ a \in j + 1 .. Len(l)
      BY <1>131
    <3>3. q[u] \in {p[u], p[u] + gap} /\ p[u] \in Int
      BY <2>1, <2>5, <3>1, <3>2
    <3> QED BY <2>2, <3>3
  <2> QED BY <2>8, <2>9
<1>23. Near(m, l, n, t)
  BY <1>22 DEF Near
<1> QED BY <1>6, <1>18, <1>19, <1>20, <1>21, <1>23 DEF Result

-----------------------------------------------------------------------------
(* The calls.                                                              *)

\* TimerStart.
LEMMA StartResult ==
  ASSUME NEW now \in Nat, NEW m, NEW l, NEW at, NEW due_, Sound(m, l, at, due_, now),
         NEW t \in Timers, m.reload[t] > 0
  PROVE  /\ Result(m, Start(m, t, now), t,
                IF t \in Armed(m) THEN due_ ELSE [due_ EXCEPT ![t] = now + m.reload[t]], now)
         /\ Awake(m, now) => Near(m, l, Start(m, t, now), t)
<1>1. CASE t \in Armed(m)
  <2>1. Start(m, t, now) = m
    BY <1>1 DEF Start
  <2>2. Aside(m, m, t)
    BY DEF Aside
  <2>3. Near(m, l, m, t)
    BY NearSelf DEF Sound
  <2> QED BY <1>1, <2>1, <2>2, <2>3 DEF Result
<1>2. CASE t \notin Armed(m)
  <2> DEFINE f == [m EXCEPT !.ts[t] = m.reload[t], !.running[t] = FALSE]
             due2 == [due_ EXCEPT ![t] = now + m.reload[t]]
             left == Remaining(f, now)
  <2>1. m \in Shape /\ due_ \in [Timers -> Nat]
    <3>1. Linked(m, l)
      BY DEF Sound
    <3> QED BY <3>1, LinkedFacts DEF Sound, Steps
  <2>2. m.reload[t] \in Nat /\ m.reload[t] >= 1
    BY <2>1 DEF Shape
  <2>3. /\ f \in Shape /\ f.head = m.head /\ f.next = m.next
        /\ f.context = m.context /\ f.timeout = m.timeout
        /\ f.ts = [m.ts EXCEPT ![t] = m.reload[t]]
        /\ f.running = [m.running EXCEPT ![t] = FALSE]
    BY <2>1, <2>2 DEF Shape
  <2>4. due2 \in [Timers -> Nat] /\ due2[t] = now + m.reload[t]
        /\ \A u \in Timers \ {t} : due2[u] = due_[u]
    BY <2>1, <2>2
  <2> HIDE DEF f, due2
  <2>5. /\ f.ts[t] = m.reload[t] /\ ~f.running[t]
        /\ \A u \in Timers \ {t} : f.ts[u] = m.ts[u] /\ f.running[u] = m.running[u]
    BY <2>1, <2>3 DEF Shape
  <2>6. /\ Sound(f, l, at, due2, now)
        /\ Result(m, f, t, due2, now)
        /\ Armed(f) = Armed(m)
        /\ \A p : Planned(m, l, p) => Planned(f, l, p)
    <3>1. \A u \in Timers \ {t} : /\ f.ts[u] = m.ts[u] /\ f.running[u] = m.running[u]
                                  /\ due2[u] = due_[u]
      BY <2>4, <2>5
    <3>2. due2 \in [Timers -> Nat]
      BY <2>4
    <3>3. /\ f \in Shape /\ f.head = m.head /\ f.next = m.next
          /\ f.context = m.context /\ f.timeout = m.timeout
      BY <2>3
    <3> QED BY <1>2, <3>1, <3>2, <3>3, Outside
  <2>7. t \notin Armed(f) /\ f.ts[t] \in Nat /\ f.ts[t] >= 1 /\ due2[t] = now + f.ts[t]
    BY <1>2, <2>2, <2>4, <2>5, <2>6
  <2>8. f.head # NULL => left \in Nat
    <3>1. f.head # NULL => f.head \in Timers
      BY <2>3 DEF Shape, Pointers
    <3> QED BY <2>3, <3>1 DEF Shape, Remaining, Elapsed
  <2>9. Start(m, t, now) = IF m.head = NULL THEN InsertNewHead(f, t, f.ts[t], now)
                           ELSE IF f.ts[t] < left THEN InsertNewHead(f, t, left, now)
                           ELSE InsertTimer(f, t, left)
    BY <1>2 DEF Start, f
  <2>10. /\ Result(f, Start(m, t, now), t, due2, now)
         /\ Awake(f, now) => Near(f, l, Start(m, t, now), t)
    <3>1. CASE m.head = NULL
      <4>1. /\ Result(f, InsertNewHead(f, t, f.ts[t], now), t, due2, now)
            /\ Awake(f, now) => Near(f, l, InsertNewHead(f, t, f.ts[t], now), t)
        BY ZenonT(60), <2>3, <2>6, <2>7, <3>1, NewHead
      <4> QED BY <2>9, <3>1, <4>1
    <3>2. CASE m.head # NULL /\ f.ts[t] < left
      <4>1. /\ Result(f, InsertNewHead(f, t, left, now), t, due2, now)
            /\ Awake(f, now) => Near(f, l, InsertNewHead(f, t, left, now), t)
        BY <2>6, <2>7, <3>2, NewHead
      <4> QED BY <2>9, <3>2, <4>1
    <3>3. CASE m.head # NULL /\ ~(f.ts[t] < left)
      <4>1. Remaining(f, now) <= f.ts[t]
        BY <2>3, <2>7, <2>8, <3>3
      <4>2. /\ Result(f, InsertTimer(f, t, Remaining(f, now)), t, due2, now)
            /\ Near(f, l, InsertTimer(f, t, Remaining(f, now)), t)
        BY ZenonT(60), <2>3, <2>5, <2>6, <2>7, <3>3, <4>1, Behind
      <4> QED BY <2>9, <3>3, <4>2
    <3> QED BY <3>1, <3>2, <3>3
  <2>11. Aside(m, Start(m, t, now), t)
    BY <2>6, <2>10 DEF Result, Aside
  <2>12. Result(m, Start(m, t, now), t, due2, now)
    BY <2>6, <2>10, <2>11 DEF Result
  <2>13. Awake(m, now) => Near(m, l, Start(m, t, now), t)
    <3>1. Awake(m, now) => Awake(f, now)
      BY <2>6 DEF Result
    <3> QED BY <2>6, <2>10, <3>1 DEF Near
  <2> QED BY <1>2, <2>12, <2>13 DEF due2
<1> QED BY <1>1, <1>2

\* TimerStop.
LEMMA StopResult ==
  ASSUME NEW now \in Nat, NEW m, NEW l, NEW at, NEW due_, Sound(m, l, at, due_, now),
         NEW t \in Timers
  PROVE  /\ Result(m, Stop(m, t, now), t, [due_ EXCEPT ![t] = 0], now)
         /\ t \notin Armed(Stop(m, t, now))
         /\ Awake(m, now) => Near(m, l, Stop(m, t, now), t)
<1> DEFINE due2 == [due_ EXCEPT ![t] = 0]
<1>1. m \in Shape /\ due_ \in [Timers -> Nat]
  <2>1. Linked(m, l)
    BY DEF Sound
  <2> QED BY <2>1, LinkedFacts DEF Sound, Steps
<1>2. due2 \in [Timers -> Nat] /\ \A u \in Timers \ {t} : due2[u] = due_[u]
  BY <1>1
<1> HIDE DEF due2
<1>3. /\ Result(m, Stop(m, t, now), t, due2, now) /\ t \notin Armed(Stop(m, t, now))
      /\ Awake(m, now) => Near(m, l, Stop(m, t, now), t)
  <2>1. CASE t \notin Armed(m)
    <3>1. Stop(m, t, now) = m
      BY <2>1 DEF Stop
    <3>2. \A u \in Timers \ {t} : /\ m.ts[u] = m.ts[u] /\ m.running[u] = m.running[u]
                                  /\ due2[u] = due_[u]
      BY <1>2
    <3>3. Result(m, m, t, due2, now)
      BY <1>1, <1>2, <2>1, <3>2, Outside
    <3>4. Near(m, l, m, t)
      BY NearSelf DEF Sound
    <3> QED BY <2>1, <3>1, <3>3, <3>4
  <2>2. CASE t \in Armed(m) /\ m.head = t
    <3>1. Stop(m, t, now) = StopHead(m, now)
      BY <2>2 DEF Stop
    <3> QED BY <1>2, <2>2, <3>1, HeadStopped
  <2>3. CASE t \in Armed(m) /\ m.head # t
    <3>1. Stop(m, t, now) = StopWithin(m, t)
      BY <2>3 DEF Stop
    <3> QED BY <1>2, <2>3, <3>1, WithinStopped
  <2> QED BY <2>1, <2>2, <2>3
<1> QED BY <1>3 DEF due2

\* TimerSetValue.
LEMMA SetValueResult ==
  ASSUME NEW now \in Nat, NEW m, NEW l, NEW at, NEW due_, Sound(m, l, at, due_, now),
         NEW t \in Timers, NEW v \in Values
  PROVE  /\ Result(m, SetValue(m, t, v, now), t, [due_ EXCEPT ![t] = 0], now)
         /\ t \notin Armed(SetValue(m, t, v, now))
         /\ Awake(m, now) => Near(m, l, SetValue(m, t, v, now), t)
<1> DEFINE p == Stop(m, t, now)
           due2 == [due_ EXCEPT ![t] = 0]
           value == IF v < 1 THEN 1 ELSE v
           n == [p EXCEPT !.ts[t] = value, !.reload[t] = value]
<1>1. /\ Result(m, p, t, due2, now) /\ t \notin Armed(p)
      /\ Awake(m, now) => Near(m, l, p, t)
  BY StopResult
<1>2. n = SetValue(m, t, v, now)
  BY DEF SetValue
<1>3. value \in Nat
  BY TimerAssumption
<1> HIDE DEF p, due2, value
<1>4. PICK k, bt : Sound(p, k, bt, due2, now)
  BY <1>1 DEF Result
<1>5. p \in Shape /\ due2 \in [Timers -> Nat]
  <2>1. Linked(p, k)
    BY <1>4 DEF Sound
  <2> QED BY <1>4, <2>1, LinkedFacts DEF Sound, Steps
<1>6. /\ n \in Shape /\ n.head = p.head /\ n.next = p.next
      /\ n.context = p.context /\ n.timeout = p.timeout /\ n.running = p.running
      /\ \A u \in Timers \ {t} : n.ts[u] = p.ts[u]
  BY <1>3, <1>5 DEF Shape
<1> HIDE DEF n
<1>7. /\ Result(p, n, t, due2, now)
      /\ Linked(n, k) /\ \A q : Planned(p, k, q) => Planned(n, k, q)
      /\ Armed(n) = Armed(p)
  BY <1>1, <1>4, <1>5, <1>6, Outside
<1>8. Aside(m, n, t)
  BY <1>1, <1>7 DEF Result, Aside
<1>9. Result(m, n, t, due2, now)
  BY <1>1, <1>7, <1>8 DEF Result
<1>10. ASSUME Awake(m, now) PROVE Near(m, l, n, t)
  <2> SUFFICES ASSUME NEW q, Planned(m, l, q)
               PROVE  \E k2, q2 : /\ Linked(n, k2) /\ Planned(n, k2, q2)
                                  /\ \A u \in Armed(m) \ {t} : q2[u] - q[u] \in -2 .. 1
    BY DEF Near
  <2>1. PICK k2, q2 : /\ Linked(p, k2) /\ Planned(p, k2, q2)
                      /\ \A u \in Armed(m) \ {t} : q2[u] - q[u] \in -2 .. 1
    BY <1>1, <1>10 DEF Near
  <2>2. k2 = k
    BY <1>4, <2>1, ListIs DEF Sound, Linked
  <2> QED BY <1>7, <2>1, <2>2
<1> QED BY <1>1, <1>2, <1>7, <1>9, <1>10 DEF due2

-----------------------------------------------------------------------------
(* The tick and the handler.                                               *)

\* The timers of c are those of who and each leads to the next.  Those that wait
\* behind the first have nothing left of their delay, and while there are any
\* none of c is in the list.
Waits(m, who, first, c) ==
  /\ c \in Chains /\ Len(c) # 0 /\ c[1] = first
  /\ who = {c[i] : i \in 1 .. Len(c)}
  /\ \A i \in 1 .. Len(c) : i # 1 => m.ts[c[i]] = 0
  /\ \A i \in 1 .. Len(c) : Len(c) # 1 => c[i] \notin Armed(m)
  /\ \A i \in 1 .. Len(c) : i # Len(c) => m.next[c[i]] = c[i + 1]

\* A tick that is not the alarm takes one off what is left to the head.
LEMMA Passes ==
  ASSUME NEW now \in Nat, NEW m, NEW l, NEW at, NEW due_, Sound(m, l, at, due_, now),
         Awake(m, now), m.head = NULL \/ m.timeout # now + 1
  PROVE  Sound(m, l, at, due_, now + 1) /\ Awake(m, now + 1)
<1>1. Linked(m, l)
  BY DEF Sound
<1>2. CASE m.head = NULL
  <2>1. l = <<>>
    BY <1>1, <1>2, LinkedFacts
  <2>2. m.context \in Nat
    BY <1>1, LinkedFacts DEF Shape
  <2>3. m.context <= now + 1
    BY <2>2 DEF Sound
  <2> QED BY <1>2, <2>1, <2>3 DEF Sound, Awake
<1>3. CASE m.head # NULL
  <2>1. /\ l # <<>> /\ m.head \in Timers /\ m.ts[m.head] \in Nat /\ m.context \in Nat
        /\ m.timeout \in Nat
    BY <1>1, <1>3, LinkedFacts DEF Shape
  <2>2. m.running[m.head] /\ m.timeout > now /\ m.timeout # now + 1 /\ m.context <= now
    BY <1>3 DEF Awake, Sound
  <2>3. m.timeout = IF m.ts[m.head] <= 2 THEN m.context + 1
                    ELSE m.context + m.ts[m.head] - 1
    BY <1>3, <2>2 DEF Sound, Loaded
  <2>4. m.ts[m.head] > 2 /\ m.context + m.ts[m.head] - 1 > now + 1
    BY <2>1, <2>2, <2>3
  <2>5. HeadLeft(m, now) = m.ts[m.head] - Elapsed(m, now)
    BY <2>1, <2>2, <2>4 DEF HeadLeft, Remaining, Elapsed
  <2>51. /\ Elapsed(m, now) \in Int /\ Elapsed(m, now + 1) = Elapsed(m, now) + 1
         /\ Elapsed(m, now) + 1 <= m.ts[m.head]
    <3> DEFINE e == now - m.context + 1
    <3>1. e \in Int /\ (now + 1) - m.context + 1 = e + 1
      BY <2>1
    <3>2. e + 1 <= m.ts[m.head]
      BY SMTT(30), <2>1, <2>4
    <3>3. Elapsed(m, now) = e /\ Elapsed(m, now + 1) = (now + 1) - m.context + 1
      BY DEF Elapsed
    <3> HIDE DEF e
    <3> QED BY <3>1, <3>2, <3>3
  <2>6. HeadLeft(m, now + 1) = m.ts[m.head] - (Elapsed(m, now) + 1)
    BY <2>1, <2>2, <2>51 DEF HeadLeft, Remaining
  <2>7. now + 1 + HeadLeft(m, now + 1) = now + HeadLeft(m, now)
    BY SMTT(30), <2>1, <2>5, <2>51, <2>6
  <2>8. m.context <= now + 1 /\ m.timeout > now + 1
    BY <2>1, <2>2
  <2> QED BY <2>2, <2>7, <2>8 DEF Sound, Awake
<1> QED BY <1>2, <1>3

\* The alarm: the head's delay is spent, the timers that are due leave the list,
\* and the promises of the others are no later than before.
LEMMA Fires ==
  ASSUME NEW now \in Nat, NEW m, NEW l, NEW at, NEW due_, Sound(m, l, at, due_, now),
         Awake(m, now), m.head # NULL, m.timeout = now + 1
  PROVE  LET q == Charge(m, now + 1)
         IN /\ q.head = m.head /\ q.ts[m.head] = 0
            /\ \E k, bt : Sound(Unlink(q), k, bt,
                                [t \in Timers |-> IF t \in Expired(q) THEN 0 ELSE due_[t]],
                                now + 1)
            /\ Fresh(Unlink(q), now + 1)
            /\ \E c : Waits(Unlink(q), Expired(q), m.head, c)
<1> DEFINE q == Charge(m, now + 1)
           u == Unlink(q)
           live == {i \in 1 .. Len(l) : q.ts[l[i]] /= 0}
           p == IF live = {} THEN Len(l) + 1 ELSE Min(live)
           due2 == [t \in Timers |-> IF t \in Expired(q) THEN 0 ELSE due_[t]]
           len == Len(l) + 1 - p
           k == [i \in 1 .. len |-> l[(i + p) - 1]]
           c == [i \in 1 .. p - 1 |-> l[i]]
<1>1. Linked(m, l) /\ Steps(m, l, at, due_)
  BY DEF Sound
<1>2. /\ m \in Shape
      /\ l \in [1 .. Len(l) -> Timers] /\ Len(l) \in Nat
      /\ \A i, j \in 1 .. Len(l) : l[i] = l[j] => i = j
      /\ l # <<>> /\ 1 \in 1 .. Len(l) /\ m.head = l[1] /\ m.head \in Timers
      /\ NULL \notin Timers
  BY <1>1, LinkedFacts
<1>3. /\ at \in [Timers -> Int] /\ due_ \in [Timers -> Nat]
      /\ \A i \in 2 .. Len(l) : at[l[i]] = at[l[i - 1]] + m.ts[l[i]]
      /\ \A i \in 1 .. Len(l) : at[l[i]] <= due_[l[i]]
  BY <1>1 DEF Steps
<1>4. m.ts[m.head] \in Nat /\ m.context \in Nat /\ m.running[m.head]
  BY <1>2 DEF Shape, Awake
<1>5. now + 1 = IF m.ts[m.head] <= 2 THEN m.context + 1
                ELSE m.context + m.ts[m.head] - 1
  BY <1>4 DEF Sound, Loaded
<1>6. (IF Elapsed(m, now + 1) > m.ts[m.head] THEN 0
       ELSE m.ts[m.head] - Elapsed(m, now + 1)) = 0
  BY <1>4, <1>5 DEF Elapsed
<1>7. at[l[1]] \in {now, now + 1}
  <2>1. at[l[1]] = now + HeadLeft(m, now)
    BY <1>2 DEF Sound
  <2>2. HeadLeft(m, now) \in {0, 1}
    <3>1. CASE m.ts[m.head] <= 2
      <4>1. now = m.context
        BY <1>4, <1>5, <3>1
      <4>2. Elapsed(m, now) = 1
        BY <1>4, <4>1 DEF Elapsed
      <4> QED BY <1>4, <3>1, <4>2 DEF HeadLeft, Remaining
    <3>2. CASE ~(m.ts[m.head] <= 2)
      <4>1. Elapsed(m, now) = m.ts[m.head] - 1
        BY <1>4, <1>5, <3>2 DEF Elapsed
      <4> QED BY <1>4, <3>2, <4>1 DEF HeadLeft, Remaining
    <3> QED BY <3>1, <3>2
  <2> QED BY <2>1, <2>2
<1>8. /\ q \in Shape /\ q.head = m.head /\ q.next = m.next /\ q.running = m.running
      /\ q.context = m.context
      /\ q.ts = [m.ts EXCEPT ![m.head] = 0]
  <2>1. q = [m EXCEPT !.ts[m.head] = IF Elapsed(m, now + 1) > m.ts[m.head] THEN 0
                                     ELSE m.ts[m.head] - Elapsed(m, now + 1)]
    BY <1>2 DEF Charge, Shape
  <2>2. q = [m EXCEPT !.ts[m.head] = 0]
    BY <1>6, <2>1, Zenon
  <2> HIDE DEF q
  <2> QED BY <1>2, <2>2 DEF Shape
<1> HIDE DEF q
<1>9. /\ q.ts[m.head] = 0
      /\ \A t \in Timers : t # m.head => q.ts[t] = m.ts[t]
      /\ \A t \in Timers : q.ts[t] \in Nat
  BY <1>2, <1>8 DEF Shape
<1>10. Linked(q, l) /\ List(q) = l
  <2>1. Linked(q, l)
    BY <1>1, <1>8 DEF Linked, IsList
  <2> QED BY <2>1, ListIs DEF Linked
<1>11. /\ p \in 2 .. Len(l) + 1 /\ p \in Nat
       /\ \A i \in 1 .. p - 1 : i \in 1 .. Len(l) /\ q.ts[l[i]] = 0
       /\ p # Len(l) + 1 => p \in 2 .. Len(l) /\ q.ts[l[p]] # 0
       /\ live = {} => p = Len(l) + 1
       /\ live # {} => p = Min(live) /\ p # Len(l) + 1
  <2>1. 1 \notin live
    BY <1>2, <1>9
  <2>2. CASE live = {}
    <3>1. \A i \in 1 .. Len(l) : q.ts[l[i]] = 0
      BY <2>2
    <3>2. p = Len(l) + 1
      BY <2>2
    <3> HIDE DEF p, live
    <3> QED BY <1>2, <2>2, <3>1, <3>2
  <2>3. CASE live # {}
    <3>1. live \subseteq Nat
      BY <1>2
    <3>2. Min(live) \in live /\ \A i \in live : Min(live) <= i
      <4> HIDE DEF live
      <4> QED BY <2>3, <3>1, MinFacts
    <3>3. p = Min(live)
      BY <2>3
    <3> HIDE DEF p
    <3>4. p \in 1 .. Len(l) /\ q.ts[l[p]] # 0 /\ p # 1
      BY <2>1, <3>2, <3>3
    <3>5. \A i \in 1 .. Len(l) : i < p => q.ts[l[i]] = 0
      <4> SUFFICES ASSUME NEW i \in 1 .. Len(l), i < p, q.ts[l[i]] # 0 PROVE FALSE
        OBVIOUS
      <4>1. i \in live
        OBVIOUS
      <4>2. p <= i
        BY <3>2, <3>3, <4>1
      <4> QED BY <3>4, <4>2
    <3>6. p \in Nat /\ Len(l) \in Nat /\ p <= Len(l) /\ p >= 2
      BY <1>2, <3>4
    <3>7. \A i \in 1 .. p - 1 : i \in 1 .. Len(l) /\ i < p
      BY <3>6
    <3>8. p \in 2 .. Len(l) + 1 /\ p \in 2 .. Len(l) /\ p # Len(l) + 1
      BY <3>6
    <3> QED BY <2>3, <3>3, <3>4, <3>5, <3>6, <3>7, <3>8
  <2> QED BY <2>2, <2>3
<1>12. Unlink(q) = [q EXCEPT !.head = IF live = {} THEN NULL ELSE l[Min(live)]]
  BY <1>10 DEF Unlink
<1>13. Expired(q) = {l[i] : i \in 1 .. p - 1}
  <2>1. Expired(q) = {l[i] : i \in {a \in 1 .. Len(l) : \A j \in 1 .. a : q.ts[l[j]] = 0}}
    BY <1>10 DEF Expired
  <2>2. ASSUME NEW a \in 1 .. Len(l)
        PROVE  (\A j \in 1 .. a : q.ts[l[j]] = 0) <=> a \in 1 .. p - 1
    <3> HIDE DEF p
    <3>1. CASE a \in 1 .. p - 1
      <4>0. p \in Nat
        BY <1>11
      <4>1. \A j \in 1 .. a : j \in 1 .. p - 1
        BY <3>1, <4>0
      <4> QED BY <1>11, <3>1, <4>1
    <3>2. CASE a \notin 1 .. p - 1
      <4>1. p # Len(l) + 1 /\ p \in 1 .. a
        BY <1>2, <1>11, <3>2
      <4> QED BY <1>11, <3>2, <4>1
    <3> QED BY <3>1, <3>2
  <2>3. \A a \in 1 .. p - 1 : a \in 1 .. Len(l)
    BY <1>11
  <2> HIDE DEF p
  <2> QED BY <2>1, <2>2, <2>3
<1>14. /\ u \in Shape /\ u.head = (IF p = Len(l) + 1 THEN NULL ELSE l[p])
       /\ u.next = m.next /\ u.running = m.running /\ u.context = m.context
       /\ u.ts = q.ts
  <2>1. (IF live = {} THEN NULL ELSE l[Min(live)]) = (IF p = Len(l) + 1 THEN NULL ELSE l[p])
    <3> HIDE DEF p, live
    <3> QED BY <1>11
  <2>2. u = [q EXCEPT !.head = IF p = Len(l) + 1 THEN NULL ELSE l[p]]
    BY <1>12, <2>1, Zenon
  <2>3. (IF p = Len(l) + 1 THEN NULL ELSE l[p]) \in Pointers
    <3> HIDE DEF p
    <3>1. p # Len(l) + 1 => p \in 1 .. Len(l)
      BY <1>11
    <3> QED BY <1>2, <3>1 DEF Pointers
  <2> HIDE DEF u, p
  <2> QED BY <1>8, <2>2, <2>3 DEF Shape
<1> HIDE DEF u, p, live
<1>15. /\ due2 \in [Timers -> Nat]
       /\ \A t \in Timers : t \notin Expired(q) => due2[t] = due_[t]
  BY <1>3
<1>16. /\ len \in Nat /\ (len + p) - 1 = Len(l) /\ Len(l) \in Nat
       /\ p >= 2 /\ p <= Len(l) + 1 /\ p \in Nat
       /\ len = 0 <=> p = Len(l) + 1
       /\ \A i \in 1 .. len : /\ (i + p) - 1 \in 2 .. Len(l) /\ (i + p) - 1 \in 1 .. Len(l)
                              /\ k[i] = l[(i + p) - 1] /\ k[i] \in Timers
                              /\ k[i] \notin Expired(q) /\ k[i] # m.head
  <2>1. /\ len \in Nat /\ (len + p) - 1 = Len(l) /\ Len(l) \in Nat
        /\ p >= 2 /\ p <= Len(l) + 1 /\ p \in Nat
        /\ len = 0 <=> p = Len(l) + 1
    BY <1>2, <1>11
  <2>2. ASSUME NEW i \in 1 .. len
        PROVE  /\ (i + p) - 1 \in 2 .. Len(l) /\ (i + p) - 1 \in 1 .. Len(l)
               /\ k[i] = l[(i + p) - 1] /\ k[i] \in Timers
               /\ k[i] \notin Expired(q) /\ k[i] # m.head
    <3>1. /\ (i + p) - 1 \in 2 .. Len(l) /\ (i + p) - 1 \in 1 .. Len(l)
          /\ (i + p) - 1 # 1 /\ (i + p) - 1 \notin 1 .. p - 1
      BY <2>1
    <3>2. k[i] = l[(i + p) - 1]
      OBVIOUS
    <3>3. k[i] \in Timers /\ k[i] # m.head
      BY <1>2, <3>1, <3>2
    <3>4. \A j \in 1 .. p - 1 : l[j] # k[i]
      BY <1>2, <1>11, <3>1, <3>2
    <3>5. k[i] \notin Expired(q)
      BY <1>13, <3>4
    <3> QED BY <3>1, <3>2, <3>3, <3>5
  <2> QED BY <2>1, <2>2
<1> HIDE DEF due2
<1>17. k \in Chains /\ Len(k) = len
  <2>1. k \in [1 .. len -> Timers]
    <3>1. \A i \in 1 .. len : k[i] \in Timers
      BY <1>16
    <3> QED BY <3>1
  <2>2. \A i, j \in 1 .. len : k[i] = k[j] => i = j
    <3> HIDE DEF k, len
    <3> TAKE i, j \in 1 .. len
    <3>1. k[i] = k[j] => (i + p) - 1 = (j + p) - 1
      BY SMTT(30), <1>2, <1>16
    <3>2. i \in Int /\ j \in Int /\ p \in Int
      BY <1>16
    <3> QED BY <3>1, <3>2
  <2> HIDE DEF k, len
  <2> QED BY <1>16, <2>1, <2>2, ChainOf
<1> HIDE DEF k, len
<1>18. k = <<>> <=> len = 0
  BY <1>17, ChainFacts
<1>19. len # 0 => k[1] = l[p] /\ p \in 2 .. Len(l) /\ 1 \in 1 .. len
  <2> SUFFICES ASSUME len # 0 PROVE k[1] = l[p] /\ p \in 2 .. Len(l) /\ 1 \in 1 .. len
    OBVIOUS
  <2>1. 1 \in 1 .. len /\ (1 + p) - 1 = p /\ p \in 2 .. Len(l)
    BY <1>16
  <2>2. k[1] = l[(1 + p) - 1]
    BY <1>16, <2>1
  <2> QED BY <2>1, <2>2
<1>20. Linked(u, k)
  <2>1. \A i \in 1 .. Len(k) : u.next[k[i]] = IF i = Len(k) THEN NULL ELSE k[i + 1]
    <3> TAKE i \in 1 .. Len(k)
    <3>1. i \in 1 .. len /\ (i + p) - 1 \in 1 .. Len(l) /\ k[i] = l[(i + p) - 1]
      BY <1>16, <1>17
    <3>2. u.next[k[i]] = IF (i + p) - 1 = Len(l) THEN NULL ELSE l[((i + p) - 1) + 1]
      BY <1>1, <1>14, <3>1 DEF Linked, IsList
    <3>3. CASE i = len
      BY <1>16, <1>17, <3>2, <3>3
    <3>4. CASE i # len
      <4>1. i + 1 \in 1 .. len /\ (i + p) - 1 # Len(l) /\ ((i + p) - 1) + 1 = ((i + 1) + p) - 1
        BY <1>16, <3>1, <3>4
      <4>2. k[i + 1] = l[((i + 1) + p) - 1]
        BY <1>16, <4>1
      <4> QED BY <1>17, <3>2, <3>4, <4>1, <4>2
    <3> QED BY <3>3, <3>4
  <2>2. IsList(u, k)
    <3>1. u.head = IF k = <<>> THEN NULL ELSE k[1]
      BY <1>14, <1>16, <1>18, <1>19
    <3> QED BY <2>1, <3>1 DEF IsList
  <2>3. \A i \in 2 .. Len(k) : ~u.running[k[i]]
    <3> TAKE i \in 2 .. Len(k)
    <3>1. i \in 1 .. len
      BY <1>17
    <3>2. (i + p) - 1 \in 2 .. Len(l) /\ k[i] = l[(i + p) - 1]
      BY <1>16, <3>1
    <3> QED BY <1>1, <1>14, <3>2 DEF Linked
  <2> QED BY <1>14, <1>17, <2>2, <2>3 DEF Linked
<1>21. Steps(u, k, at, due2)
  <2>1. \A i \in 2 .. Len(k) : at[k[i]] = at[k[i - 1]] + u.ts[k[i]]
    <3> TAKE i \in 2 .. Len(k)
    <3>1. i \in 1 .. len /\ i - 1 \in 1 .. len /\ ((i - 1) + p) - 1 = ((i + p) - 1) - 1
      BY <1>16, <1>17
    <3>2. k[i] = l[(i + p) - 1] /\ k[i - 1] = l[((i + p) - 1) - 1] /\ (i + p) - 1 \in 2 .. Len(l)
          /\ k[i] \in Timers /\ k[i] # m.head
      BY <1>16, <3>1
    <3>3. u.ts[k[i]] = m.ts[k[i]]
      BY <1>9, <1>14, <3>2
    <3> QED BY <1>3, <3>2, <3>3
  <2>2. \A i \in 1 .. Len(k) : at[k[i]] <= due2[k[i]]
    <3> TAKE i \in 1 .. Len(k)
    <3>1. (i + p) - 1 \in 1 .. Len(l) /\ k[i] = l[(i + p) - 1] /\ k[i] \in Timers
          /\ k[i] \notin Expired(q)
      BY <1>16, <1>17
    <3> QED BY <1>3, <1>15, <3>1
  <2> QED BY <1>3, <1>15, <2>1, <2>2 DEF Steps
<1>22. \A i \in 1 .. p - 1 : at[l[i]] = at[l[1]]
  <2> DEFINE Bad == {i \in 1 .. p - 1 : at[l[i]] # at[l[1]]}
  <2> SUFFICES ASSUME Bad # {} PROVE FALSE
    OBVIOUS
  <2>1. PICK i \in Bad : \A j \in Bad : i <= j
    <3>1. Bad \subseteq Nat
      BY <1>16
    <3> HIDE DEF Bad
    <3> QED BY <3>1, Least
  <2>2. i # 1 /\ i \in 1 .. p - 1
    BY <1>16
  <2>3. i - 1 \in 1 .. p - 1 /\ ~(i <= i - 1) /\ i \in 2 .. Len(l)
    BY <1>16, <2>2
  <2>4. at[l[i - 1]] = at[l[1]]
    BY <2>1, <2>3
  <2>5. m.ts[l[i]] = 0
    <3>1. l[i] \in Timers /\ l[i] # m.head /\ q.ts[l[i]] = 0
      BY <1>2, <1>11, <2>2, <2>3
    <3> QED BY <1>9, <3>1
  <2>6. at[l[i]] = at[l[1]] + 0
    BY <1>3, <2>3, <2>4, <2>5
  <2>7. at[l[1]] \in Int
    BY <1>2, <1>3
  <2>8. at[l[i]] = at[l[1]]
    BY <2>6, <2>7
  <2> QED BY <2>8
<1>23. len # 0 => /\ ~u.running[u.head] /\ u.head = l[p]
                  /\ at[k[1]] >= now + 1 + HeadLeft(u, now + 1)
  <2> SUFFICES ASSUME len # 0
               PROVE  /\ ~u.running[u.head] /\ u.head = l[p]
                      /\ at[k[1]] >= now + 1 + HeadLeft(u, now + 1)
    OBVIOUS
  <2>1. p \in 2 .. Len(l) /\ k[1] = l[p] /\ u.head = l[p] /\ p \in 1 .. Len(l)
    BY <1>14, <1>16, <1>19
  <2>2. ~u.running[u.head]
    BY <1>1, <1>14, <2>1 DEF Linked
  <2>3. l[p] \in Timers /\ l[p] # m.head
    BY <1>2, <2>1
  <2>4. u.ts[l[p]] = m.ts[l[p]] /\ m.ts[l[p]] \in Nat /\ m.ts[l[p]] # 0
    BY SMTT(30), <1>2, <1>9, <1>11, <1>14, <1>16, <2>3 DEF Shape
  <2>5. HeadLeft(u, now + 1) = m.ts[l[p]] - 1
    BY <2>1, <2>2, <2>4 DEF HeadLeft
  <2>6. at[l[p]] = at[l[p - 1]] + m.ts[l[p]]
    BY <1>3, <2>1
  <2>7. at[l[p - 1]] = at[l[1]]
    <3>1. p - 1 \in 1 .. p - 1
      BY <1>16
    <3> QED BY <1>22, <3>1
  <2>8. at[l[p]] = at[l[1]] + m.ts[l[p]] /\ at[l[1]] \in {now, now + 1}
    BY <1>7, <2>6, <2>7
  <2>9. at[l[p]] >= now + 1 + HeadLeft(u, now + 1)
    BY <2>4, <2>5, <2>8
  <2> QED BY <2>1, <2>2, <2>9
<1>24. \E bt : Sound(u, k, bt, due2, now + 1)
  <2>1. u.head # NULL => len # 0
    BY <1>14, <1>16
  <2>2. Loaded(u)
    BY <1>23, <2>1 DEF Loaded
  <2>3. u.context <= now + 1 /\ now + 1 \in Nat
    BY <1>4, <1>14 DEF Sound
  <2>4. k # <<>> => at[k[1]] >= now + 1 + HeadLeft(u, now + 1)
    BY <1>18, <1>23
  <2> QED BY <1>20, <1>21, <2>2, <2>3, <2>4, Rebase
<1>25. Fresh(u, now + 1)
  BY <1>14, <1>16, <1>23 DEF Fresh
<1>26. Waits(u, Expired(q), m.head, c)
  <2>1. p - 1 \in Nat /\ p - 1 # 0 /\ 1 \in 1 .. p - 1
    BY <1>16
  <2>2. c \in [1 .. p - 1 -> Timers] /\ \A i \in 1 .. p - 1 : c[i] = l[i] /\ i \in 1 .. Len(l)
    BY <1>2, <1>11
  <2>3. \A i, j \in 1 .. p - 1 : c[i] = c[j] => i = j
    BY <1>2, <2>2
  <2> HIDE DEF c
  <2>4. c \in Chains /\ Len(c) = p - 1
    BY <2>1, <2>2, <2>3, ChainOf
  <2>5. c[1] = m.head
    BY <1>2, <2>1, <2>2
  <2>6. Expired(q) = {c[i] : i \in 1 .. Len(c)}
    BY <1>13, <2>2, <2>4
  <2>7. Armed(u) = {k[i] : i \in 1 .. Len(k)}
    BY <1>20, LinkedFacts
  <2>8. \A i \in 1 .. Len(c) : c[i] \notin Armed(u)
    BY <1>16, <1>17, <2>6, <2>7
  <2>9. \A i \in 1 .. Len(c) : u.ts[c[i]] = 0
    BY <1>11, <1>14, <2>2, <2>4
  <2>10. \A i \in 1 .. Len(c) : i # Len(c) => u.next[c[i]] = c[i + 1]
    <3> SUFFICES ASSUME NEW i \in 1 .. Len(c), i # Len(c)
                 PROVE  u.next[c[i]] = c[i + 1]
      OBVIOUS
    <3>1. i \in 1 .. Len(l) /\ i # Len(l) /\ i + 1 \in 1 .. p - 1 /\ i \in 1 .. p - 1
      BY <1>16, <2>4
    <3>2. m.next[l[i]] = l[i + 1]
      BY <1>1, <3>1 DEF Linked, IsList
    <3> QED BY <1>14, <2>2, <3>1, <3>2
  <2> QED BY <2>1, <2>4, <2>5, <2>6, <2>8, <2>9, <2>10 DEF Waits
<1>27. /\ q.head = m.head /\ q.ts[m.head] = 0
       /\ \E k_, bt : Sound(u, k_, bt, due2, now + 1)
       /\ Fresh(u, now + 1)
       /\ \E c_ : Waits(u, Expired(q), m.head, c_)
  BY <1>8, <1>9, <1>24, <1>25, <1>26
<1> QED BY <1>27 DEF u, q, due2

\* The end of the handler: the next timer is loaded.
LEMMA Reloaded ==
  ASSUME NEW now \in Nat, NEW m, NEW l, NEW at, NEW due_, Sound(m, l, at, due_, now),
         Fresh(m, now)
  PROVE  /\ \E bt : Sound(Reload(m, now), l, bt, due_, now)
         /\ Awake(Reload(m, now), now)
<1>1. Linked(m, l) /\ Steps(m, l, at, due_)
  BY DEF Sound
<1>2. CASE m.head = NULL
  BY <1>2 DEF Reload, Awake
<1>3. CASE m.head # NULL
  <2> DEFINE on == [m EXCEPT !.running[m.head] = TRUE]
  <2>1. /\ m \in Shape /\ m.head \in Timers /\ l # <<>> /\ m.head = l[1]
        /\ \A i, j \in 1 .. Len(l) : l[i] = l[j] => i = j
        /\ l \in [1 .. Len(l) -> Timers]
        /\ 1 \in 1 .. Len(l)
    BY <1>1, <1>3, LinkedFacts
  <2>2. m.ts[m.head] \in Nat
    BY <2>1 DEF Shape
  <2>3. /\ on \in Shape /\ on.head = m.head /\ on.next = m.next /\ on.ts = m.ts
        /\ on.running = [m.running EXCEPT ![m.head] = TRUE]
    BY <2>1 DEF Shape
  <2>4. Reload(m, now) = SetTimeout(on, now)
    BY <1>3 DEF Reload
  <2> HIDE DEF on
  <2>5. /\ on.running[on.head]
        /\ \A t \in Timers : t # m.head => on.running[t] = m.running[t]
    BY <2>1, <2>3 DEF Shape
  <2>6. Linked(on, l)
    <3>1. IsList(on, l)
      BY <1>1, <2>3 DEF Linked, IsList
    <3>2. \A i \in 2 .. Len(l) : ~on.running[l[i]]
      <4> TAKE i \in 2 .. Len(l)
      <4>1. i \in 1 .. Len(l) /\ i # 1
        OBVIOUS
      <4>2. l[i] \in Timers /\ l[i] # m.head
        BY <2>1, <4>1
      <4> QED BY <1>1, <2>5, <4>2 DEF Linked
    <3> QED BY <1>1, <2>3, <3>1, <3>2 DEF Linked
  <2>7. Steps(on, l, at, due_)
    BY <1>1, <2>3 DEF Steps
  <2>8. at[l[1]] = now + HeadLeft(m, now)
    BY <2>1 DEF Sound
  <2>9. HeadLeft(m, now) = IF m.ts[m.head] = 0 THEN 0 ELSE m.ts[m.head] - 1
    <3>1. CASE m.running[m.head]
      <4>1. Elapsed(m, now) = 1
        BY <1>3, <3>1 DEF Fresh, Elapsed
      <4> QED BY <2>2, <3>1, <4>1 DEF HeadLeft, Remaining
    <3>2. CASE ~m.running[m.head]
      BY <3>2 DEF HeadLeft
    <3> QED BY <3>1, <3>2
  <2>10. at[l[1]] >= now + (IF on.ts[on.head] = 0 THEN 0 ELSE on.ts[on.head] - 1)
    BY <2>2, <2>3, <2>8, <2>9
  <2> QED BY <2>1, <2>4, <2>5, <2>6, <2>7, <2>10, Load
<1> QED BY <1>2, <1>3

-----------------------------------------------------------------------------
(* The inductive invariant.                                                *)

\* The list is sound; outside the handler its head is loaded, inside nothing
\* is loaded that was not loaded by this run of the handler; and the timers
\* still to be called are waiting behind the one that is being called.
Inv ==
  /\ TypeOK
  /\ \E l, at : Sound(mem, l, at, due, tick)
  /\ walk = NULL => Awake(mem, tick)
  /\ walk # NULL => Fresh(mem, tick)
  /\ walk = NULL /\ ~touched => owed = {}
  /\ walk # NULL /\ ~touched /\ owed # {} => \E c : Waits(mem, owed, walk, c)

LEMMA InvInit == Init => Inv
<1> SUFFICES ASSUME Init PROVE Inv
  OBVIOUS
<1> USE TimerAssumption
<1>1. TypeOK /\ mem \in Shape
  <2>1. mem \in Shape
    BY DEF Init, Shape, Pointers
  <2>2. tick \in 1 .. MaxTick /\ walk \in Pointers /\ calls \in 0 .. MaxCalls
    BY DEF Init, Pointers
  <2>3. due \in [Timers -> Nat] /\ owed \subseteq Timers /\ touched \in BOOLEAN
    BY DEF Init
  <2> QED BY <2>1, <2>2, <2>3 DEF TypeOK
<1>2. Linked(mem, <<>>)
  BY <1>1, NoTimers DEF Init, Linked, IsList
<1>3. Sound(mem, <<>>, [t \in Timers |-> 0], due, tick)
  BY <1>1, <1>2 DEF Init, Sound, Loaded, Steps, TypeOK
<1>4. Awake(mem, tick) /\ walk = NULL /\ owed = {}
  BY DEF Init, Awake
<1> QED BY <1>1, <1>3, <1>4 DEF Inv

\* What waits behind the running callback stays where it is.
Stays == \A c : Waits(mem, owed, walk, c) => Waits(mem', owed, walk, c)

\* With nobody behind it, and after a call on none of them.
LEMMA StaysAlone ==
  ASSUME NEW t \in Timers, Aside(mem, mem', t), Waiting = {} \/ t \notin owed
  PROVE  Stays
<1> SUFFICES ASSUME NEW c, Waits(mem, owed, walk, c)
             PROVE  Waits(mem', owed, walk, c)
  BY DEF Stays
<1>1. /\ c \in [1 .. Len(c) -> Timers] /\ Len(c) \in Nat /\ Len(c) # 0 /\ c[1] = walk
      /\ \A i, j \in 1 .. Len(c) : c[i] = c[j] => i = j
      /\ owed = {c[i] : i \in 1 .. Len(c)}
  BY ChainFacts DEF Waits
<1>2. CASE Len(c) = 1
  BY <1>1, <1>2 DEF Waits
<1>3. CASE Len(c) # 1
  <2>1. c[2] \in Waiting
    <3>1. 2 \in 1 .. Len(c) /\ 1 \in 1 .. Len(c)
      BY <1>1, <1>3
    <3>2. c[2] \in owed
      BY <1>1, <3>1
    <3>3. c[2] # c[1]
      BY <1>1, <3>1
    <3> QED BY <1>1, <3>2, <3>3 DEF Waiting
  <2>2. \A i \in 1 .. Len(c) : c[i] \in Timers \ {t} /\ c[i] \notin Armed(mem)
    BY <1>1, <1>3, <2>1 DEF Waits
  <2>3. \A i \in 1 .. Len(c) : /\ c[i] \notin Armed(mem')
                               /\ mem'.next[c[i]] = mem.next[c[i]]
                               /\ mem'.ts[c[i]] = mem.ts[c[i]]
    BY <2>2 DEF Aside
  <2> QED BY <2>3 DEF Waits
<1> QED BY <1>2, <1>3

\* Stopping one of them finds it off the list, and does nothing.
LEMMA StaysStopped ==
  ASSUME NEW t \in Timers, Aside(mem, mem', t), mem' = Stop(mem, t, tick)
  PROVE  Stays
<1> SUFFICES ASSUME NEW c, Waits(mem, owed, walk, c)
             PROVE  Waits(mem', owed, walk, c)
  BY DEF Stays
<1>1. CASE Len(c) = 1
  BY <1>1 DEF Waits
<1>2. CASE Len(c) # 1 /\ t \in owed
  <2>1. t \notin Armed(mem)
    BY <1>2 DEF Waits
  <2>2. mem' = mem
    BY <2>1 DEF Stop
  <2> QED BY <2>2
<1>3. CASE t \notin owed
  BY <1>3, StaysAlone DEF Stays
<1> QED BY <1>1, <1>2, <1>3

\* Setting the timer of the callback leaves its Next field alone.
LEMMA StaysSet ==
  ASSUME NEW t \in Timers, NEW v \in Values, Aside(mem, mem', t), t \notin Waiting,
         mem \in Shape, mem' = SetValue(mem, t, v, tick), t \notin Armed(mem')
  PROVE  Stays
<1> SUFFICES ASSUME NEW c, Waits(mem, owed, walk, c)
             PROVE  Waits(mem', owed, walk, c)
  BY DEF Stays
<1>1. CASE Len(c) = 1
  BY <1>1 DEF Waits
<1>2. CASE Len(c) # 1 /\ t \in owed
  <2>1. t = walk /\ t \notin Armed(mem)
    BY <1>2 DEF Waits, Waiting
  <2>2. /\ mem'.next = mem.next
        /\ \A u \in Timers \ {t} : mem'.ts[u] = mem.ts[u]
    <3>1. Stop(mem, t, tick) = mem
      BY <2>1 DEF Stop
    <3> QED BY <3>1 DEF SetValue, Shape
  <2>3. /\ c \in [1 .. Len(c) -> Timers] /\ Len(c) \in Nat /\ c[1] = walk
        /\ \A i, j \in 1 .. Len(c) : c[i] = c[j] => i = j
    BY ChainFacts DEF Waits
  <2>4. \A i \in 1 .. Len(c) : i # 1 => c[i] \in Timers \ {t}
    <3> TAKE i \in 1 .. Len(c)
    <3>1. 1 \in 1 .. Len(c)
      BY <2>3
    <3> QED BY <2>1, <2>3, <3>1
  <2>5. \A i \in 1 .. Len(c) : i # 1 => mem'.ts[c[i]] = 0
    BY <2>2, <2>4 DEF Waits
  <2>6. \A i \in 1 .. Len(c) : c[i] \notin Armed(mem')
    <3> TAKE i \in 1 .. Len(c)
    <3>1. c[i] \notin Armed(mem) /\ c[i] \in Timers
      BY <1>2, <2>3 DEF Waits
    <3>2. CASE c[i] = t
      BY <3>2
    <3>3. CASE c[i] # t
      BY <3>1, <3>3 DEF Aside
    <3> QED BY <3>2, <3>3
  <2> QED BY <2>2, <2>5, <2>6 DEF Waits
<1>3. CASE t \notin owed
  BY <1>3, StaysAlone DEF Stays
<1> QED BY <1>1, <1>2, <1>3

\* A call leaves the timers that are still to be called where they are, unless
\* it breaks the walk.
LEMMA Called ==
  ASSUME Inv, NEW t \in Timers, NEW breaks \in BOOLEAN, MayCall(t, breaks),
         Result(mem, mem', t, due', tick), ~breaks => Stays
  PROVE  Inv'
<1> USE TimerAssumption
<1>1. PICK l, at : Sound(mem', l, at, due', tick)
  BY DEF Result
<1>2. tick' = tick /\ walk' = walk /\ tick \in Nat
  BY DEF MayCall, Inv, TypeOK
<1>3. mem' \in Shape /\ due' \in [Timers -> Nat]
  <2>1. Linked(mem', l)
    BY <1>1 DEF Sound
  <2> QED BY <1>1, <2>1 DEF Linked, Sound, Steps
<1>4. TypeOK'
  <2>1. calls' \in 0 .. MaxCalls
    BY DEF MayCall, Inv, TypeOK
  <2>2. owed' \subseteq Timers /\ touched' \in BOOLEAN
    BY DEF MayCall, Inv, TypeOK
  <2> QED BY <1>2, <1>3, <2>1, <2>2 DEF Inv, TypeOK
<1>5. /\ walk' = NULL => Awake(mem', tick')
      /\ walk' # NULL => Fresh(mem', tick')
  BY <1>2 DEF Inv, Result
<1>6. walk' = NULL /\ ~touched' => owed' = {}
  BY <1>2 DEF MayCall
<1>7. ASSUME walk' # NULL, ~touched', owed' # {}
      PROVE  \E c : Waits(mem', owed', walk', c)
  <2>1. walk # NULL /\ ~touched /\ ~breaks /\ owed' = owed
    BY <1>2, <1>7 DEF MayCall
  <2>2. PICK c : Waits(mem, owed, walk, c)
    BY <1>7, <2>1 DEF Inv
  <2>3. Waits(mem', owed, walk, c)
    BY <2>1, <2>2 DEF Stays
  <2> QED BY <1>2, <2>1, <2>3
<1> QED BY <1>1, <1>2, <1>4, <1>5, <1>6, <1>7 DEF Inv

LEMMA TickKeeps ==
  ASSUME Inv, Tick
  PROVE  Inv'
<1> USE TimerAssumption
<1>1. /\ walk = NULL /\ tick \in Nat /\ tick' = tick + 1 /\ tick' \in 1 .. MaxTick
      /\ Awake(mem, tick) /\ due \in [Timers -> Nat] /\ mem \in Shape
      /\ calls \in 0 .. MaxCalls
  BY DEF Tick, Inv, TypeOK
<1>2. PICK l, at : Sound(mem, l, at, due, tick)
  BY DEF Inv
<1>3. CASE ~(tick' = mem.timeout /\ mem.head /= NULL)
  <2>1. owed' = {} /\ touched' = FALSE /\ UNCHANGED <<mem, walk, calls, due>>
    BY <1>3 DEF Tick
  <2>2. mem.head = NULL \/ mem.timeout # tick + 1
    BY <1>1, <1>3
  <2>3. Sound(mem, l, at, due, tick + 1) /\ Awake(mem, tick + 1)
    BY <1>1, <1>2, <2>2, Passes
  <2>4. TypeOK'
    BY <1>1, <2>1 DEF TypeOK, Pointers
  <2> QED BY <1>1, <2>1, <2>3, <2>4 DEF Inv
<1>4. CASE tick' = mem.timeout /\ mem.head /= NULL
  <2> DEFINE q == Charge(mem, tick')
  <2>1. /\ q.head = mem.head /\ q.ts[mem.head] = 0
        /\ \E k, bt : Sound(Unlink(q), k, bt,
                            [t \in Timers |-> IF t \in Expired(q) THEN 0 ELSE due[t]],
                            tick')
        /\ Fresh(Unlink(q), tick')
        /\ \E c : Waits(Unlink(q), Expired(q), mem.head, c)
    <3>1. mem.timeout = tick + 1 /\ mem.head # NULL
      BY <1>1, <1>4
    <3>2. LET p == Charge(mem, tick + 1)
          IN /\ p.head = mem.head /\ p.ts[mem.head] = 0
             /\ \E k, bt : Sound(Unlink(p), k, bt,
                                 [t \in Timers |-> IF t \in Expired(p) THEN 0 ELSE due[t]],
                                 tick + 1)
             /\ Fresh(Unlink(p), tick + 1)
             /\ \E c : Waits(Unlink(p), Expired(p), mem.head, c)
      BY <1>1, <1>2, <3>1, Fires
    <3> QED BY <1>1, <3>2
  <2>2. /\ walk' = WalkFrom(q, q.head)
        /\ owed' = Expired(q) /\ touched' = FALSE
        /\ due' = [t \in Timers |-> IF t \in Expired(q) THEN 0 ELSE due[t]]
        /\ calls' = IF walk' = NULL THEN 0 ELSE MaxCalls
        /\ mem' = IF walk' = NULL THEN Reload(Unlink(q), tick') ELSE Unlink(q)
    BY <1>4 DEF Tick
  <2> HIDE DEF q
  <2>3. walk' = mem.head /\ walk' # NULL /\ mem' = Unlink(q)
    BY <1>4, <2>1, <2>2 DEF WalkFrom
  <2>4. PICK k, bt : Sound(mem', k, bt, due', tick')
    BY <2>1, <2>2, <2>3
  <2>5. Fresh(mem', tick')
    BY <2>1, <2>3
  <2>6. PICK c : Waits(mem', owed', walk', c)
    BY <2>1, <2>2, <2>3
  <2>7. TypeOK'
    <3>1. mem' \in Shape /\ due' \in [Timers -> Nat]
      <4>1. Linked(mem', k)
        BY <2>4 DEF Sound
      <4> QED BY <2>4, <4>1 DEF Linked, Sound, Steps
    <3>2. owed' \subseteq Timers
      BY <2>6, ChainFacts DEF Waits
    <3>3. walk' \in Pointers /\ calls' \in 0 .. MaxCalls
      BY <1>1, <2>2, <2>3 DEF Shape
    <3> QED BY <1>1, <2>2, <3>1, <3>2, <3>3 DEF TypeOK
  <2> QED BY <2>3, <2>4, <2>5, <2>6, <2>7 DEF Inv
<1> QED BY <1>3, <1>4

\* The callback of the first of the waiting timers returns.
LEMMA WaitsNext ==
  ASSUME NEW m, NEW who, NEW first, NEW c, Waits(m, who, first, c)
  PROVE  \/ who \ {first} = {}
         \/ /\ m.next[first] \in Timers /\ m.ts[m.next[first]] = 0
            /\ \E b : Waits(m, who \ {first}, m.next[first], b)
<1>1. /\ c \in [1 .. Len(c) -> Timers] /\ Len(c) \in Nat /\ Len(c) # 0 /\ c[1] = first
      /\ \A i, j \in 1 .. Len(c) : c[i] = c[j] => i = j
      /\ who = {c[i] : i \in 1 .. Len(c)}
      /\ \A i \in 1 .. Len(c) : i # 1 => m.ts[c[i]] = 0
      /\ \A i \in 1 .. Len(c) : Len(c) # 1 => c[i] \notin Armed(m)
      /\ \A i \in 1 .. Len(c) : i # Len(c) => m.next[c[i]] = c[i + 1]
  BY ChainFacts DEF Waits
<1>2. CASE Len(c) = 1
  BY <1>1, <1>2
<1>3. CASE Len(c) # 1
  <2> DEFINE len == Len(c) - 1
             b == [i \in 1 .. len |-> c[i + 1]]
  <2>1. /\ len \in Nat /\ len # 0 /\ len + 1 = Len(c) /\ 1 \in 1 .. len /\ 1 \in 1 .. Len(c)
        /\ \A i \in 1 .. len : b[i] = c[i + 1] /\ i + 1 \in 1 .. Len(c) /\ i + 1 # 1
    <3>1. Len(c) \in Nat /\ Len(c) # 0
      BY <1>1
    <3>2. len \in Nat /\ len # 0 /\ len + 1 = Len(c)
      BY <1>3, <3>1
    <3>3. \A i \in 1 .. len : b[i] = c[i + 1]
      OBVIOUS
    <3> HIDE DEF b, len
    <3>4. 1 \in 1 .. len /\ 1 \in 1 .. Len(c)
      BY <3>1, <3>2
    <3>5. \A i \in 1 .. len : i + 1 \in 1 .. Len(c) /\ i + 1 # 1
      BY <3>1, <3>2
    <3> QED BY <3>2, <3>3, <3>4, <3>5
  <2>2. b \in [1 .. len -> Timers] /\ \A i, j \in 1 .. len : b[i] = b[j] => i = j
    <3>1. \A i \in 1 .. len : b[i] \in Timers
      BY <1>1, <2>1
    <3>2. \A i, j \in 1 .. len : b[i] = b[j] => i = j
      <4> HIDE DEF b, len
      <4> TAKE i, j \in 1 .. len
      <4>1. /\ b[i] = c[i + 1] /\ i + 1 \in 1 .. Len(c)
            /\ b[j] = c[j + 1] /\ j + 1 \in 1 .. Len(c)
        BY <2>1
      <4>2. b[i] = b[j] => i + 1 = j + 1
        BY <1>1, <4>1
      <4> QED BY <4>2
    <3> QED BY <3>1, <3>2
  <2> HIDE DEF b, len
  <2>3. b \in Chains /\ Len(b) = len
    BY <2>1, <2>2, ChainOf
  <2>4. m.next[first] = b[1] /\ b[1] \in Timers
    <3>1. m.next[c[1]] = c[1 + 1] /\ b[1] = c[1 + 1]
      BY <1>1, <1>3, <2>1
    <3> QED BY <1>1, <2>1, <2>2, <3>1
  <2>5. \A i \in 1 .. len : m.ts[b[i]] = 0 /\ b[i] \notin Armed(m) /\ b[i] # first
    <3> TAKE i \in 1 .. len
    <3>1. b[i] = c[i + 1] /\ i + 1 \in 1 .. Len(c) /\ i + 1 # 1 /\ 1 \in 1 .. Len(c)
      BY <2>1
    <3>2. c[i + 1] # c[1]
      BY <1>1, <3>1
    <3> QED BY <1>1, <1>3, <3>1, <3>2
  <2>6. \A i \in 1 .. len : i # len => m.next[b[i]] = b[i + 1]
    <3> SUFFICES ASSUME NEW i \in 1 .. len, i # len PROVE m.next[b[i]] = b[i + 1]
      OBVIOUS
    <3>1. i + 1 \in 1 .. len /\ i + 1 \in 1 .. Len(c) /\ i + 1 # Len(c)
      BY <2>1
    <3>2. b[i] = c[i + 1] /\ b[i + 1] = c[(i + 1) + 1]
      BY <2>1, <3>1
    <3> QED BY <1>1, <3>1, <3>2
  <2>7. who \ {first} = {b[i] : i \in 1 .. len}
    <3>1. \A i \in 1 .. len : b[i] \in who \ {first}
      BY <1>1, <2>1, <2>5
    <3>2. ASSUME NEW i \in 1 .. Len(c), c[i] # first
          PROVE  \E j \in 1 .. len : c[i] = b[j]
      <4>1. i # 1
        BY <1>1, <3>2
      <4>2. i - 1 \in 1 .. len /\ (i - 1) + 1 = i
        BY <2>1, <4>1
      <4>3. c[i] = b[i - 1]
        BY <2>1, <4>2
      <4> QED BY <4>2, <4>3
    <3> QED BY <1>1, <3>1, <3>2
  <2>8. Waits(m, who \ {first}, b[1], b)
    BY <2>1, <2>3, <2>5, <2>6, <2>7 DEF Waits
  <2> QED BY <2>1, <2>4, <2>5, <2>8
<1> QED BY <1>2, <1>3

LEMMA ReturnKeeps ==
  ASSUME Inv, CallbackReturn
  PROVE  Inv'
<1> USE TimerAssumption
<1>1. /\ walk # NULL /\ walk' = WalkFrom(mem, mem.next[walk])
      /\ calls' = IF walk' = NULL THEN 0 ELSE MaxCalls
      /\ mem' = IF walk' = NULL THEN Reload(mem, tick) ELSE mem
      /\ owed' = owed \ {walk}
      /\ tick' = tick /\ due' = due /\ touched' = touched
  BY DEF CallbackReturn
<1>2. PICK l, at : Sound(mem, l, at, due, tick)
  BY DEF Inv
<1>3. Fresh(mem, tick) /\ tick \in Nat /\ walk \in Timers /\ mem \in Shape
  BY <1>1 DEF Inv, TypeOK, Pointers
<1>4. PICK bt : Sound(mem', l, bt, due', tick')
  <2>1. CASE walk' = NULL
    BY <1>1, <1>2, <1>3, <2>1, Reloaded
  <2>2. CASE walk' # NULL
    BY <1>1, <1>2, <2>2
  <2> QED BY <2>1, <2>2
<1>5. /\ walk' = NULL => Awake(mem', tick')
      /\ walk' # NULL => Fresh(mem', tick')
  BY <1>1, <1>2, <1>3, Reloaded
<1>6. TypeOK'
  <2>1. mem' \in Shape
    <3>1. Linked(mem', l)
      BY <1>4 DEF Sound
    <3> QED BY <3>1 DEF Linked
  <2>2. walk' \in Pointers
    <3>1. mem.next[walk] \in Pointers
      BY <1>3 DEF Shape
    <3> QED BY <1>1, <3>1 DEF WalkFrom, Pointers
  <2>3. calls' \in 0 .. MaxCalls
    BY <1>1
  <2> QED BY <1>1, <2>1, <2>2, <2>3 DEF Inv, TypeOK
<1>7. ASSUME ~touched', owed' # {}
      PROVE  walk' # NULL /\ \E c : Waits(mem', owed', walk', c)
  <2>1. PICK c : Waits(mem, owed, walk, c)
    BY <1>1, <1>7 DEF Inv
  <2>2. /\ mem.next[walk] \in Timers /\ mem.ts[mem.next[walk]] = 0
        /\ \E b : Waits(mem, owed \ {walk}, mem.next[walk], b)
    BY <1>1, <1>7, <2>1, WaitsNext
  <2>3. walk' = mem.next[walk] /\ walk' # NULL
    BY <1>1, <2>2 DEF WalkFrom
  <2> QED BY <1>1, <2>2, <2>3
<1> QED BY <1>4, <1>5, <1>6, <1>7 DEF Inv

LEMMA InvNext == Inv /\ [Next]_vars => Inv'
<1> SUFFICES ASSUME Inv, [Next]_vars PROVE Inv'
  OBVIOUS
<1>0. PICK l, at : Sound(mem, l, at, due, tick)
  BY DEF Inv
<1>1. tick \in Nat
  BY DEF Inv, TypeOK
<1>2. ASSUME NEW t \in Timers, TimerStart(t) PROVE Inv'
  <2> DEFINE breaks == Waiting /= {} /\ t \in owed \cup {walk}
  <2>1. MayCall(t, breaks) /\ mem.reload[t] > 0 /\ mem' = Start(mem, t, tick)
        /\ due' = IF t \in Armed(mem) THEN due ELSE [due EXCEPT ![t] = tick + mem.reload[t]]
    BY <1>2 DEF TimerStart
  <2>2. Result(mem, mem', t, due', tick)
    BY <1>0, <1>1, <2>1, StartResult
  <2>3. ~breaks => Stays
    BY <2>2, StaysAlone DEF Result
  <2>4. breaks \in BOOLEAN
    OBVIOUS
  <2> HIDE DEF breaks
  <2> QED BY <2>1, <2>2, <2>3, <2>4, Called
<1>3. ASSUME NEW t \in Timers, TimerStop(t) PROVE Inv'
  <2>1. MayCall(t, FALSE) /\ mem' = Stop(mem, t, tick) /\ due' = [due EXCEPT ![t] = 0]
    BY <1>3 DEF TimerStop
  <2>2. Result(mem, mem', t, due', tick)
    BY <1>0, <1>1, <2>1, StopResult
  <2>3. Stays
    BY <2>1, <2>2, StaysStopped DEF Result
  <2> QED BY <2>1, <2>2, <2>3, Called
<1>4. ASSUME NEW t \in Timers, NEW v \in Values, TimerSetValue(t, v) PROVE Inv'
  <2> DEFINE breaks == t \in Waiting
  <2>1. MayCall(t, breaks) /\ mem' = SetValue(mem, t, v, tick) /\ due' = [due EXCEPT ![t] = 0]
    BY <1>4 DEF TimerSetValue
  <2>2. Result(mem, mem', t, due', tick)
    BY <1>0, <1>1, <2>1, SetValueResult
  <2>3. t \notin Armed(mem') /\ mem \in Shape
    BY <1>0, <1>1, <2>1, SetValueResult DEF Inv, TypeOK
  <2>4. ~breaks => Stays
    BY <2>1, <2>2, <2>3, StaysSet DEF Result
  <2>5. breaks \in BOOLEAN
    OBVIOUS
  <2> HIDE DEF breaks
  <2> QED BY <2>1, <2>2, <2>4, <2>5, Called
<1>5. CASE Tick
  BY <1>5, TickKeeps
<1>6. CASE CallbackReturn
  BY <1>6, ReturnKeeps
<1>7. CASE UNCHANGED vars
  BY <1>7 DEF Inv, TypeOK, vars
<1> QED BY <1>2, <1>3, <1>4, <1>5, <1>6, <1>7 DEF Next

-----------------------------------------------------------------------------
(* The theorems.                                                           *)

\* Every reachable state satisfies the inductive invariant.
THEOREM InvHolds == Spec => []Inv
<1> QED BY InvInit, InvNext, PTL DEF Spec

\* No variable loses its shape; the Timestamp fields stay naturals: no
\* subtraction of timerserver.c goes below zero.
THEOREM TypeCorrect == Spec => []TypeOK
<1>1. Inv => TypeOK
  BY DEF Inv
<1> QED BY <1>1, InvHolds, PTL

\* The list that timerserver.c rewrites through raw pointers stays a list.
THEOREM StaysAList == Spec => []Acyclic
<1>1. Inv => Acyclic
  BY DEF Inv, Sound, Linked, Acyclic
<1> QED BY <1>1, InvHolds, PTL

\* Outside TimerIrqHandler the head of the list is the one running timer.
THEOREM HeadAloneRuns == Spec => []OnlyHeadRuns
<1>1. Inv => OnlyHeadRuns
  <2> SUFFICES ASSUME Inv, walk = NULL, NEW t \in Armed(mem)
               PROVE  mem.running[t] <=> t = mem.head
    BY DEF OnlyHeadRuns
  <2>1. PICK l, at : Sound(mem, l, at, due, tick)
    BY DEF Inv
  <2>2. Linked(mem, l)
    BY <2>1 DEF Sound
  <2>3. PICK i \in 1 .. Len(l) : t = l[i]
    BY <2>2, LinkedFacts
  <2>4. l # <<>> /\ mem.head = l[1] /\ mem.head # NULL
    BY <2>2, <2>3, LinkedFacts
  <2>5. mem.running[mem.head]
    BY <2>4 DEF Inv, Awake
  <2>6. i # 1 => i \in 2 .. Len(l)
    BY <2>3
  <2>7. i # 1 => ~mem.running[t]
    BY <2>2, <2>3, <2>6 DEF Linked
  <2> QED BY <2>3, <2>4, <2>5, <2>7
<1> QED BY <1>1, InvHolds, PTL

\* While a timer is armed the value TIM2_IRQHandler waits for is still to come.
THEOREM AlarmComes == Spec => []AlarmAhead
<1>1. Inv => AlarmAhead
  BY DEF Inv, Awake, AlarmAhead
<1> QED BY <1>1, InvHolds, PTL

\* An armed timer is not past the tick at which its delay ends.
THEOREM NoneLate == Spec => []NotLate
<1>1. Inv => NotLate
  <2> SUFFICES ASSUME Inv, walk = NULL, NEW t \in Armed(mem)
               PROVE  tick <= due[t]
    BY DEF NotLate
  <2>1. PICK l, at : Sound(mem, l, at, due, tick)
    BY DEF Inv
  <2>2. Linked(mem, l)
    BY <2>1 DEF Sound
  <2>3. /\ mem \in Shape /\ l \in [1 .. Len(l) -> Timers] /\ Len(l) \in Nat
        /\ Armed(mem) = {l[i] : i \in 1 .. Len(l)}
    BY <2>2, LinkedFacts
  <2>4. PICK i \in 1 .. Len(l) : t = l[i]
    BY <2>3
  <2>5. l # <<>> /\ mem.head = l[1] /\ mem.head \in Timers /\ mem.head # NULL /\ 1 \in 1 .. Len(l)
    BY <2>2, <2>4, LinkedFacts
  <2>6. mem.running[mem.head] /\ mem.ts[mem.head] \in Nat /\ mem.context \in Nat /\ tick \in Nat
    BY <2>3, <2>5 DEF Inv, Awake, Shape, TypeOK
  <2>7. HeadLeft(mem, tick) \in Nat
    BY <2>6 DEF HeadLeft, Remaining, Elapsed
  <2>8. /\ at \in [Timers -> Int] /\ due \in [Timers -> Nat]
        /\ \A j \in 2 .. Len(l) : at[l[j]] = at[l[j - 1]] + mem.ts[l[j]]
        /\ \A j \in 1 .. Len(l) : at[l[j]] <= due[l[j]]
        /\ at[l[1]] = tick + HeadLeft(mem, tick)
    BY <2>1, <2>5 DEF Sound, Steps
  <2> DEFINE Early == {j \in 1 .. Len(l) : at[l[j]] < at[l[1]]}
  <2>9. Early = {}
    <3> SUFFICES ASSUME Early # {} PROVE FALSE
      OBVIOUS
    <3>1. PICK j \in Early : \A k \in Early : j <= k
      <4>1. Early \subseteq Nat
        OBVIOUS
      <4> HIDE DEF Early
      <4> QED BY <4>1, Least
    <3>2. at[l[1]] \in Int
      BY <2>3, <2>5, <2>8
    <3>3. j \in 1 .. Len(l) /\ at[l[j]] < at[l[1]] /\ j # 1
      BY <3>2
    <3>4. j \in 2 .. Len(l) /\ j - 1 \in 1 .. Len(l) /\ ~(j <= j - 1)
      BY <3>3
    <3>5. ~(at[l[j - 1]] < at[l[1]])
      BY <3>1, <3>4
    <3>6. at[l[j - 1]] \in Int /\ mem.ts[l[j]] \in Nat
      BY <2>3, <2>8, <3>3, <3>4 DEF Shape
    <3>7. at[l[j]] = at[l[j - 1]] + mem.ts[l[j]]
      BY <2>8, <3>4
    <3> QED BY <3>2, <3>3, <3>5, <3>6, <3>7
  <2>10. l[i] \in Timers /\ l[1] \in Timers
    BY <2>3, <2>5
  <2>11. at[l[i]] \in Int /\ at[l[1]] \in Int /\ due[l[i]] \in Int
    BY <2>8, <2>10
  <2>12. at[l[i]] >= at[l[1]]
    BY <2>9, <2>11
  <2>13. at[l[1]] >= tick
    BY <2>6, <2>7, <2>8
  <2> QED BY <2>4, <2>6, <2>8, <2>11, <2>12, <2>13
<1> QED BY <1>1, InvHolds, PTL

\* When TimerIrqHandler is done it has called all the timers that had expired,
\* unless a callback started or set one that waited to be called, or started
\* its own while others waited; what it stops, and what it sets of its own
\* timer, breaks nothing.
THEOREM AllExpiredCalled == Spec => []ExpiredAreCalled
<1>1. Inv => ExpiredAreCalled
  BY DEF Inv, ExpiredAreCalled
<1> QED BY <1>1, InvHolds, PTL

-----------------------------------------------------------------------------
(* The plan.                                                               *)

\* Totals of integers are integers.
LEMMA TotalsInt ==
  ASSUME NEW n \in Nat, NEW first \in Int, NEW d \in [1 .. n -> Int]
  PROVE  Totals(first, d) \in [1 .. n -> Int]
<1> DEFINE f == Totals(first, d)
           Bad == {i \in 1 .. n : f[i] \notin Int}
<1>1. /\ f = [i \in 1 .. n |-> f[i]]
      /\ \A i \in 1 .. n : f[i] = IF i = 1 THEN first ELSE f[i - 1] + d[i]
  BY TotalsFacts
<1> HIDE DEF f
<1>2. Bad = {}
  <2> SUFFICES ASSUME Bad # {} PROVE FALSE
    OBVIOUS
  <2>1. PICK k \in Bad : \A j \in Bad : k <= j
    <3>1. Bad \subseteq Nat  OBVIOUS
    <3> HIDE DEF Bad
    <3> QED BY <3>1, Least
  <2>2. k # 1 /\ k \in 1 .. n
    BY <1>1
  <2>3. k - 1 \in 1 .. n /\ ~(k <= k - 1)
    BY <2>2
  <2>4. f[k - 1] \in Int
    BY <2>1, <2>3
  <2>5. f[k] = f[k - 1] + d[k] /\ d[k] \in Int
    BY <1>1, <2>2
  <2> QED BY <2>1, <2>4, <2>5
<1>3. \A i \in 1 .. n : f[i] \in Int
  BY <1>2
<1>4. f \in [1 .. n -> Int]
  BY <1>1, <1>3
<1> QED BY <1>4 DEF f

\* Every list has a plan, and it is the one of Plan.
LEMMA PlanFacts ==
  ASSUME NEW m, NEW l, Linked(m, l)
  PROVE  /\ \E p : Planned(m, l, p)
         /\ \A p : Planned(m, l, p) => \A u \in Armed(m) : Plan(m)[u] = p[u]
<1> DEFINE d == [i \in 1 .. Len(l) |-> IF m.ts[l[i]] = 0 THEN 0
                                      ELSE IF m.ts[l[i]] <= 2 THEN 1 ELSE m.ts[l[i]] - 1]
           at == Totals(m.timeout, d)
           Place(u) == CHOOSE i \in 1 .. Len(l) : l[i] = u
<1>1. /\ m \in Shape
      /\ l \in [1 .. Len(l) -> Timers] /\ Len(l) \in Nat
      /\ \A i, j \in 1 .. Len(l) : l[i] = l[j] => i = j
      /\ Armed(m) = {l[i] : i \in 1 .. Len(l)}
  BY LinkedFacts
<1>2. m.timeout \in Int /\ \A i \in 1 .. Len(l) : m.ts[l[i]] \in Nat
  BY <1>1 DEF Shape
<1>3. d \in [1 .. Len(l) -> Int] /\ \A i \in 1 .. Len(l) : d[i] = Cost(m.ts[l[i]])
  BY <1>2 DEF Cost
<1>4. \A u \in Armed(m) : Plan(m)[u] = at[Place(u)]
  <2>1. List(m) = l
    BY ListIs DEF Linked
  <2> QED BY <2>1 DEF Plan
<1> HIDE DEF d
<1>5. /\ at \in [1 .. Len(l) -> Int]
      /\ \A i \in 1 .. Len(l) : at[i] = IF i = 1 THEN m.timeout ELSE at[i - 1] + d[i]
  BY SMTT(30), <1>1, <1>2, <1>3, TotalsInt, TotalsFacts
<1>6. ASSUME NEW p, Planned(m, l, p)
      PROVE  \A i \in 1 .. Len(l) : at[i] = p[l[i]]
  <2> DEFINE f == [i \in 1 .. Len(l) |-> p[l[i]]]
  <2>1. f \in [1 .. Len(l) -> Int] /\ \A i \in 1 .. Len(l) : f[i] = p[l[i]]
    BY <1>1, <1>6 DEF Planned
  <2>2. \A i \in 1 .. Len(l) : f[i] = IF i = 1 THEN m.timeout ELSE f[i - 1] + d[i]
    <3> TAKE i \in 1 .. Len(l)
    <3>1. CASE i = 1
      <4>1. l # <<>>
        BY <3>1, LinkedFacts
      <4> QED BY <1>6, <2>1, <3>1, <4>1 DEF Planned
    <3>2. CASE i # 1
      <4>1. i \in 2 .. Len(l) /\ i - 1 \in 1 .. Len(l)
        BY <3>2
      <4> QED BY <1>3, <1>6, <2>1, <3>2, <4>1 DEF Planned
    <3> QED BY <3>1, <3>2
  <2> HIDE DEF f
  <2>3. \A i \in 1 .. Len(l) : Totals(m.timeout, d)[i] = f[i]
    <3>1. Len(l) \in Nat /\ m.timeout \in Int /\ d \in [1 .. Len(l) -> Int]
      BY <1>1, <1>2, <1>3
    <3>2. f \in [1 .. Len(l) -> Int]
      BY <2>1
    <3> QED BY <2>2, <3>1, <3>2, TotalsUnique
  <2> QED BY <2>1, <2>3
<1> HIDE DEF at
<1>7. \A i \in 1 .. Len(l) : Place(l[i]) = i
  BY <1>1
<1> HIDE DEF Place
<1>8. \E p : Planned(m, l, p)
  <2> DEFINE p == [u \in Timers |-> IF u \in Armed(m) THEN at[Place(u)] ELSE 0]
  <2>1. \A i \in 1 .. Len(l) : p[l[i]] = at[i]
    BY <1>1, <1>7
  <2>2. p \in [Timers -> Int]
    <3> SUFFICES ASSUME NEW u \in Armed(m) PROVE at[Place(u)] \in Int
      OBVIOUS
    <3> QED BY <1>1, <1>5, <1>7
  <2> HIDE DEF p
  <2>3. l # <<>> => 1 \in 1 .. Len(l)
    BY LinkedFacts
  <2>4. \A i \in 2 .. Len(l) : p[l[i]] = p[l[i - 1]] + Cost(m.ts[l[i]])
    <3> TAKE i \in 2 .. Len(l)
    <3>1. i \in 1 .. Len(l) /\ i - 1 \in 1 .. Len(l) /\ i # 1
      OBVIOUS
    <3> QED BY <1>3, <1>5, <2>1, <3>1
  <2>5. l # <<>> => p[l[1]] = m.timeout
    BY <1>5, <2>1, <2>3
  <2>6. Planned(m, l, p)
    BY <2>2, <2>4, <2>5 DEF Planned
  <2> QED BY <2>6
<1>9. ASSUME NEW p, Planned(m, l, p), NEW u \in Armed(m) PROVE Plan(m)[u] = p[u]
  <2>1. PICK i \in 1 .. Len(l) : u = l[i]
    BY <1>1
  <2>2. Plan(m)[u] = at[i] /\ at[i] = p[l[i]]
    BY <1>4, <1>6, <1>7, <1>9, <2>1
  <2> QED BY <2>1, <2>2
<1> QED BY <1>8, <1>9

\* What Near says of the plans.
LEMMA PlansNear ==
  ASSUME NEW m, NEW l, Linked(m, l), NEW n, NEW t, Near(m, l, n, t),
         NEW u \in Armed(m) \cap Armed(n), u # t
  PROVE  Plan(n)[u] - Plan(m)[u] \in -2 .. 1
<1>1. PICK p : Planned(m, l, p)
  BY PlanFacts
<1>2. PICK k, q : /\ Linked(n, k) /\ Planned(n, k, q)
                  /\ \A v \in Armed(m) \ {t} : q[v] - p[v] \in -2 .. 1
  BY <1>1 DEF Near
<1>3. Plan(m)[u] = p[u] /\ Plan(n)[u] = q[u]
  BY <1>1, <1>2, PlanFacts
<1> QED BY <1>2, <1>3

\* A timer is its own plan.
LEMMA PlanStays ==
  ASSUME NEW m, NEW l, Linked(m, l), NEW u \in Armed(m)
  PROVE  Plan(m)[u] - Plan(m)[u] = 0
<1>1. PICK p : Planned(m, l, p)
  BY PlanFacts
<1>2. Plan(m)[u] = p[u] /\ p[u] \in Int
  <2>1. u \in Timers
    BY LinkedFacts
  <2> QED BY <1>1, <2>1, PlanFacts DEF Planned
<1> QED BY <1>2

\* A call on one timer moves no other by more than two ticks forward or one
\* back, wherever the two stand in the list of deltas, and a tick moves none:
\* TimerStart and TimerStop take from the successor exactly what they give.
THEOREM OthersStay == Spec => OthersUndisturbed
<1> DEFINE Quiet == walk = NULL /\ walk' = NULL =>
             \A t \in Armed(mem) \cap Armed(mem') :
               LET move == Plan(mem')[t] - Plan(mem)[t]
               IN IF tick' = tick THEN move \in -2 .. 1 ELSE move = 0
<1>1. Inv /\ [Next]_vars => Quiet
  <2> SUFFICES ASSUME Inv, [Next]_vars, walk = NULL, walk' = NULL,
                      NEW u \in Armed(mem) \cap Armed(mem')
               PROVE  IF tick' = tick THEN Plan(mem')[u] - Plan(mem)[u] \in -2 .. 1
                      ELSE Plan(mem')[u] - Plan(mem)[u] = 0
    BY Zenon
  <2>1. PICK l, at : Sound(mem, l, at, due, tick)
    BY DEF Inv
  <2>2. Linked(mem, l) /\ tick \in Nat /\ Awake(mem, tick)
    BY <2>1 DEF Sound, Inv, TypeOK
  <2>3. ASSUME NEW t \in Timers, Near(mem, l, mem', t), tick' = tick,
               u = t => mem' = mem
        PROVE  IF tick' = tick THEN Plan(mem')[u] - Plan(mem)[u] \in -2 .. 1
               ELSE Plan(mem')[u] - Plan(mem)[u] = 0
    <3>1. CASE u # t
      BY <2>2, <2>3, <3>1, PlansNear
    <3>2. CASE u = t
      <4>1. Plan(mem')[u] - Plan(mem)[u] = 0
        BY <2>2, <2>3, <3>2, PlanStays
      <4> QED BY <2>3, <4>1
    <3> QED BY <3>1, <3>2
  <2>4. ASSUME mem' = mem
        PROVE  IF tick' = tick THEN Plan(mem')[u] - Plan(mem)[u] \in -2 .. 1
               ELSE Plan(mem')[u] - Plan(mem)[u] = 0
    <3>1. Plan(mem')[u] - Plan(mem)[u] = 0
      BY <2>2, <2>4, PlanStays
    <3> QED BY <3>1
  <2>5. ASSUME NEW t \in Timers, TimerStart(t)
        PROVE  Near(mem, l, mem', t) /\ tick' = tick /\ (u = t => mem' = mem)
    BY <2>1, <2>2, <2>5, StartResult DEF TimerStart, MayCall, Start
  <2>6. ASSUME NEW t \in Timers, TimerStop(t)
        PROVE  Near(mem, l, mem', t) /\ tick' = tick /\ u # t
    BY <2>1, <2>2, <2>6, StopResult DEF TimerStop, MayCall
  <2>7. ASSUME NEW t \in Timers, NEW v \in Values, TimerSetValue(t, v)
        PROVE  Near(mem, l, mem', t) /\ tick' = tick /\ u # t
    BY <2>1, <2>2, <2>7, SetValueResult DEF TimerSetValue, MayCall
  <2>8. CASE Tick
    <3>1. tick' = tick + 1 /\ tick \in Int
      BY <2>2, <2>8 DEF Tick
    <3>2. CASE tick' = mem.timeout /\ mem.head /= NULL
      <4> DEFINE q == Charge(mem, tick')
      <4>1. q.head = mem.head /\ q.ts[mem.head] = 0
        <5>1. mem.timeout = tick + 1 /\ mem.head # NULL
          BY <3>1, <3>2
        <5>2. LET p == Charge(mem, tick + 1)
              IN p.head = mem.head /\ p.ts[mem.head] = 0
          BY <2>1, <2>2, <5>1, Fires
        <5> QED BY <3>1, <5>2
      <4>2. walk' = WalkFrom(q, q.head)
        BY <2>8, <3>2 DEF Tick
      <4> HIDE DEF q
      <4> QED BY <3>2, <4>1, <4>2 DEF WalkFrom
    <3>3. CASE ~(tick' = mem.timeout /\ mem.head /= NULL)
      <4>1. mem' = mem
        BY <2>8, <3>3 DEF Tick
      <4> QED BY <2>4, <4>1
    <3> QED BY <3>2, <3>3
  <2>9. CASE CallbackReturn
    BY <2>9 DEF CallbackReturn
  <2>10. CASE UNCHANGED vars
    BY <2>4, <2>10 DEF vars
  <2> QED BY <2>3, <2>5, <2>6, <2>7, <2>8, <2>9, <2>10 DEF Next
<1>2. Spec => [][Quiet]_vars
  BY <1>1, InvHolds, PTL DEF Spec
<1> QED BY <1>2 DEF OthersUndisturbed
=============================================================================
