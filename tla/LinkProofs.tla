----------------------------- MODULE LinkProofs -----------------------------
(***************************************************************************)
(* Proofs about Downlink, for any number of senders, any range of the      *)
(* counter in a frame and any content of the heap, and about Link, which   *)
(* implements it, for any commands in frames of any senders: the answers   *)
(* to the commands fit their buffer and miss none, what changes is told,   *)
(* and the search for a channel ends when the default datarate is DR_5.    *)
(***************************************************************************)
EXTENDS Link, TLAPS, WellFoundedInduction

-----------------------------------------------------------------------------
(* Counters: what holds of Downlink.                                       *)

\* A number below the modulus is its own remainder.
LEMMA SmallRemainder ==
  ASSUME NEW x \in 0 .. Modulus - 1
  PROVE  x % Modulus = x
BY DownlinkAssumption

\* From a counter below the modulus, Extend arrives at the number in the frame.
LEMMA ExtendSmall ==
  ASSUME NEW c \in 0 .. Modulus - 1, NEW q \in 0 .. Modulus - 1
  PROVE  Extend(c, q) = q
<1> DEFINE base == IF q < c THEN 0 ELSE c
           diff == (q - (base % Modulus)) % Modulus
<1>1. c % Modulus = c
  BY SmallRemainder
<1>2. base \in 0 .. Modulus - 1 /\ base <= q
  BY DownlinkAssumption
<1>3. base % Modulus = base
  BY <1>2, SmallRemainder
<1>4. q - base \in 0 .. Modulus - 1
  BY <1>2, DownlinkAssumption
<1>5. diff = q - base
  BY <1>3, <1>4, SmallRemainder
<1>6. Extend(c, q) = IF diff < Modulus \div 2 THEN base + diff
                     ELSE base + Modulus + Signed(diff)
  BY <1>1 DEF Extend
<1>7. CASE diff < Modulus \div 2
  BY <1>2, <1>5, <1>6, <1>7
<1>8. CASE ~(diff < Modulus \div 2)
  <2>1. Signed(diff) = diff - Modulus
    BY <1>8 DEF Signed
  <2> HIDE DEF base, diff
  <2> QED BY <2>1, <1>2, <1>5, <1>6, <1>8, DownlinkAssumption
<1> QED BY <1>7, <1>8
-----------------------------------------------------------------------------
\* The range of the variables; WithinModulus is part of it.
CountersOk ==
  /\ WithinModulus
  /\ sent \in [Senders -> Nat]
  /\ row \in [from : Senders \cup {Own}, number : Nat, times : 0 .. 3]

\* What a delivered frame left in the counters: it holds after one delivery one
\* of them, after two both, and then it is repeated wherever it is compared.
RowInv ==
  row.number # 0 =>
    /\ row.times <= 2
    /\ row.number \in {down, mcDown}
    /\ row.times = 2 => row.number = down /\ row.number = mcDown

\* A sequence number is below the modulus.
LEMMA SequenceNumber ==
  ASSUME CountersOk, NEW s \in Senders
  PROVE  sent[s] \in Nat /\ sent[s] % Modulus \in 0 .. Modulus - 1
BY DownlinkAssumption DEF CountersOk

\* DownLinkCounter takes the sequence number in the frame.
LEMMA RestoredByDown ==
  ASSUME CountersOk, NEW s \in Senders, s = addr
  PROVE  Restored(s) = sent[s] % Modulus
BY SequenceNumber, ExtendSmall DEF CountersOk, WithinModulus, Restored, CounterFor

LEMMA InitOk == Init => CountersOk /\ RowInv
BY DownlinkAssumption DEF Init, CountersOk, RowInv, WithinModulus

\* What one hearing does to the ranges.
LEMMA HearOk ==
  ASSUME CountersOk, NEW s \in Senders, Hear(s)
  PROVE  CountersOk'
<1>1. CASE Taken(s)
  <2>1. Restored(s) = sent[s] /\ sent[s] \in Nat
    BY <1>1, SequenceNumber DEF Taken, MicOk
  <2>2. down' \in 0 .. Modulus - 1
    BY <1>1, RestoredByDown, SequenceNumber DEF Hear, CountersOk, WithinModulus
  <2>3. mcDown' \in Nat
    BY <1>1, <2>1 DEF Hear, CountersOk, WithinModulus
  <2>4. row' \in [from : Senders \cup {Own}, number : Nat, times : 0 .. 3]
    <3>1. row.times \in 0 .. 3
      BY DEF CountersOk
    <3>2. (IF ~Again(s) THEN 1 ELSE IF row.times < 3 THEN row.times + 1 ELSE 3) \in 0 .. 3
      BY <3>1
    <3> QED BY <1>1, <2>1, <3>2 DEF Hear
  <2> QED BY <2>2, <2>3, <2>4 DEF Hear, CountersOk, WithinModulus
<1>2. CASE ~Taken(s)
  BY <1>2 DEF Hear, CountersOk, WithinModulus
<1> QED BY <1>1, <1>2

\* A frame that is heard again and taken was counted by the other counter.
LEMMA HearRow ==
  ASSUME CountersOk, RowInv, NEW s \in Senders, Hear(s)
  PROVE  RowInv'
<1>1. CASE ~Taken(s)
  BY <1>1 DEF Hear, RowInv
<1>2. CASE Taken(s)
  <2>1. /\ Restored(s) = sent[s]
        /\ sent[s] # 0 => sent[s] # CounterFor(s)
    BY <1>2 DEF Taken, MicOk, Repeated
  <2>2. row'.number = sent[s] /\ sent[s] \in Nat
    BY <1>2, SequenceNumber DEF Hear
  <2>3. row'.times = IF ~Again(s) THEN 1 ELSE IF row.times < 3 THEN row.times + 1 ELSE 3
    BY <1>2 DEF Hear
  <2>4. /\ s = addr => down' = sent[s] /\ mcDown' = mcDown
        /\ s # addr => down' = down /\ mcDown' = sent[s]
    BY <1>2, <2>1 DEF Hear
  <2>5. CASE ~Again(s)
    BY <2>2, <2>3, <2>4, <2>5 DEF RowInv
  <2>6. CASE Again(s) /\ sent[s] # 0
    <3>1. row.number = sent[s] /\ row.times \in 0 .. 3
      BY <2>6 DEF Again, CountersOk
    <3>2. row.times # 2 /\ row.times <= 2
      BY <2>1, <2>6, <3>1 DEF RowInv, CounterFor
    <3>3. row.number = IF s = addr THEN mcDown ELSE down
      BY <2>1, <2>6, <3>1 DEF RowInv, CounterFor
    <3>4. row'.times \in 1 .. 2
      BY <2>3, <3>1, <3>2
    <3>5. down' = row'.number /\ mcDown' = row'.number
      BY <2>2, <2>4, <3>1, <3>3
    <3> QED BY <3>4, <3>5 DEF RowInv
  <2>7. CASE sent[s] = 0
    BY <2>2, <2>7 DEF RowInv
  <2> QED BY <2>5, <2>6, <2>7
<1> QED BY <1>1, <1>2

LEMMA StepOk == CountersOk /\ RowInv /\ [Next]_counters => CountersOk' /\ RowInv'
<1> SUFFICES ASSUME CountersOk, RowInv, [Next]_counters
             PROVE  CountersOk' /\ RowInv'
  OBVIOUS
<1>1. ASSUME NEW s \in Senders, NewFrame(s) PROVE CountersOk' /\ RowInv'
  BY <1>1 DEF NewFrame, CountersOk, RowInv, WithinModulus
<1>2. ASSUME NEW s \in Senders, Hear(s) PROVE CountersOk' /\ RowInv'
  BY <1>2, HearOk, HearRow
<1>3. ASSUME NEW x \in Strangers, HearStranger(x) PROVE CountersOk' /\ RowInv'
  BY <1>3 DEF HearStranger, CountersOk, RowInv, WithinModulus
<1>4. CASE UNCHANGED counters
  BY <1>4 DEF counters, CountersOk, RowInv, WithinModulus
<1> QED BY <1>1, <1>2, <1>3, <1>4 DEF Next

LEMMA CountersAlways == Spec => [](CountersOk /\ RowInv)
BY InitOk, StepOk, PTL DEF Spec
-----------------------------------------------------------------------------
\* DownLinkCounter stays below 2^16, whatever is heard (LoRaMac.c, the branch
\* of OnRadioRxDone for a frame from the current address).
THEOREM CountersStayBelowModulus == Spec => []WithinModulus
<1>1. CountersOk => WithinModulus
  BY DEF CountersOk
<1> QED BY <1>1, CountersAlways, PTL

\* A frame that is repeated is delivered twice in a row at most.
THEOREM RepetitionsAreRefused == Spec => []TwiceInARow
<1>1. RowInv => TwiceInARow
  BY DEF RowInv, TwiceInARow
<1> QED BY <1>1, CountersAlways, PTL

\* No frame below the modulus is lost to the arithmetic of the counters.
THEOREM FramesAreHeard == Spec => EveryFrameHeard
<1> DEFINE Heard ==
      \A s \in Senders :
        Hear(s) /\ sent[s] < Modulus /\ sent[s] \notin {down, mcDown}
          => \/ row'.from = s /\ row'.number = sent[s]
             \/ s # addr /\ mcDown >= Modulus
<1>1. CountersOk => Heard
  <2> SUFFICES ASSUME CountersOk, NEW s \in Senders, Hear(s),
                      sent[s] < Modulus, sent[s] \notin {down, mcDown},
                      ~(s # addr /\ mcDown >= Modulus)
               PROVE  row'.from = s /\ row'.number = sent[s]
    OBVIOUS
  <2>1. CounterFor(s) \in 0 .. Modulus - 1 /\ CounterFor(s) # sent[s]
    BY DownlinkAssumption DEF CountersOk, WithinModulus, CounterFor
  <2>2. sent[s] \in 0 .. Modulus - 1 /\ sent[s] % Modulus = sent[s]
    BY SequenceNumber, SmallRemainder, DownlinkAssumption
  <2>3. Restored(s) = sent[s]
    BY <2>1, <2>2, ExtendSmall DEF Restored
  <2>4. Taken(s)
    BY <2>1, <2>3 DEF Taken, MicOk, Repeated
  <2> QED BY <2>4 DEF Hear
<1>2. CountersOk /\ [Next]_counters => [Heard]_counters
  BY <1>1
<1> QED BY <1>2, CountersAlways, PTL DEF Spec, EveryFrameHeard


-----------------------------------------------------------------------------
(* Steps one after the other.                                              *)

\* A set of naturals has a least element.
LEMMA LeastNatural ==
  ASSUME NEW S, S \subseteq Nat, S # {}
  PROVE  \E x \in S : \A y \in S : x <= y
<1>1. PICK x \in S : \A y \in S : ~ (<<y, x>> \in OpToRel(<, Nat))
  BY NatLessThanWellFounded, WFMin
<1>2. \A y \in S : ~ (y < x)
  BY <1>1 DEF OpToRel
<1> QED BY <1>2

\* A set that holds 0 and, up to n, the successor of each element it holds.
LEMMA Climb ==
  ASSUME NEW n \in Nat, NEW S, 0 \in S, \A i \in 1 .. n : i - 1 \in S => i \in S
  PROVE  \A i \in 0 .. n : i \in S
<1> DEFINE Bad == {i \in 0 .. n : i \notin S}
<1>1. Bad = {}
  <2> SUFFICES ASSUME Bad # {} PROVE FALSE
    OBVIOUS
  <2>1. PICK k \in Bad : \A j \in Bad : k <= j
    <3>1. Bad \subseteq Nat  OBVIOUS
    <3> HIDE DEF Bad
    <3> QED BY <3>1, LeastNatural
  <2>2. k # 0
    BY <2>1
  <2>3. k \in 1 .. n /\ k - 1 \in 0 .. n /\ ~(k <= k - 1)
    BY <2>1, <2>2
  <2> QED BY <2>1, <2>3
<1> QED BY <1>1

\* f has the values that n steps h make of x, one after the other.
Steps(f, n, D, x, h) ==
    f \in [0 .. n -> D] /\ f[0] = x /\ \A i \in 1 .. n : f[i] = h[i][f[i - 1]]

LEMMA StepsExist ==
  ASSUME NEW n \in Nat, NEW D, NEW x \in D, NEW h \in [1 .. n -> [D -> D]]
  PROVE  \E f : Steps(f, n, D, x, h)
<1> DEFINE Upto(k) == \E f : Steps(f, k, D, x, h)
           Reached == {k \in 0 .. n : Upto(k)}
<1>1. 0 \in Reached
  <2> DEFINE f == [i \in 0 .. 0 |-> x]
  <2>1. f \in [0 .. 0 -> D] /\ f[0] = x /\ 1 .. 0 = {} /\ 0 \in 0 .. n
    OBVIOUS
  <2> HIDE DEF f
  <2>2. Upto(0)
    BY <2>1, Zenon DEF Steps
  <2> QED BY <2>1, <2>2
<1>2. ASSUME NEW k \in 1 .. n, k - 1 \in Reached PROVE k \in Reached
  <2>1. PICK f \in [0 .. k - 1 -> D] :
          f[0] = x /\ \A i \in 1 .. k - 1 : f[i] = h[i][f[i - 1]]
    BY <1>2 DEF Steps
  <2> DEFINE g == [i \in 0 .. k |-> IF i < k THEN f[i] ELSE h[k][f[k - 1]]]
  <2>2. /\ k - 1 \in 0 .. k - 1 /\ 0 \in 0 .. k - 1 /\ k \in 0 .. n /\ k # 0
        /\ \A i \in 0 .. k : i < k => i \in 0 .. k - 1
    OBVIOUS
  <2>3. h[k] \in [D -> D] /\ f[k - 1] \in D
    BY <2>1, <2>2
  <2>4. g \in [0 .. k -> D]
    BY <2>1, <2>2, <2>3
  <2>5. g[0] = x
    BY <2>1, <2>2
  <2>6. ASSUME NEW i \in 1 .. k PROVE g[i] = h[i][g[i - 1]]
    <3>1. i - 1 \in 0 .. k - 1 /\ i - 1 \in 0 .. k /\ i - 1 < k /\ i \in 0 .. k
      OBVIOUS
    <3>2. g[i - 1] = f[i - 1]
      BY <3>1
    <3>3. CASE i < k
      <4>1. i \in 1 .. k - 1
        BY <3>3
      <4> QED BY <2>1, <3>1, <3>2, <3>3, <4>1
    <3>4. CASE i = k
      BY <3>1, <3>2, <3>4
    <3> QED BY <3>3, <3>4
  <2> HIDE DEF g
  <2>7. Upto(k)
    BY <2>4, <2>5, <2>6 DEF Steps
  <2> QED BY <2>2, <2>7
<1>3. n \in Reached
  <2> HIDE DEF Reached
  <2>1. \A i \in 0 .. n : i \in Reached
    BY <1>1, <1>2, Climb
  <2> QED BY <2>1
<1> QED BY <1>3
-----------------------------------------------------------------------------
(* The buffer of answers.                                                  *)

LEMMA SizePositive ==
  ASSUME NEW a \in Answers
  PROVE  Size(a) \in Nat \ {0}
BY DEF Answers, Size

\* The bytes used up to each answer.
LEMMA LengthIs ==
  ASSUME NEW s \in Seq(Answers)
  PROVE  \E used \in [0 .. Len(s) -> Nat] :
           /\ used[0] = 0 /\ \A i \in 1 .. Len(s) : used[i] = used[i - 1] + Size(s[i])
           /\ Length(s) = used[Len(s)]
<1> DEFINE n == Len(s)
           h == [i \in 1 .. n |-> [y \in Nat |-> y + Size(s[i])]]
           Is(f) == f = [i \in 0 .. n |-> IF i = 0 THEN 0 ELSE f[i - 1] + Size(s[i])]
           used == CHOOSE f : Is(f)
<1>1. n \in Nat /\ \A i \in 1 .. n : Size(s[i]) \in Nat
  BY SizePositive
<1>2. h \in [1 .. n -> [Nat -> Nat]]
  <2> HIDE DEF n
  <2>1. \A i \in 1 .. n : [y \in Nat |-> y + Size(s[i])] \in [Nat -> Nat]
    BY <1>1
  <2> QED BY <2>1
<1> HIDE DEF n
<1>3. PICK f \in [0 .. n -> Nat] : f[0] = 0 /\ \A i \in 1 .. n : f[i] = h[i][f[i - 1]]
  <2> HIDE DEF h
  <2>1. n \in Nat /\ 0 \in Nat
    BY <1>1
  <2>2. \E f : Steps(f, n, Nat, 0, h)
    BY <1>2, <2>1, StepsExist
  <2> QED BY <2>2 DEF Steps
<1>4. Is(f)
  <2>1. ASSUME NEW i \in 1 .. n PROVE f[i] = f[i - 1] + Size(s[i])
    <3>1. i - 1 \in 0 .. n
      BY <1>1
    <3> QED BY <1>3, <3>1
  <2>2. \A i \in 0 .. n : i # 0 => i \in 1 .. n
    BY <1>1
  <2> QED BY <1>3, <2>1, <2>2
<1>5. Is(used)
  <2> HIDE DEF Is
  <2> QED BY <1>4
<1>6. Length(s) = used[n]
  BY DEF Length, n
<1> HIDE DEF used
<1>7. /\ used[0] = 0 /\ DOMAIN used = 0 .. n
      /\ \A i \in 1 .. n : used[i] = used[i - 1] + Size(s[i])
  <2>1. 0 \in 0 .. n /\ \A i \in 1 .. n : i \in 0 .. n /\ i # 0
    BY <1>1
  <2>2. used[0] = 0 /\ DOMAIN used = 0 .. n
    BY <1>5, <2>1
  <2>3. \A i \in 1 .. n : used[i] = used[i - 1] + Size(s[i])
    BY <1>5, <2>1
  <2> QED BY <2>2, <2>3
<1>8. \A i \in 0 .. n : used[i] \in Nat
  <2> DEFINE S == {i \in 0 .. n : used[i] \in Nat}
  <2>1. 0 \in S
    BY <1>1, <1>7
  <2>2. ASSUME NEW i \in 1 .. n, i - 1 \in S PROVE i \in S
    <3>1. i \in 0 .. n
      BY <1>1
    <3> QED BY <1>1, <1>7, <2>2, <3>1
  <2> HIDE DEF S
  <2>3. \A i \in 0 .. n : i \in S
    BY <1>1, <2>1, <2>2, Climb
  <2> QED BY <2>3 DEF S
<1>9. used \in [0 .. n -> Nat]
  <2>1. used = [i \in 0 .. n |-> used[i]]
    BY <1>5
  <2> QED BY <1>8, <2>1
<1> QED BY <1>6, <1>7, <1>9 DEF n

LEMMA LengthEmpty == Length(<<>>) = 0
<1>1. <<>> \in Seq(Answers) /\ Len(<<>>) = 0
  OBVIOUS
<1> QED BY <1>1, LengthIs

LEMMA LengthNat ==
  ASSUME NEW s \in Seq(Answers)
  PROVE  Length(s) \in Nat
<1>1. Len(s) \in Nat /\ Len(s) \in 0 .. Len(s)
  OBVIOUS
<1> QED BY <1>1, LengthIs

\* An answer more is its size more.
LEMMA LengthAppend ==
  ASSUME NEW s \in Seq(Answers), NEW a \in Answers
  PROVE  Length(Append(s, a)) = Length(s) + Size(a)
<1> DEFINE r == Append(s, a)
           n == Len(s)
<1>1. /\ r \in Seq(Answers) /\ n \in Nat /\ Len(r) = n + 1 /\ r[n + 1] = a
      /\ \A i \in 1 .. n : r[i] = s[i]
  OBVIOUS
<1>2. PICK f \in [0 .. n -> Nat] :
        /\ f[0] = 0 /\ \A i \in 1 .. n : f[i] = f[i - 1] + Size(s[i])
        /\ Length(s) = f[n]
  BY LengthIs
<1>3. PICK g \in [0 .. n + 1 -> Nat] :
        /\ g[0] = 0 /\ \A i \in 1 .. n + 1 : g[i] = g[i - 1] + Size(r[i])
        /\ Length(r) = g[n + 1]
  BY <1>1, LengthIs
<1> HIDE DEF r, n
<1> DEFINE S == {i \in 0 .. n : g[i] = f[i]}
<1>4. 0 \in S
  BY <1>1, <1>2, <1>3
<1>5. ASSUME NEW i \in 1 .. n, i - 1 \in S PROVE i \in S
  <2>1. i \in 1 .. n + 1 /\ i \in 0 .. n
    BY <1>1
  <2>2. g[i] = g[i - 1] + Size(s[i]) /\ f[i] = f[i - 1] + Size(s[i])
    BY <1>1, <1>2, <1>3, <2>1
  <2> QED BY <1>5, <2>1, <2>2
<1> HIDE DEF S
<1>6. n \in S
  <2>1. \A i \in 0 .. n : i \in S
    BY <1>1, <1>4, <1>5, Climb
  <2> QED BY <1>1, <2>1
<1>7. n + 1 \in 1 .. n + 1 /\ (n + 1) - 1 = n
  BY <1>1
<1>8. g[n + 1] = g[n] + Size(a)
  BY <1>1, <1>3, <1>7
<1> QED BY <1>2, <1>3, <1>6, <1>8 DEF S, r
-----------------------------------------------------------------------------
(* One command.                                                            *)

\* The commands that ProcessMacCommands knows, and the answer each calls for.
Understood == {c \in Command : c.cmd # "unknown"}

Reply(m, c) == [to |-> c.cmd, ok |-> Good(m, c)]

LEMMA GoodBoolean ==
  ASSUME NEW m, NEW c \in Command
  PROVE  Good(m, c) \in BOOLEAN
<1>1. c.cmd = "rxParam" => c.ok \in BOOLEAN
  BY DEF Command
<1>2. LinkAdrOk(m, c) \in BOOLEAN
  BY DEF LinkAdrOk
<1>3. NewChannelOk(c) \in BOOLEAN
  <2>1. CASE c.freq = "zero"
    BY <2>1 DEF NewChannelOk, MayRemove
  <2>2. CASE c.freq # "zero"
    BY <2>2 DEF NewChannelOk, MayAdd
  <2> QED BY <2>1, <2>2
<1> QED BY <1>1, <1>2, <1>3 DEF Good

LEMMA ReplyFacts ==
  ASSUME NEW m, NEW c \in Understood
  PROVE  c.cmd # "linkCheckAns" => Reply(m, c) \in Answers
<1>1. Good(m, c) \in BOOLEAN
  BY GoodBoolean DEF Understood
<1>2. c.cmd \in {"linkAdr", "rxParam", "newChannel", "devStatus", "dutyCycle", "rxTiming",
                 "linkCheckAns"}
  BY DEF Understood, Command
<1> QED BY <1>1, <1>2 DEF Reply, Answers

\* The default channels stay defined, with ranges that end with DR_5.
Kept(m) == \A i \in Defaults : /\ m.channel[i].defined
                               /\ m.channel[i].lo <= MaxDr /\ m.channel[i].hi = MaxDr

\* A command changes parameters, never the answers; one that is refused, or has
\* no answer, changes nothing.
LEMMA AppliedFacts ==
  ASSUME NEW m \in Settings, NEW c \in Command
  PROVE  /\ Applied(m, c) \in Settings
         /\ Applied(m, c).answers = m.answers
         /\ Kept(m) => Kept(Applied(m, c))
         /\ Good(m, c) # TRUE \/ c.cmd = "linkCheckAns" => Applied(m, c) = m
<1>1. CASE c.cmd = "linkAdr"
  <2>1. c.mask \subseteq Ids \ Wide /\ c.nbRep \in Nat
    BY <1>1 DEF Command
  <2>2. Applied(m, c) = LinkAdr(m, c) /\ Good(m, c) = LinkAdrOk(m, c)
    BY <1>1 DEF Applied, Good
  <2>3. CASE ~LinkAdrOk(m, c)
    <3>1. LinkAdr(m, c) = m
      BY <2>3 DEF LinkAdr
    <3> QED BY <2>2, <3>1
  <2>4. CASE LinkAdrOk(m, c)
    <3> DEFINE k == IF c.cntl = 6 THEN c.mask \cup (Defined(m) \ Wide) ELSE c.mask
               r == IF c.nbRep = 0 THEN 1 ELSE c.nbRep
    <3>1. k \subseteq Ids \ Wide /\ r \in Nat
      BY <2>1 DEF Defined
    <3>2. LinkAdr(m, c) = [m EXCEPT !.mask = k, !.nbRep = r]
      BY <2>4 DEF LinkAdr
    <3> HIDE DEF k, r
    <3> DEFINE x == [m EXCEPT !.mask = k, !.nbRep = r]
    <3>3. x \in Settings /\ x.answers = m.answers /\ x.channel = m.channel
      BY <3>1 DEF Settings
    <3> HIDE DEF x
    <3>4. Kept(m) => Kept(x)
      BY <3>3 DEF Kept
    <3>5. Applied(m, c) = x
      BY <2>2, <3>2 DEF x
    <3> QED BY <1>1, <2>2, <2>4, <3>3, <3>4, <3>5
  <2> QED BY <2>3, <2>4
<1>2. CASE c.cmd = "newChannel"
  <2>1. c.lo \in Int /\ c.hi \in Int
    BY <1>2 DEF Command
  <2>2. Applied(m, c) = NewChannel(m, c) /\ Good(m, c) = NewChannelOk(c)
    BY <1>2 DEF Applied, Good
  <2>3. CASE ~NewChannelOk(c)
    <3>1. NewChannel(m, c) = m
      BY <2>3 DEF NewChannel
    <3> QED BY <2>2, <3>1
  <2>4. CASE NewChannelOk(c) /\ c.freq = "zero"
    <3>1. c.id \in Ids \ Defaults
      BY <2>4 DEF NewChannelOk, MayRemove
    <3> DEFINE g == [m.channel EXCEPT ![c.id] = Undefined]
               x == [m EXCEPT !.channel = g, !.mask = m.mask \ {c.id}]
    <3>2. NewChannel(m, c) = x
      BY <2>4 DEF NewChannel, ChannelRemove, Settings
    <3>3. g \in [Ids -> Channel] /\ \A i \in Defaults : g[i] = m.channel[i]
      BY <3>1, CommandAssumption DEF Settings, Channel, Undefined
    <3> HIDE DEF g
    <3>4. x \in Settings /\ x.answers = m.answers /\ x.channel = g
      BY <3>3 DEF Settings
    <3> HIDE DEF x
    <3>5. Kept(m) => Kept(x)
      BY <3>3, <3>4 DEF Kept
    <3> QED BY <1>2, <2>2, <2>4, <3>2, <3>4, <3>5
  <2>5. CASE NewChannelOk(c) /\ c.freq # "zero"
    <3> DEFINE d == [defined |-> TRUE, lo |-> c.lo, hi |-> c.hi]
               k == m.mask \cup ({c.id} \ Wide)
    <3>1. /\ c.id \in Ids /\ c.lo <= MaxDr
          /\ c.id \in Defaults => c.hi = MaxDr
      BY <2>1, <2>5, CommandAssumption DEF NewChannelOk, MayAdd
    <3>2. NewChannel(m, c) = [m EXCEPT !.channel = [m.channel EXCEPT ![c.id] = d], !.mask = k]
      BY <2>5 DEF NewChannel, ChannelAdd, Settings
    <3>3. d \in Channel /\ k \subseteq Ids \ Wide
      BY <2>1, <3>1 DEF Channel, Settings
    <3>4. d.defined = TRUE /\ d.lo = c.lo /\ d.hi = c.hi
      OBVIOUS
    <3> HIDE DEF d, k
    <3> DEFINE g == [m.channel EXCEPT ![c.id] = d]
               x == [m EXCEPT !.channel = g, !.mask = k]
    <3>5. g \in [Ids -> Channel] /\ \A i \in Defaults : g[i] = IF i = c.id THEN d ELSE m.channel[i]
      BY <3>1, <3>3, CommandAssumption DEF Settings
    <3> HIDE DEF g
    <3>6. x \in Settings /\ x.answers = m.answers /\ x.channel = g
      BY <3>3, <3>5 DEF Settings
    <3>7. NewChannel(m, c) = x
      BY <3>2 DEF g
    <3> HIDE DEF x
    <3>8. Kept(m) => Kept(x)
      BY <3>1, <3>4, <3>5, <3>6 DEF Kept
    <3> QED BY <1>2, <2>2, <2>5, <3>6, <3>7, <3>8
  <2> QED BY <2>3, <2>4, <2>5
<1>3. CASE c.cmd = "rxParam"
  <2>1. c.rx2 \in Nat /\ c.ok \in BOOLEAN
    BY <1>3 DEF Command
  <2>2. Good(m, c) = c.ok /\ Applied(m, c) = IF c.ok THEN [m EXCEPT !.rx2 = c.rx2] ELSE m
    BY <1>3 DEF Applied, Good
  <2> QED BY <1>3, <2>1, <2>2 DEF Settings, Kept
<1>4. CASE c.cmd = "dutyCycle"
  <2>1. c.max \in Nat
    BY <1>4 DEF Command
  <2>2. Good(m, c) = TRUE /\ Applied(m, c) = [m EXCEPT !.dutyCycle = c.max]
    BY <1>4 DEF Applied, Good
  <2> QED BY <1>4, <2>1, <2>2 DEF Settings, Kept
<1>5. CASE c.cmd = "rxTiming"
  <2> DEFINE d == IF c.delay = 0 THEN 1 ELSE c.delay
  <2>1. d \in Nat
    BY <1>5 DEF Command
  <2>2. Good(m, c) = TRUE /\ Applied(m, c) = [m EXCEPT !.delay = d]
    BY <1>5 DEF Applied, Good
  <2> HIDE DEF d
  <2> QED BY <1>5, <2>1, <2>2 DEF Settings, Kept
<1>6. CASE c.cmd \in {"devStatus", "linkCheckAns", "unknown"}
  <2>1. Applied(m, c) = m
    BY <1>6 DEF Applied
  <2> QED BY <2>1
<1>7. c.cmd \in {"newChannel", "linkAdr", "rxParam", "dutyCycle", "rxTiming",
                 "devStatus", "linkCheckAns", "unknown"}
  BY DEF Command
<1> QED BY <1>1, <1>2, <1>3, <1>4, <1>5, <1>6, <1>7

\* What becomes of the answers: the reply is the last of them if it fits.
LEMMA HandleFacts ==
  ASSUME NEW m \in Settings, NEW c \in Understood
  PROVE  /\ Handle(m, c) \in Settings
         /\ Kept(m) => Kept(Handle(m, c))
         /\ c.cmd = "linkCheckAns" => Handle(m, c) = m
         /\ c.cmd # "linkCheckAns" =>
              Handle(m, c).answers = IF Length(m.answers) + Size(Reply(m, c)) <= MaxLength
                                     THEN Append(m.answers, Reply(m, c)) ELSE m.answers
         /\ c.cmd # "linkCheckAns" /\ Parameters(Handle(m, c)) # Parameters(m)
              => Reply(m, c).ok = TRUE
<1> DEFINE a == Applied(m, c)
           r == Reply(m, c)
<1>1. /\ a \in Settings /\ a.answers = m.answers
      /\ Kept(m) => Kept(a)
      /\ Good(m, c) # TRUE => a = m
  BY AppliedFacts DEF Understood
<1>2. CASE c.cmd = "linkCheckAns"
  BY <1>2 DEF Handle
<1>3. CASE c.cmd # "linkCheckAns"
  <2>1. r \in Answers /\ r.ok = Good(m, c)
    BY <1>3, ReplyFacts DEF Reply
  <2>2. Handle(m, c) = IF Length(m.answers) + Size(r) <= MaxLength
                       THEN [a EXCEPT !.answers = Append(m.answers, r)] ELSE a
    BY <1>1, <1>3 DEF Handle, Answer, Fits, Reply
  <2> HIDE DEF a, r
  <2>3. CASE Length(m.answers) + Size(r) <= MaxLength
    <3>1. Append(m.answers, r) \in Seq(Answers)
      BY <2>1 DEF Settings
    <3>2. Handle(m, c) = [a EXCEPT !.answers = Append(m.answers, r)]
      BY <2>2, <2>3
    <3>3. /\ Handle(m, c) \in Settings /\ Handle(m, c).answers = Append(m.answers, r)
          /\ Handle(m, c).channel = a.channel
          /\ Parameters(Handle(m, c)) = Parameters(a)
      BY <1>1, <3>1, <3>2 DEF Settings, Parameters
    <3>4. Kept(m) => Kept(Handle(m, c))
      BY <1>1, <3>3 DEF Kept
    <3>5. Good(m, c) # TRUE => Parameters(Handle(m, c)) = Parameters(m)
      BY <1>1, <3>3
    <3> QED BY <1>3, <2>1, <2>3, <3>3, <3>4, <3>5 DEF r
  <2>4. CASE ~(Length(m.answers) + Size(r) <= MaxLength)
    <3>1. Handle(m, c) = a
      BY <2>2, <2>4
    <3> QED BY <1>1, <1>3, <2>1, <2>4, <3>1 DEF r
  <2> QED BY <2>3, <2>4
<1> QED BY <1>2, <1>3
-----------------------------------------------------------------------------
(* The commands of a frame.                                                *)

\* Up to the first unknown command, all are known.
LEMMA KnownFacts ==
  ASSUME NEW cmds \in Seq(Command)
  PROVE  Known(cmds) \in Seq(Understood)
<1> DEFINE I == {i \in 1 .. Len(cmds) : cmds[i].cmd = "unknown"}
<1>1. /\ I = {} => Known(cmds) = cmds
      /\ I # {} /\ Min(I) # 0 => Known(cmds) = SubSeq(cmds, 1, Min(I) - 1)
  BY DEF Known, SelectInSeq
<1>2. CASE I = {}
  <2>1. \A i \in 1 .. Len(cmds) : cmds[i] \in Understood
    BY <1>2 DEF Understood
  <2> QED BY <1>1, <1>2, <2>1
<1>3. CASE I # {}
  <2>1. I \subseteq Nat
    OBVIOUS
  <2>2. PICK k \in I : \A j \in I : k <= j
    <3> HIDE DEF I
    <3> QED BY <1>3, <2>1, LeastNatural
  <2>3. Min(I) = k
    <3> HIDE DEF I
    <3>1. \A x \in I : (\A j \in I : x <= j) => x = k
      BY <2>1, <2>2
    <3> QED BY <2>2, <3>1 DEF Min
  <2>4. Known(cmds) = SubSeq(cmds, 1, k - 1) /\ k \in 1 .. Len(cmds)
    BY <1>1, <1>3, <2>2, <2>3
  <2>5. \A i \in 1 .. k - 1 : i \in 1 .. Len(cmds) /\ i \notin I
    BY <2>2, <2>4
  <2>6. \A i \in 1 .. k - 1 : cmds[i] \in Understood
    BY <2>5 DEF Understood
  <2>7. k - 1 \in 0 .. Len(cmds) /\ k - 1 \in Nat
    BY <2>4
  <2>8. SubSeq(cmds, 1, k - 1) = [i \in 1 .. k - 1 |-> cmds[i]]
    BY <2>4, <2>7
  <2> HIDE DEF I
  <2>9. [i \in 1 .. k - 1 |-> cmds[i]] \in Seq(Understood)
    BY <2>6, <2>7
  <2> QED BY <2>4, <2>8, <2>9
<1> QED BY <1>2, <1>3

\* The parameters after each command are those before it, handled once.
LEMMA ObeyedFacts ==
  ASSUME NEW m \in Settings, NEW cmds \in Seq(Understood)
  PROVE  /\ Obeyed(m, cmds) \in [0 .. Len(cmds) -> Settings]
         /\ Obeyed(m, cmds)[0] = m
         /\ \A i \in 1 .. Len(cmds) :
              Obeyed(m, cmds)[i] = Handle(Obeyed(m, cmds)[i - 1], cmds[i])
<1> DEFINE n == Len(cmds)
           h == [i \in 1 .. n |-> [y \in Settings |-> Handle(y, cmds[i])]]
           Is(f) == f = [i \in 0 .. n |-> IF i = 0 THEN m ELSE Handle(f[i - 1], cmds[i])]
           after == CHOOSE f : Is(f)
<1>1. n \in Nat /\ \A i \in 1 .. n : cmds[i] \in Understood
  OBVIOUS
<1> HIDE DEF n
<1>2. h \in [1 .. n -> [Settings -> Settings]]
  <2>1. \A i \in 1 .. n : [y \in Settings |-> Handle(y, cmds[i])] \in [Settings -> Settings]
    BY <1>1, HandleFacts
  <2> QED BY <2>1
<1>3. PICK f \in [0 .. n -> Settings] : f[0] = m /\ \A i \in 1 .. n : f[i] = h[i][f[i - 1]]
  <2> HIDE DEF h
  <2>1. \E f : Steps(f, n, Settings, m, h)
    BY <1>1, <1>2, StepsExist
  <2> QED BY <2>1 DEF Steps
<1>4. Is(f)
  <2>1. ASSUME NEW i \in 1 .. n PROVE f[i] = Handle(f[i - 1], cmds[i])
    <3>1. i - 1 \in 0 .. n
      BY <1>1
    <3> QED BY <1>3, <3>1
  <2>2. \A i \in 0 .. n : i # 0 => i \in 1 .. n
    BY <1>1
  <2> QED BY <1>3, <2>1, <2>2
<1>5. Is(after)
  <2> HIDE DEF Is
  <2> QED BY <1>4
<1>6. Obeyed(m, cmds) = after
  BY DEF Obeyed, n
<1> HIDE DEF after
<1>7. /\ after[0] = m
      /\ \A i \in 1 .. n : after[i] = Handle(after[i - 1], cmds[i])
  <2>1. 0 \in 0 .. n /\ \A i \in 1 .. n : i \in 0 .. n /\ i # 0
    BY <1>1
  <2> QED BY <1>5, <2>1
<1>8. \A i \in 0 .. n : after[i] \in Settings
  <2> DEFINE S == {i \in 0 .. n : after[i] \in Settings}
  <2>1. 0 \in S
    BY <1>1, <1>7
  <2>2. ASSUME NEW i \in 1 .. n, i - 1 \in S PROVE i \in S
    <3>1. i \in 0 .. n
      BY <1>1
    <3>2. Handle(after[i - 1], cmds[i]) \in Settings
      BY <1>1, <2>2, HandleFacts
    <3> QED BY <1>7, <3>1, <3>2
  <2> HIDE DEF S
  <2>3. \A i \in 0 .. n : i \in S
    BY <1>1, <2>1, <2>2, Climb
  <2> QED BY <2>3 DEF S
<1>9. after \in [0 .. n -> Settings]
  <2>1. after = [i \in 0 .. n |-> after[i]]
    BY <1>5
  <2> QED BY <1>8, <2>1
<1> QED BY <1>6, <1>7, <1>9 DEF n

\* The answers that are due after each command.
Due(told, m, cmds) ==
    /\ told \in [0 .. Len(cmds) -> Seq(Answers)]
    /\ told[0] = <<>>
    /\ \A i \in 1 .. Len(cmds) :
         told[i] = IF cmds[i].cmd = "linkCheckAns" THEN told[i - 1]
                   ELSE Append(told[i - 1], Reply(Obeyed(m, cmds)[i - 1], cmds[i]))

LEMMA AnswersToIs ==
  ASSUME NEW m \in Settings, NEW cmds, Known(cmds) \in Seq(Understood)
  PROVE  \E told : Due(told, m, Known(cmds)) /\ AnswersTo(m, cmds) = told[Len(Known(cmds))]
<1> DEFINE known == Known(cmds)
           n == Len(known)
           r(i) == Reply(Obeyed(m, known)[i - 1], known[i])
           More(i, y) == IF known[i].cmd = "linkCheckAns" THEN y ELSE Append(y, r(i))
           h == [i \in 1 .. n |-> [y \in Seq(Answers) |-> More(i, y)]]
           Is(f) == f = [i \in 0 .. n |-> IF i = 0 THEN <<>> ELSE More(i, f[i - 1])]
           told == CHOOSE f : Is(f)
<1>1. AnswersTo(m, cmds) = told[n]
  <2> DEFINE t == CHOOSE f : f = [i \in 0 .. n |->
                    IF i = 0 THEN <<>>
                    ELSE IF known[i].cmd = "linkCheckAns" THEN f[i - 1]
                    ELSE Append(f[i - 1], [to |-> known[i].cmd,
                                           ok |-> Good(Obeyed(m, known)[i - 1], known[i])])]
  <2>1. AnswersTo(m, cmds) = t[n]
    BY DEF AnswersTo
  <2>2. t = told
    BY DEF Reply
  <2> QED BY <2>1, <2>2
<1> HIDE DEF known
<1>2. n \in Nat /\ \A i \in 1 .. n : known[i] \in Understood
  BY DEF known
<1> HIDE DEF n
<1>3. ASSUME NEW i \in 1 .. n, NEW y \in Seq(Answers) PROVE More(i, y) \in Seq(Answers)
  <2>1. known[i].cmd # "linkCheckAns" => r(i) \in Answers
    BY <1>2, ReplyFacts
  <2> HIDE DEF r
  <2> QED BY <2>1
<1> HIDE DEF More
<1>4. h \in [1 .. n -> [Seq(Answers) -> Seq(Answers)]]
  <2>1. \A i \in 1 .. n : [y \in Seq(Answers) |-> More(i, y)] \in [Seq(Answers) -> Seq(Answers)]
    BY <1>3
  <2> QED BY <2>1
<1>5. PICK f \in [0 .. n -> Seq(Answers)] :
        f[0] = <<>> /\ \A i \in 1 .. n : f[i] = h[i][f[i - 1]]
  <2> HIDE DEF h
  <2>1. <<>> \in Seq(Answers)
    OBVIOUS
  <2>2. \E f : Steps(f, n, Seq(Answers), <<>>, h)
    BY <1>2, <1>4, <2>1, StepsExist
  <2> QED BY <2>2 DEF Steps
<1>6. Is(f)
  <2>1. ASSUME NEW i \in 1 .. n PROVE f[i] = More(i, f[i - 1])
    <3>1. i - 1 \in 0 .. n
      BY <1>2
    <3>2. f[i - 1] \in Seq(Answers)
      BY <1>5, <3>1
    <3> QED BY <1>5, <3>2
  <2>2. \A i \in 0 .. n : i # 0 => i \in 1 .. n
    BY <1>2
  <2> QED BY <1>5, <2>1, <2>2
<1>7. Is(told)
  <2> HIDE DEF Is
  <2> QED BY <1>6
<1> HIDE DEF told
<1>8. /\ told[0] = <<>> /\ \A i \in 1 .. n : told[i] = More(i, told[i - 1])
  <2>1. 0 \in 0 .. n /\ \A i \in 1 .. n : i \in 0 .. n /\ i # 0
    BY <1>2
  <2> QED BY <1>7, <2>1
<1>9. \A i \in 0 .. n : told[i] \in Seq(Answers)
  <2> DEFINE S == {i \in 0 .. n : told[i] \in Seq(Answers)}
  <2>1. 0 \in S
    <3>1. <<>> \in Seq(Answers) /\ 0 \in 0 .. n
      BY <1>2
    <3> QED BY <1>8, <3>1
  <2>2. ASSUME NEW i \in 1 .. n, i - 1 \in S PROVE i \in S
    <3>1. i \in 0 .. n
      BY <1>2
    <3>2. More(i, told[i - 1]) \in Seq(Answers)
      BY <1>3, <2>2
    <3> QED BY <1>8, <3>1, <3>2
  <2> HIDE DEF S
  <2>3. \A i \in 0 .. n : i \in S
    BY <1>2, <2>1, <2>2, Climb
  <2> QED BY <2>3 DEF S
<1>10. told \in [0 .. n -> Seq(Answers)]
  <2>1. told = [i \in 0 .. n |-> told[i]]
    BY <1>7
  <2> QED BY <1>9, <2>1
<1> QED BY <1>1, <1>8, <1>10 DEF Due, n, known, More
-----------------------------------------------------------------------------
(* ProcessMacCommands.                                                     *)

\* One more answer at the end of two lists.
LEMMA ConcatAppend ==
  ASSUME NEW a \in Seq(Answers), NEW b \in Seq(Answers), NEW x \in Answers
  PROVE  /\ a \o b \in Seq(Answers)
         /\ a \o Append(b, x) = Append(a \o b, x)
         /\ Len(a \o Append(b, x)) = Len(a \o b) + 1
         /\ Len(a \o b) \in Nat /\ Len(a) \in Nat /\ Len(a) <= Len(a \o b)
  OBVIOUS

\* After each command: the answers fit, those due are there as long as they have
\* room, and one of them accepts something if a parameter has changed.
Progress(x, m, all) ==
    /\ Kept(m) => Kept(x)
    /\ Length(m.answers) <= MaxLength => Length(x.answers) <= MaxLength
    /\ all \in Seq(Answers) /\ Len(m.answers) <= Len(all)
    /\ Length(all) <= MaxLength => x.answers = all
    /\ Parameters(x) # Parameters(m)
         => \E j \in Len(m.answers) + 1 .. Len(all) : all[j].ok

LEMMA ProgressKept ==
  ASSUME NEW m \in Settings, NEW x \in Settings, NEW told \in Seq(Answers),
         NEW c \in Understood, Progress(x, m, m.answers \o told)
  PROVE  Progress(Handle(x, c), m,
                  m.answers \o IF c.cmd = "linkCheckAns" THEN told
                               ELSE Append(told, Reply(x, c)))
<1> DEFINE y == Handle(x, c)
           r == Reply(x, c)
           all == m.answers \o told
<1>1. /\ y \in Settings /\ (Kept(x) => Kept(y))
      /\ c.cmd = "linkCheckAns" => y = x
      /\ c.cmd # "linkCheckAns" =>
           y.answers = IF Length(x.answers) + Size(r) <= MaxLength
                       THEN Append(x.answers, r) ELSE x.answers
      /\ c.cmd # "linkCheckAns" /\ Parameters(y) # Parameters(x) => r.ok = TRUE
  BY HandleFacts
<1>2. CASE c.cmd = "linkCheckAns"
  BY <1>1, <1>2
<1>3. CASE c.cmd # "linkCheckAns"
  <2> DEFINE more == m.answers \o Append(told, r)
  <2>1. r \in Answers /\ m.answers \in Seq(Answers) /\ x.answers \in Seq(Answers)
    BY <1>3, ReplyFacts DEF Settings
  <2>2. /\ all \in Seq(Answers) /\ more = Append(all, r) /\ Len(more) = Len(all) + 1
        /\ Len(all) \in Nat /\ Len(m.answers) \in Nat /\ Len(m.answers) <= Len(all)
    BY <2>1, ConcatAppend
  <2>3. /\ Size(r) \in Nat \ {0} /\ Length(all) \in Nat /\ Length(x.answers) \in Nat
        /\ Length(more) = Length(all) + Size(r)
        /\ Length(Append(x.answers, r)) = Length(x.answers) + Size(r)
    BY <2>1, <2>2, SizePositive, LengthNat, LengthAppend
  <2>4. Progress(x, m, all)
    OBVIOUS
  <2> HIDE DEF y, r, all, more
  <2>5. Kept(m) => Kept(y)
    BY <1>1, <2>4 DEF Progress
  <2>6. Length(m.answers) <= MaxLength => Length(y.answers) <= MaxLength
    <3>1. CASE Length(x.answers) + Size(r) <= MaxLength
      <4>1. Length(y.answers) = Length(x.answers) + Size(r)
        BY <1>1, <1>3, <2>3, <3>1
      <4> QED BY <3>1, <4>1
    <3>2. CASE ~(Length(x.answers) + Size(r) <= MaxLength)
      <4>1. y.answers = x.answers
        BY <1>1, <1>3, <3>2
      <4> QED BY <2>4, <4>1 DEF Progress
    <3> QED BY <3>1, <3>2
  <2>7. more \in Seq(Answers) /\ Len(m.answers) <= Len(more)
    BY <2>1, <2>2
  <2>8. Length(more) <= MaxLength => y.answers = more
    <3> SUFFICES ASSUME Length(more) <= MaxLength PROVE y.answers = more
      OBVIOUS
    <3>1. Length(all) <= MaxLength /\ Length(all) + Size(r) <= MaxLength
      BY <2>3, CommandAssumption
    <3>2. x.answers = all
      BY <2>4, <3>1 DEF Progress
    <3> QED BY <1>1, <1>3, <2>2, <3>1, <3>2
  <2>9. ASSUME Parameters(y) # Parameters(m)
        PROVE  \E j \in Len(m.answers) + 1 .. Len(more) : more[j].ok
    <3>1. CASE Parameters(x) # Parameters(m)
      <4>1. PICK j \in Len(m.answers) + 1 .. Len(all) : all[j].ok
        BY <2>4, <3>1 DEF Progress
      <4>2. j \in 1 .. Len(all) /\ j \in Len(m.answers) + 1 .. Len(more)
        BY <2>2
      <4>3. more[j] = all[j]
        BY <2>1, <2>2, <4>2
      <4> QED BY <4>1, <4>2, <4>3
    <3>2. CASE Parameters(x) = Parameters(m)
      <4>1. r.ok = TRUE
        BY <1>1, <1>3, <2>9, <3>2
      <4>2. Len(more) \in Len(m.answers) + 1 .. Len(more) /\ more[Len(more)] = r
        BY <2>1, <2>2
      <4> QED BY <4>1, <4>2
    <3> QED BY <3>1, <3>2
  <2>10. Progress(y, m, more)
    BY <2>5, <2>6, <2>7, <2>8, <2>9 DEF Progress
  <2> QED BY <1>3, <2>10 DEF y, r, more
<1> QED BY <1>2, <1>3

\* All the commands of a frame.
LEMMA ProcessFacts ==
  ASSUME NEW m \in Settings, NEW cmds \in Seq(Command)
  PROVE  /\ ProcessMacCommands(m, cmds) \in Settings
         /\ AnswersTo(m, cmds) \in Seq(Answers)
         /\ Progress(ProcessMacCommands(m, cmds), m, m.answers \o AnswersTo(m, cmds))
<1> DEFINE known == Known(cmds)
           n == Len(known)
           after == Obeyed(m, known)
<1>1. known \in Seq(Understood)
  BY KnownFacts
<1>2. PICK told : Due(told, m, known) /\ AnswersTo(m, cmds) = told[n]
  BY <1>1, AnswersToIs
<1>3. /\ after \in [0 .. n -> Settings] /\ after[0] = m
      /\ \A i \in 1 .. n : after[i] = Handle(after[i - 1], known[i])
  BY <1>1, ObeyedFacts
<1>4. ProcessMacCommands(m, cmds) = after[n]
  BY DEF ProcessMacCommands
<1>5. /\ told \in [0 .. n -> Seq(Answers)] /\ told[0] = <<>>
      /\ \A i \in 1 .. n :
           told[i] = IF known[i].cmd = "linkCheckAns" THEN told[i - 1]
                     ELSE Append(told[i - 1], Reply(after[i - 1], known[i]))
  BY <1>2 DEF Due
<1>6. n \in Nat /\ \A i \in 1 .. n : known[i] \in Understood
  BY <1>1
<1> HIDE DEF known, n, after
<1> DEFINE S == {i \in 0 .. n : Progress(after[i], m, m.answers \o told[i])}
<1>7. 0 \in S
  <2>1. m.answers \in Seq(Answers)
    BY DEF Settings
  <2>2. m.answers \o <<>> = m.answers /\ Len(m.answers) <= Len(m.answers)
    BY <2>1
  <2>3. Progress(m, m, m.answers)
    BY <2>1, <2>2 DEF Progress
  <2>4. Progress(after[0], m, m.answers \o told[0])
    BY <1>3, <1>5, <2>2, <2>3, Zenon
  <2>5. 0 \in 0 .. n
    BY <1>6
  <2> QED BY <2>4, <2>5
<1>8. ASSUME NEW i \in 1 .. n, i - 1 \in S PROVE i \in S
  <2>1. i \in 0 .. n /\ i - 1 \in 0 .. n
    BY <1>6
  <2>2. after[i - 1] \in Settings /\ told[i - 1] \in Seq(Answers) /\ known[i] \in Understood
    BY <1>3, <1>5, <1>6, <2>1
  <2>3. Progress(after[i - 1], m, m.answers \o told[i - 1])
    BY <1>8
  <2>4. Progress(after[i], m, m.answers \o told[i])
    <3> HIDE DEF S
    <3> QED BY <1>3, <1>5, <2>2, <2>3, ProgressKept
  <2> QED BY <2>1, <2>4
<1> HIDE DEF S
<1>9. n \in S /\ n \in 0 .. n
  <2>1. \A i \in 0 .. n : i \in S
    BY <1>6, <1>7, <1>8, Climb
  <2>2. n \in 0 .. n
    BY <1>6
  <2> QED BY <2>1, <2>2
<1>10. after[n] \in Settings /\ told[n] \in Seq(Answers)
  BY <1>3, <1>5, <1>9
<1> QED BY <1>2, <1>4, <1>9, <1>10 DEF S
-----------------------------------------------------------------------------
(* The link.                                                               *)

\* What every operation on the link needs and keeps.
LinkInv == TypeOK /\ Kept(link) /\ AnswersFit /\ AnswersComplete

\* The search for a channel changes the mask alone.
LEMMA ScheduleFacts ==
  ASSUME NEW m \in Settings, NEW dr
  PROVE  /\ ScheduleTx(m, dr) \in Settings
         /\ ScheduleTx(m, dr).answers = m.answers
         /\ ScheduleTx(m, dr).channel = m.channel
<1>1. MaskFound(m, dr) \subseteq Ids \ Wide
  <2>1. Enabled(m) \subseteq Ids \ Wide /\ Defaults \subseteq Ids \ Wide
    BY CommandAssumption DEF Enabled, Settings
  <2> QED BY <2>1 DEF MaskFound
<1> QED BY <1>1 DEF ScheduleTx, Settings

LEMMA InitInv == LinkInit => LinkInv
<1> SUFFICES ASSUME LinkInit PROVE LinkInv
  OBVIOUS
<1> DEFINE m == UserChannelAddFun(Factory)
<1>1. link = m /\ carried = [s \in Senders |-> <<>>] /\ owed = <<>> /\ work = 0
  BY DEF LinkInit
<1>2. <<>> \in Seq(Answers) /\ <<>> \in Seq(Commands)
  OBVIOUS
<1>3. /\ \A i \in Ids : Factory.channel[i] \in Channel
      /\ \A i \in Defaults : Factory.channel[i] = [defined |-> TRUE, lo |-> 0, hi |-> MaxDr]
      /\ Defaults \subseteq Ids \ Wide /\ Factory.answers = <<>>
  BY CommandAssumption DEF Factory, Channel, Undefined
<1>4. Factory \in Settings
  BY <1>2, <1>3 DEF Factory, Settings
<1>41. m \in Settings /\ m.answers = <<>> /\ Defaults \subseteq m.mask
       /\ \A i \in Defaults : m.channel[i] = [defined |-> TRUE, lo |-> 0, hi |-> MaxDr]
  <2>1. [defined |-> TRUE, lo |-> 0, hi |-> MaxDr] \in Channel
    BY CommandAssumption DEF Channel
  <2> QED BY <1>3, <1>4, <2>1 DEF UserChannelAddFun, Settings
<1> HIDE DEF m
<1>5. TypeOK
  <2>1. carried \in [Senders -> Seq(Commands)]
    BY <1>1, <1>2
  <2>2. owed \in Seq(Answers) /\ work \in 0 .. MaxWork
    BY <1>1, <1>2, LinkAssumption
  <2> QED BY <1>1, <1>41, <2>1, <2>2 DEF TypeOK
<1>6. Kept(link)
  BY <1>1, <1>3, <1>41, CommandAssumption DEF Kept
<1>7. AnswersFit /\ AnswersComplete
  BY <1>1, <1>41, LengthEmpty, CommandAssumption DEF AnswersFit, AnswersComplete
<1> QED BY <1>5, <1>6, <1>7 DEF LinkInv

\* A frame that is heard, with or without its commands obeyed.
LEMMA HearFrameKeeps ==
  ASSUME LinkInv, NEW s \in Senders, HearFrame(s)
  PROVE  LinkInv' /\ (Taken(s) => Progress(link', link, link.answers \o AnswersTo(link, carried[s])))
<1>1. /\ link \in Settings /\ carried \in [Senders -> Seq(Commands)] /\ owed \in Seq(Answers)
      /\ work \in 0 .. MaxWork /\ carried' = carried /\ work' = work
  BY DEF LinkInv, TypeOK, HearFrame
<1>2. CASE ~Taken(s)
  <2>1. UNCHANGED linkVars
    BY <1>2 DEF HearFrame, linkVars
  <2> QED BY <1>2, <2>1 DEF linkVars, LinkInv, TypeOK, Kept, AnswersFit, AnswersComplete
<1>3. CASE Taken(s)
  <2> DEFINE told == AnswersTo(link, carried[s])
             all == link.answers \o told
  <2>1. carried[s] \in Seq(Command)
    <3>1. carried[s] \in Seq(Commands)
      BY <1>1
    <3> QED BY <3>1, LinkAssumption
  <2>2. /\ link' = ProcessMacCommands(link, carried[s])
        /\ owed' = IF Length(owed) > MaxLength THEN owed ELSE owed \o told
    BY <1>3 DEF HearFrame
  <2>3. link' \in Settings /\ told \in Seq(Answers) /\ Progress(link', link, all)
    BY <1>1, <2>1, <2>2, ProcessFacts
  <2> HIDE DEF told
  <2>4. owed' \in Seq(Answers)
    BY <1>1, <2>2, <2>3
  <2>5. Kept(link)' /\ AnswersFit'
    BY <2>3 DEF LinkInv, AnswersFit, Progress, Kept
  <2>6. AnswersComplete'
    <3> SUFFICES ASSUME Length(owed') <= MaxLength PROVE link'.answers = owed'
      BY DEF AnswersComplete
    <3>1. ~(Length(owed) > MaxLength)
      <4>1. Length(owed) \in Nat /\ Length(owed') \in Nat /\ MaxLength \in Nat
        BY <1>1, <2>4, LengthNat, CommandAssumption
      <4> QED BY <2>2, <4>1
    <3>2. link.answers = owed
      <4>1. Length(owed) \in Nat /\ MaxLength \in Nat
        BY <1>1, LengthNat, CommandAssumption
      <4> QED BY <3>1, <4>1 DEF LinkInv, AnswersComplete
    <3>3. owed' = all
      BY <2>2, <3>1, <3>2
    <3> QED BY <2>3, <3>3 DEF Progress
  <2>7. TypeOK'
    BY <1>1, <2>3, <2>4 DEF TypeOK
  <2> QED BY <2>3, <2>5, <2>6, <2>7 DEF LinkInv, told
<1> QED BY <1>2, <1>3

LEMMA StepInv == LinkInv /\ [LinkNext]_<<counters, linkVars>> => LinkInv'
<1> SUFFICES ASSUME LinkInv, [LinkNext]_<<counters, linkVars>>
             PROVE  LinkInv'
  OBVIOUS
<1>1. /\ link \in Settings /\ carried \in [Senders -> Seq(Commands)] /\ owed \in Seq(Answers)
      /\ work \in 0 .. MaxWork
  BY DEF LinkInv, TypeOK
<1>2. ASSUME NEW s \in Senders, HearFrame(s) PROVE LinkInv'
  BY <1>2, HearFrameKeeps
<1>3. ASSUME NEW s \in Senders, NEW cmds \in Frames, NewFrameWith(s, cmds) PROVE LinkInv'
  <2>1. cmds \in Seq(Commands) /\ Len(cmds) \in Nat
    <3>1. CASE cmds = <<>>
      BY <3>1
    <3>2. ASSUME NEW c \in Commands, cmds = <<c>> PROVE cmds \in Seq(Commands)
      BY <3>2
    <3>3. ASSUME NEW c \in Commands, NEW d \in Commands, cmds = <<c, d>>
          PROVE  cmds \in Seq(Commands)
      BY <3>3
    <3>4. cmds \in Commands \X Commands => \E c, d \in Commands : cmds = <<c, d>>
      OBVIOUS
    <3>5. cmds \in Seq(Commands)
      BY <3>1, <3>2, <3>3, <3>4, Zenon DEF Frames
    <3> QED BY <3>5
  <2>2. /\ work' = work + 1 + 3 * Len(cmds) /\ work + 1 + 3 * Len(cmds) <= MaxWork
        /\ carried' = [carried EXCEPT ![s] = cmds] /\ link' = link /\ owed' = owed
    BY <1>3 DEF NewFrameWith
  <2>3. work' \in 0 .. MaxWork
    BY <1>1, <2>1, <2>2, LinkAssumption
  <2>4. carried' \in [Senders -> Seq(Commands)]
    BY <1>1, <2>1, <2>2
  <2> QED BY <1>1, <2>2, <2>3, <2>4 DEF LinkInv, TypeOK, Kept, AnswersFit, AnswersComplete
<1>4. ASSUME UNCHANGED linkVars PROVE LinkInv'
  BY <1>4 DEF linkVars, LinkInv, TypeOK, Kept, AnswersFit, AnswersComplete
<1>5. ASSUME link' \in Settings, link'.answers = link.answers, link'.channel = link.channel,
             UNCHANGED <<carried, owed, work>>
      PROVE  LinkInv'
  BY <1>5 DEF LinkInv, TypeOK, Kept, AnswersFit, AnswersComplete
<1>6. ASSUME NEW dr \in 0 .. DefaultDr, Retransmit(dr) PROVE LinkInv'
  BY <1>1, <1>5, <1>6, ScheduleFacts DEF Retransmit
<1>7. ASSUME NEW dr \in 0 .. DefaultDr, NEW fits \in BOOLEAN, Uplink(dr, fits)
      PROVE  LinkInv'
  <2>1. CASE ~fits
    <3>1. UNCHANGED linkVars
      BY <1>7, <2>1 DEF Uplink, linkVars
    <3> QED BY <1>4, <3>1
  <2>2. CASE fits
    <3> DEFINE x == [link EXCEPT !.answers = <<>>]
    <3>1. x \in Settings /\ x.answers = <<>> /\ x.channel = link.channel /\ <<>> \in Seq(Answers)
      <4>1. <<>> \in Seq(Answers)
        OBVIOUS
      <4> QED BY <1>1, <4>1 DEF Settings
    <3>2. link' = ScheduleTx(x, dr) /\ owed' = <<>> /\ UNCHANGED <<carried, work>>
      BY <1>7, <2>2 DEF Uplink
    <3> HIDE DEF x
    <3>3. link' \in Settings /\ link'.answers = <<>> /\ link'.channel = link.channel
      BY <3>1, <3>2, ScheduleFacts
    <3>4. Kept(link)'
      BY <3>3 DEF LinkInv, Kept
    <3>5. AnswersFit' /\ AnswersComplete'
      BY <3>2, <3>3, LengthEmpty, CommandAssumption DEF AnswersFit, AnswersComplete
    <3> QED BY <1>1, <3>1, <3>2, <3>3, <3>4, <3>5 DEF LinkInv, TypeOK
  <2> QED BY <2>1, <2>2
<1>8. ASSUME GiveUp PROVE LinkInv'
  <2>1. /\ link' = [link EXCEPT !.mask = link.mask \cup Defaults]
        /\ UNCHANGED <<carried, owed, work>>
    BY <1>8 DEF GiveUp
  <2>2. link' \in Settings /\ link'.answers = link.answers /\ link'.channel = link.channel
    BY <1>1, <2>1, CommandAssumption DEF Settings
  <2> QED BY <1>5, <2>1, <2>2
<1>9. ASSUME NEW x \in Strangers, HearOther(x) PROVE LinkInv'
  BY <1>4, <1>9 DEF HearOther
<1> QED BY <1>2, <1>3, <1>4, <1>6, <1>7, <1>8, <1>9 DEF LinkNext

THEOREM LinkInvHolds == LinkSpec => []LinkInv
BY InitInv, StepInv, PTL DEF LinkSpec

\* ChannelsMask[ 0 ] never holds a channel beyond its 16 bits.
THEOREM LinkTypeCorrect == LinkSpec => []TypeOK
<1>1. LinkInv => TypeOK
  BY DEF LinkInv
<1> QED BY LinkInvHolds, <1>1, PTL

\* Whatever commands come between two frames of the device, their answers fit
\* MacCommandsBuffer.
THEOREM AnswersAlwaysFit == LinkSpec => []AnswersFit
<1>1. LinkInv => AnswersFit
  BY DEF LinkInv
<1> QED BY LinkInvHolds, <1>1, PTL

\* The buffer misses the answer to none of the commands since a frame last
\* emptied it, and keeps their order, as long as all have room: nothing is
\* dropped by frames that were refused for their length or repeated.
THEOREM NoAnswerMissing == LinkSpec => []AnswersComplete
<1>1. LinkInv => AnswersComplete
  BY DEF LinkInv
<1> QED BY LinkInvHolds, <1>1, PTL

\* When the default datarate is DR_5, no command leaves the loop of ScheduleTx
\* without a channel: the default channels have ranges up to DR_5.
THEOREM SearchesEnd ==
  ASSUME DefaultDr = MaxDr
  PROVE  LinkSpec => []SearchEnds
<1>1. LinkInv => SearchEnds
  <2> SUFFICES ASSUME LinkInv, NEW dr \in 0 .. DefaultDr PROVE SearchFinds(link, dr)
    BY DEF SearchEnds
  <2>1. PICK d \in Defaults : TRUE
    BY CommandAssumption
  <2>2. link.channel[d].lo \in Int /\ link.channel[d].hi \in Int
    BY <2>1, CommandAssumption DEF LinkInv, TypeOK, Settings, Channel
  <2>3. link.channel[d].defined /\ link.channel[d].lo <= MaxDr /\ link.channel[d].hi = MaxDr
    BY <2>1 DEF LinkInv, Kept
  <2>4. DefaultDr \in link.channel[d].lo .. link.channel[d].hi
    BY <2>2, <2>3, CommandAssumption
  <2>5. d \in Usable(link, Enabled(link) \cup Defaults, DefaultDr)
    BY <2>1, <2>3, <2>4 DEF Usable
  <2> QED BY <2>5 DEF SearchFinds
<1> QED BY LinkInvHolds, <1>1, PTL

\* What a frame changes is accepted in one of the answers it leaves, unless they
\* did not all fit: a command that is refused changes nothing.
THEOREM ChangesTold == LinkSpec => ChangesAreTold
<1> DEFINE Told == (\E s \in Senders : HearFrame(s)) /\ Parameters(link') # Parameters(link)
                     => \/ \E i \in Len(link.answers) + 1 .. Len(link'.answers) :
                             link'.answers[i].ok
                        \/ Length(owed') > MaxLength
<1>1. LinkInv /\ [LinkNext]_<<counters, linkVars>> => [Told]_<<counters, linkVars>>
  <2> SUFFICES ASSUME LinkInv, NEW s \in Senders, HearFrame(s),
                      Parameters(link') # Parameters(link), ~(Length(owed') > MaxLength)
               PROVE  \E i \in Len(link.answers) + 1 .. Len(link'.answers) : link'.answers[i].ok
    OBVIOUS
  <2> DEFINE all == link.answers \o AnswersTo(link, carried[s])
  <2>1. Taken(s)
    BY DEF HearFrame
  <2>2. LinkInv' /\ Progress(link', link, all)
    BY <2>1, HearFrameKeeps
  <2> HIDE DEF all
  <2>3. Length(owed') <= MaxLength
    <3>1. Length(owed') \in Nat /\ MaxLength \in Nat
      BY <2>2, LengthNat, CommandAssumption DEF LinkInv, TypeOK
    <3> QED BY <3>1
  <2>4. link'.answers = owed'
    BY <2>2, <2>3 DEF LinkInv, AnswersComplete
  <2>5. Length(all) <= MaxLength
    <3>1. ~(Length(owed) > MaxLength)
      BY <2>1, <2>3 DEF HearFrame
    <3>2. link.answers = owed
      <4>1. Length(owed) \in Nat /\ MaxLength \in Nat
        BY LengthNat, CommandAssumption DEF LinkInv, TypeOK
      <4> QED BY <3>1, <4>1 DEF LinkInv, AnswersComplete
    <3>3. owed' = all
      BY <2>1, <3>1, <3>2 DEF HearFrame, all
    <3> QED BY <2>3, <3>3
  <2>6. link'.answers = all
    BY <2>2, <2>5 DEF Progress
  <2>7. \E j \in Len(link.answers) + 1 .. Len(all) : all[j].ok
    BY <2>2 DEF Progress
  <2> QED BY <2>6, <2>7
<1> QED BY LinkInvHolds, <1>1, PTL DEF LinkSpec, ChangesAreTold
-----------------------------------------------------------------------------
\* Every step of the link is a step of the counters or leaves them alone.
LEMMA LinkStep == [LinkNext]_<<counters, linkVars>> => [Next]_counters
<1> SUFFICES ASSUME [LinkNext]_<<counters, linkVars>>
             PROVE  [Next]_counters
  OBVIOUS
<1>1. ASSUME NEW s \in Senders, HearFrame(s) PROVE Next
  BY <1>1 DEF HearFrame, Next
<1>2. ASSUME NEW s \in Senders, NEW cmds \in Frames, NewFrameWith(s, cmds) PROVE Next
  BY <1>2 DEF NewFrameWith, Next
<1>3. ASSUME NEW x \in Strangers, HearOther(x) PROVE Next
  BY <1>3 DEF HearOther, Next
<1>4. ASSUME NEW dr \in 0 .. DefaultDr, Retransmit(dr) PROVE UNCHANGED counters
  BY <1>4 DEF Retransmit, counters
<1>5. ASSUME NEW dr \in 0 .. DefaultDr, NEW fits \in BOOLEAN, Uplink(dr, fits)
      PROVE  UNCHANGED counters
  BY <1>5 DEF Uplink, counters
<1>6. ASSUME GiveUp PROVE UNCHANGED counters
  BY <1>6 DEF GiveUp, counters
<1>7. CASE UNCHANGED <<counters, linkVars>>
  BY <1>7
<1> QED BY <1>1, <1>2, <1>3, <1>4, <1>5, <1>6, <1>7 DEF LinkNext

\* The link implements the counters of Downlink.
LEMMA LinkImplementsDownlink == LinkSpec => Spec
<1>1. LinkInit => Init
  BY DEF LinkInit
<1> QED BY <1>1, LinkStep, PTL DEF LinkSpec, Spec

\* Whatever commands the frames carry, a frame that is repeated is delivered
\* twice in a row at most.
THEOREM LinkRefusesRepetitions == LinkSpec => []TwiceInARow
BY LinkImplementsDownlink, RepetitionsAreRefused, PTL

\* Whatever commands they carry, frames are not lost to the counters.
THEOREM LinkHearsFrames == LinkSpec => EveryFrameHeard
BY LinkImplementsDownlink, FramesAreHeard, PTL
=============================================================================
