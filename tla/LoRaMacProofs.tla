---------------------------- MODULE LoRaMacProofs ----------------------------
(***************************************************************************)
(* Proofs about LoRaMac, for every class, number of trials and choice of   *)
(* delays: a cycle always has a timer that will look at it again, and a    *)
(* transmission always has its time-out.                                   *)
(***************************************************************************)
EXTENDS LoRaMac, TLAPS

\* A countdown starts from a delay, and counts down to 0.
LEMMA CountdownFacts ==
  /\ Off \in Countdowns /\ Delays \subseteq Countdowns /\ Countdowns \subseteq Nat \cup {Off}
  /\ {0, CheckPeriod, TxLimit, RxLimit, RxDelay1, RxDelay2} \subseteq Delays
  /\ TimeOffs \subseteq Delays /\ AckDelays \subseteq Delays
  /\ \A v \in Countdowns : v # Off /\ v # 0 => v - 1 \in Countdowns
<1>1. Delays \subseteq Nat
  BY MacAssumption, RadioAssumption DEF Delays
<1>2. \A d \in Delays : d \in 0 .. d
  BY <1>1
<1>3. \A v \in Countdowns : v = Off \/ \E d \in Delays : v \in 0 .. d
  BY DEF Countdowns
<1>4. \A d \in Delays : 0 .. d \subseteq Countdowns
  BY DEF Countdowns
<1>5. Off \in Countdowns /\ Delays \subseteq Countdowns /\ Countdowns \subseteq Nat \cup {Off}
  BY <1>1, <1>2, <1>3, <1>4 DEF Countdowns
<1>6. ASSUME NEW v \in Countdowns, v # Off, v # 0
      PROVE  v - 1 \in Countdowns
  <2>1. PICK d \in Delays : v \in 0 .. d
    BY <1>3, <1>6
  <2>2. v - 1 \in 0 .. d
    BY <1>1, <1>6, <2>1
  <2> QED BY <1>4, <2>2
<1> QED BY <1>5, <1>6 DEF Delays

Limited(m) == m.radio = "TX" => m.timer["txTimeout"] # Off

\* From m to n nothing happened to the cycle: its flags and its two timers.
SameCycle(m, n) ==
    /\ n.txRunning = m.txRunning /\ n.txDelayed = m.txDelayed
    /\ n.mcpsReq = m.mcpsReq /\ n.mcpsInd = m.mcpsInd
    /\ n.timer["check"] = m.timer["check"]
    /\ n.timer["txDelayed"] = m.timer["txDelayed"]

\* A handler of the radio or of a window that may turn m into n.
Radio(m, n) ==
    /\ n \in MacShape
    /\ SameCycle(m, n)
    /\ Limited(m) => Limited(n)

LEMMA RadioTwice ==
  ASSUME NEW m, NEW n, NEW p, Radio(m, n), Radio(n, p)
  PROVE  Radio(m, p)
BY DEF Radio, SameCycle

LEMMA ArmRadio ==
  ASSUME NEW m \in MacShape, NEW t \in Timers \ {"check", "txDelayed"}, NEW v \in Delays
  PROVE  Radio(m, Arm(m, t, v))
<1>1. v \in Countdowns /\ v # Off
  BY CountdownFacts, MacAssumption, RadioAssumption DEF Delays, Off
<1> QED BY <1>1 DEF Radio, SameCycle, Limited, MacShape, Arm, Timers

LEMMA DisarmRadio ==
  ASSUME NEW m \in MacShape, NEW t \in Timers \ {"check", "txDelayed"},
         t = "txTimeout" => m.radio # "TX"
  PROVE  Radio(m, Disarm(m, t))
BY CountdownFacts DEF Radio, SameCycle, Limited, MacShape, Disarm, Timers, Off

LEMMA SetStbyRadio ==
  ASSUME NEW m \in MacShape
  PROVE  Radio(m, SetStby(m)) /\ SetStby(m).radio = "IDLE"
<1>1. SetStby(m) = [m EXCEPT !.radio = "IDLE",
                             !.timer = [@ EXCEPT !["rxTimeout"] = Off, !["txTimeout"] = Off]]
  BY DEF SetStby, MacShape, Timers
<1>2. [m.timer EXCEPT !["rxTimeout"] = Off, !["txTimeout"] = Off] \in [Timers -> Countdowns]
  BY CountdownFacts DEF MacShape
<1>3. SetStby(m) \in MacShape /\ SetStby(m).radio = "IDLE"
  BY <1>1, <1>2 DEF MacShape
<1>4. SameCycle(m, SetStby(m))
  BY <1>1 DEF SameCycle, MacShape, Timers, Off
<1> QED BY <1>3, <1>4 DEF Radio, Limited

LEMMA SetRxRadio ==
  ASSUME NEW m \in MacShape, NEW c \in BOOLEAN
  PROVE  Radio(m, SetRx(m, c))
<1> DEFINE s == [m EXCEPT !.radio = "RX", !.continuous = c]
<1>1. Radio(m, s)
  BY DEF Radio, SameCycle, Limited, MacShape, Timers, Off
<1>2. Radio(s, Arm(s, "rxTimeout", RxLimit))
  BY <1>1, ArmRadio, CountdownFacts DEF Radio, Timers
<1> QED BY <1>1, <1>2, RadioTwice DEF SetRx

LEMMA RxWindowSetupRadio ==
  ASSUME NEW m \in MacShape, NEW c \in BOOLEAN
  PROVE  Radio(m, RxWindowSetup(m, c))
<1>1. Radio(m, m)
  BY DEF Radio, SameCycle
<1> QED BY <1>1, SetRxRadio DEF RxWindowSetup

LEMMA OnRxWindow2Radio ==
  ASSUME NEW m \in MacShape
  PROVE  Radio(m, OnRxWindow2(m))
<1> DEFINE d == Disarm(m, "rx2")
           s == [d EXCEPT !.rxSlot = 1]
<1>1. Radio(m, d)
  BY DisarmRadio DEF Timers
<1>2. Radio(d, s)
  BY <1>1 DEF Radio, SameCycle, Limited, MacShape
<1>3. Radio(s, RxWindowSetup(s, Class = "C"))
  BY <1>2, RxWindowSetupRadio DEF Radio
<1> QED BY <1>1, <1>2, <1>3, RadioTwice DEF OnRxWindow2

LEMMA OnRxWindow1Radio ==
  ASSUME NEW m \in MacShape
  PROVE  Radio(m, OnRxWindow1(m))
<1> DEFINE d == Disarm(m, "rx1")
           s == [d EXCEPT !.rxSlot = 0]
           w == IF Class = "C" THEN SetStby(s) ELSE s
<1>1. Radio(m, d)
  BY DisarmRadio DEF Timers
<1>2. Radio(d, s)
  BY <1>1 DEF Radio, SameCycle, Limited, MacShape
<1>3. Radio(s, w)
  BY <1>2, SetStbyRadio DEF Radio, SameCycle
<1>4. Radio(w, RxWindowSetup(w, FALSE))
  BY <1>3, RxWindowSetupRadio DEF Radio
<1> QED BY <1>1, <1>2, <1>3, <1>4, RadioTwice DEF OnRxWindow1

LEMMA SleepOrListenRadio ==
  ASSUME NEW m \in MacShape
  PROVE  Radio(m, SleepOrListen(m))
BY OnRxWindow2Radio, SetStbyRadio DEF SleepOrListen, SetSleep

LEMMA OnAckTimeoutRadio ==
  ASSUME NEW m \in MacShape
  PROVE  Radio(m, OnAckTimeout(m))
<1> DEFINE d == Disarm(m, "ack")
<1>1. Radio(m, d)
  BY DisarmRadio DEF Timers
<1>2. Radio(d, [d EXCEPT !.ackTimeoutRetry = @ \/ m.nodeAckRequested,
                         !.macDone = @ \/ Class = "C"])
  BY ZenonT(60), <1>1 DEF Radio, SameCycle, Limited, MacShape
<1> QED BY <1>1, <1>2, RadioTwice DEF OnAckTimeout

\* The driver when the radio reports something.
LEMMA FrameSentRadio ==
  ASSUME NEW m \in MacShape
  PROVE  Radio(m, FrameSent(m))
<1> DEFINE d == Disarm(m, "txTimeout")
<1>1. d \in MacShape /\ SameCycle(m, d)
  BY CountdownFacts DEF SameCycle, MacShape, Disarm, Timers, Off
<1>2. [d EXCEPT !.radio = "IDLE"] \in MacShape /\ SameCycle(d, [d EXCEPT !.radio = "IDLE"])
      /\ [d EXCEPT !.radio = "IDLE"].radio = "IDLE"
  BY <1>1 DEF SameCycle, MacShape
<1> QED BY <1>1, <1>2 DEF FrameSent, Radio, SameCycle, Limited

LEMMA FrameReceivedRadio ==
  ASSUME NEW m \in MacShape
  PROVE  Radio(m, FrameReceived(m)) /\ Radio(m, SymbolTimeout(m))
<1> DEFINE d == Disarm(m, "rxTimeout")
<1>1. Radio(m, d)
  BY DisarmRadio DEF Timers
<1>2. Radio(d, [d EXCEPT !.radio = "IDLE"])
  BY <1>1 DEF Radio, SameCycle, Limited, MacShape
<1>3. Radio(d, [d EXCEPT !.radio = IF m.continuous THEN @ ELSE "IDLE"])
  BY <1>1 DEF Radio, SameCycle, Limited, MacShape
<1> QED BY <1>1, <1>2, <1>3, RadioTwice DEF FrameReceived, SymbolTimeout

LEMMA OnRadioTxDoneRadio ==
  ASSUME NEW m \in MacShape, NEW d \in AckDelays
  PROVE  Radio(m, OnRadioTxDone(m, d))
<1> DEFINE l == SleepOrListen(m)
           s == Arm(l, "rx1", RxDelay1)
           w == IF Class = "C" THEN s ELSE Arm(s, "rx2", RxDelay2)
           a == IF Class = "C" \/ m.nodeAckRequested THEN Arm(w, "ack", d) ELSE w
           n == [a EXCEPT !.status = "OK",
                          !.nbRepCounter = AtMost(@ + 1, ChannelsNbRep)]
<1>1. Radio(m, l)
  BY SleepOrListenRadio
<1>2. Radio(l, s)
  BY <1>1, ArmRadio, CountdownFacts DEF Radio, Timers
<1>3. Radio(s, w)
  <2>1. Radio(s, s)
    BY <1>2 DEF Radio, SameCycle
  <2> QED BY <1>2, <2>1, ArmRadio, CountdownFacts DEF Radio, Timers
<1>4. Radio(w, a)
  <2>1. Radio(w, w)
    BY <1>3 DEF Radio, SameCycle
  <2> QED BY <1>3, <2>1, ArmRadio, CountdownFacts DEF Radio, Timers
<1>5. Radio(a, n)
  <2> HIDE DEF a
  <2>1. AtMost(a.nbRepCounter + 1, ChannelsNbRep) \in 0 .. ChannelsNbRep
    BY <1>4, MacAssumption DEF Radio, MacShape, AtMost
  <2> QED BY <1>4, <2>1 DEF Radio, SameCycle, Limited, MacShape, Statuses
<1>6. Radio(m, a) /\ Radio(m, n)
  <2> HIDE DEF l, s, w, a, n
  <2>1. Radio(m, s)
    BY <1>1, <1>2, RadioTwice
  <2>2. Radio(m, w)
    BY <2>1, <1>3, RadioTwice
  <2>3. Radio(m, a)
    BY <2>2, <1>4, RadioTwice
  <2> QED BY <2>3, <1>5, RadioTwice
<1> QED BY <1>6 DEF OnRadioTxDone

LEMMA OnRadioTxTimeoutRadio ==
  ASSUME NEW m \in MacShape
  PROVE  Radio(m, OnRadioTxTimeout(m))
<1>1. Radio(m, SleepOrListen(m))
  BY SleepOrListenRadio
<1>2. Radio(SleepOrListen(m), OnRadioTxTimeout(m))
  BY <1>1 DEF OnRadioTxTimeout, Radio, SameCycle, Limited, MacShape, Statuses
<1> QED BY <1>1, <1>2, RadioTwice

LEMMA SecondWindowOverRadio ==
  ASSUME NEW m \in MacShape
  PROVE  Radio(m, SecondWindowOver(m))
<1> DEFINE st == IF m.nodeAckRequested THEN "RX2_FAILED" ELSE m.status
           n == [m EXCEPT !.status = st, !.mlmeTimeout = FALSE, !.macDone = TRUE]
<1>1. st \in Statuses
  BY DEF MacShape, Statuses
<1>2. SecondWindowOver(m) = IF m.rxSlot # 1 THEN m ELSE n
  BY DEF SecondWindowOver, MacShape
<1> HIDE DEF st
<1>3. Radio(m, n)
  BY <1>1 DEF Radio, SameCycle, Limited, MacShape
<1>4. Radio(m, m)
  BY DEF Radio, SameCycle
<1> QED BY <1>2, <1>3, <1>4

LEMMA OnRadioRxErrorRadio ==
  ASSUME NEW m \in MacShape
  PROVE  Radio(m, OnRadioRxError(m)) /\ Radio(m, OnRadioRxTimeout(m))
<1> DEFINE e == IF Class = "C" THEN OnRxWindow2(SetStby(m)) ELSE SetSleep(m)
<1>1. Radio(m, SetStby(m))
  BY SetStbyRadio
<1>2. Radio(SetStby(m), OnRxWindow2(SetStby(m)))
  BY <1>1, OnRxWindow2Radio DEF Radio
<1>3. Radio(m, e)
  BY <1>1, <1>2, RadioTwice DEF SetSleep
<1>4. Radio(e, SecondWindowOver(e))
  BY <1>3, SecondWindowOverRadio DEF Radio
<1>5. Radio(m, OnRadioRxError(m))
  BY <1>3, <1>4, RadioTwice DEF OnRadioRxError
<1>6. Radio(m, SleepOrListen(m))
  BY SleepOrListenRadio
<1>7. Radio(SleepOrListen(m), OnRadioRxTimeout(m))
  BY <1>6, SecondWindowOverRadio DEF OnRadioRxTimeout, Radio
<1>8. Radio(m, OnRadioRxTimeout(m))
  BY <1>6, <1>7, RadioTwice
<1> QED BY <1>5, <1>8

LEMMA OnTimeoutIrqRadio ==
  ASSUME NEW m \in MacShape
  PROVE  Radio(m, OnTimeoutIrq(m)) /\ Limited(OnTimeoutIrq(m))
<1>1. CASE m.radio = "RX"
  <2>1. Limited(m)
    BY <1>1 DEF Limited
  <2> QED BY <1>1, <2>1, OnRadioRxErrorRadio DEF OnTimeoutIrq, Radio
<1>2. CASE m.radio = "TX"
  <2> DEFINE i == [m EXCEPT !.radio = "IDLE"]
  <2>1. Radio(m, i) /\ Limited(i)
    BY DEF Radio, SameCycle, Limited, MacShape
  <2>2. Radio(i, OnRadioTxTimeout(i))
    BY <2>1, OnRadioTxTimeoutRadio DEF Radio
  <2>3. OnTimeoutIrq(m) = OnRadioTxTimeout(i)
    BY <1>2 DEF OnTimeoutIrq
  <2> HIDE DEF i
  <2>4. Radio(m, OnRadioTxTimeout(i))
    BY <2>1, <2>2, RadioTwice
  <2> QED BY <2>1, <2>2, <2>3, <2>4 DEF Radio
<1>3. CASE m.radio = "IDLE"
  BY <1>3 DEF OnTimeoutIrq, Radio, SameCycle, Limited
<1> QED BY <1>1, <1>2, <1>3 DEF MacShape
-----------------------------------------------------------------------------
(* The handlers that move the cycle on.                                    *)

Delayed(m) == m.txDelayed => m.timer["txDelayed"] # Off

\* A part of a handler that may turn m into n: a delay stays under way.
Step(m, n) ==
    /\ n \in MacShape
    /\ Limited(m) => Limited(n)
    /\ Delayed(m) => Delayed(n)
    /\ m.txDelayed => n.txDelayed

LEMMA StepTwice ==
  ASSUME NEW m, NEW n, NEW p, Step(m, n), Step(n, p)
  PROVE  Step(m, p)
BY DEF Step

LEMMA RadioStep ==
  ASSUME NEW m, NEW n, Radio(m, n)
  PROVE  Step(m, n)
BY DEF Radio, Step, SameCycle, Delayed

LEMMA StayStep ==
  ASSUME NEW m \in MacShape
  PROVE  Step(m, m) /\ Radio(m, m)
BY DEF Step, Radio, SameCycle

LEMMA CountUpStep ==
  ASSUME NEW m \in MacShape
  PROVE  Step(m, CountUp(m))
<1>1. AtMost(m.upLink + 1, MaxAhead) \in 0 .. MaxAhead
  BY MacAssumption DEF MacShape, AtMost
<1> QED BY <1>1 DEF CountUp, Step, MacShape, Limited, Delayed

\* SendFrameOnChannel starts the check, and SetTx the time-out.
LEMMA SendFrameOnChannelOk ==
  ASSUME NEW m \in MacShape
  PROVE  LET n == SendFrameOnChannel(m)
         IN  /\ n \in MacShape /\ Limited(n)
             /\ n.txRunning = TRUE /\ n.txDelayed = m.txDelayed
             /\ n.mcpsReq = m.mcpsReq /\ n.mcpsInd = m.mcpsInd
             /\ n.timer["check"] = CheckPeriod
             /\ n.timer["txDelayed"] = m.timer["txDelayed"]
<1> DEFINE c == Arm(m, "check", CheckPeriod)
           l == Arm(c, "txTimeout", TxLimit)
           b == [l EXCEPT !.radio = "TX"]
           k == AtMost(b.trials + 1, MaxTrials)
           n == [b EXCEPT !.status = "ERROR", !.mlmeTimeout = FALSE,
                          !.txRunning = TRUE, !.trials = k]
<1>1. /\ c \in MacShape /\ c.timer["check"] = CheckPeriod
      /\ c.timer["txDelayed"] = m.timer["txDelayed"]
      /\ c.txDelayed = m.txDelayed /\ c.mcpsReq = m.mcpsReq /\ c.mcpsInd = m.mcpsInd
  BY CountdownFacts DEF MacShape, Arm, Timers
<1>2. /\ l \in MacShape /\ l.timer["check"] = c.timer["check"]
      /\ l.timer["txDelayed"] = c.timer["txDelayed"] /\ l.timer["txTimeout"] # Off
      /\ l.txDelayed = c.txDelayed /\ l.mcpsReq = c.mcpsReq /\ l.mcpsInd = c.mcpsInd
  <2> HIDE DEF c
  <2> QED BY <1>1, CountdownFacts, RadioAssumption DEF MacShape, Arm, Timers, Off
<1>3. /\ b \in MacShape /\ b.timer = l.timer
      /\ b.txDelayed = l.txDelayed /\ b.mcpsReq = l.mcpsReq /\ b.mcpsInd = l.mcpsInd
  <2> HIDE DEF l
  <2> QED BY <1>2 DEF MacShape
<1>4. k \in 0 .. MaxTrials
  <2> HIDE DEF b
  <2> QED BY <1>3, MacAssumption DEF MacShape, AtMost
<1>5. /\ n \in MacShape /\ n.timer = b.timer /\ n.txRunning = TRUE
      /\ n.txDelayed = b.txDelayed /\ n.mcpsReq = b.mcpsReq /\ n.mcpsInd = b.mcpsInd
  <2> HIDE DEF b, k
  <2> QED BY <1>3, <1>4 DEF MacShape, Statuses
<1>6. SendFrameOnChannel(m) = n
  BY DEF SendFrameOnChannel, SendBuffer
<1> HIDE DEF c, l, b, k, n
<1> QED BY <1>1, <1>2, <1>3, <1>5, <1>6 DEF Limited

\* ScheduleTx sends, or starts TxDelayedTimer.
LEMMA ScheduleTxOk ==
  ASSUME NEW m \in MacShape, NEW off \in TimeOffs
  PROVE  LET n == ScheduleTx(m, off)
         IN  /\ n \in MacShape
             /\ Limited(m) => Limited(n)
             /\ n.mcpsReq = m.mcpsReq /\ n.mcpsInd = m.mcpsInd
             /\ \/ /\ n.txRunning = TRUE /\ n.timer["check"] = CheckPeriod
                   /\ n.txDelayed = m.txDelayed
                   /\ n.timer["txDelayed"] = m.timer["txDelayed"]
                \/ /\ n.txDelayed = TRUE /\ n.timer["txDelayed"] # Off
                   /\ n.txRunning = m.txRunning
                   /\ n.timer["check"] = m.timer["check"]
<1>1. CASE off = 0
  BY <1>1, SendFrameOnChannelOk DEF ScheduleTx
<1>2. CASE off # 0
  <2> DEFINE d == [m EXCEPT !.txDelayed = TRUE]
             n == Arm(d, "txDelayed", off)
  <2>1. off \in Countdowns /\ off # Off
    BY MacAssumption, CountdownFacts DEF Off
  <2>2. /\ d \in MacShape /\ d.txDelayed = TRUE /\ d.txRunning = m.txRunning
        /\ d.mcpsReq = m.mcpsReq /\ d.mcpsInd = m.mcpsInd
        /\ d.timer = m.timer /\ d.radio = m.radio
    BY DEF MacShape
  <2>3. /\ n \in MacShape /\ n.txDelayed = d.txDelayed /\ n.txRunning = d.txRunning
        /\ n.mcpsReq = d.mcpsReq /\ n.mcpsInd = d.mcpsInd /\ n.radio = d.radio
        /\ n.timer["txDelayed"] # Off /\ n.timer["check"] = d.timer["check"]
        /\ n.timer["txTimeout"] = d.timer["txTimeout"]
    <3> HIDE DEF d
    <3> QED BY <2>1, <2>2 DEF MacShape, Arm, Timers, Off
  <2>4. ScheduleTx(m, off) = n
    BY <1>2 DEF ScheduleTx
  <2> HIDE DEF d, n
  <2> QED BY <2>2, <2>3, <2>4 DEF Limited
<1> QED BY <1>1, <1>2

LEMMA ScheduleTxStep ==
  ASSUME NEW m \in MacShape, NEW off \in TimeOffs
  PROVE  Step(m, ScheduleTx(m, off))
<1> DEFINE n == ScheduleTx(m, off)
<1>1. /\ n \in MacShape
      /\ Limited(m) => Limited(n)
      /\ \/ n.txDelayed = m.txDelayed /\ n.timer["txDelayed"] = m.timer["txDelayed"]
         \/ n.txDelayed = TRUE /\ n.timer["txDelayed"] # Off
  BY ScheduleTxOk
<1> HIDE DEF n
<1>2. n.txDelayed \in BOOLEAN
  BY <1>1 DEF MacShape
<1>3. Step(m, n)
  BY <1>1, <1>2 DEF Step, Delayed
<1> QED BY <1>3 DEF n

LEMMA StopOnTxTimeoutStep ==
  ASSUME NEW m \in MacShape
  PROVE  Step(m, StopOnTxTimeout(m))
<1>1. Step(m, [m EXCEPT !.txRunning = FALSE, !.ackReceived = FALSE])
  BY DEF Step, MacShape, Limited, Delayed
<1> QED BY <1>1, StayStep DEF StopOnTxTimeout

LEMMA RepeatOrFinishStep ==
  ASSUME NEW m \in MacShape, NEW off \in TimeOffs
  PROVE  Step(m, RepeatOrFinish(m, off))
<1> DEFINE f == [m EXCEPT !.nbRepCounter = 0, !.txRunning = FALSE]
           r == [m EXCEPT !.macDone = FALSE]
<1>0. f \in MacShape /\ f.txDelayed = m.txDelayed /\ f.timer = m.timer /\ f.radio = m.radio
  <2>1. \A k \in 0 .. ChannelsNbRep : [m EXCEPT !.nbRepCounter = k, !.txRunning = FALSE] \in MacShape
    BY DEF MacShape
  <2>2. 0 \in 0 .. ChannelsNbRep
    BY MacAssumption
  <2>3. f \in MacShape
    BY <2>1, <2>2, Zenon
  <2>4. f.txDelayed = m.txDelayed /\ f.timer = m.timer /\ f.radio = m.radio
    BY DEF MacShape
  <2> QED BY <2>3, <2>4
<1>1. Step(m, f) /\ Step(m, r)
  <2>1. Step(m, r)
    BY DEF Step, MacShape, Limited, Delayed
  <2> HIDE DEF f
  <2>2. Step(m, f)
    BY <1>0 DEF Step, Limited, Delayed
  <2> QED BY <2>1, <2>2
<1>2. f \in MacShape /\ r \in MacShape
  BY <1>1 DEF Step
<1>3. RepeatOrFinish(m, off) \in {m, CountUp(f), ScheduleTx(r, off)}
  BY DEF RepeatOrFinish
<1> HIDE DEF f, r
<1>4. Step(m, CountUp(f))
  BY <1>1, <1>2, CountUpStep, StepTwice
<1>5. Step(m, ScheduleTx(r, off))
  BY <1>1, <1>2, ScheduleTxStep, StepTwice
<1> QED BY <1>3, <1>4, <1>5, StayStep

LEMMA FinishOnIndicationStep ==
  ASSUME NEW m \in MacShape
  PROVE  Step(m, FinishOnIndication(m))
<1> DEFINE f == [m EXCEPT !.ackTimeoutRetry = FALSE, !.nodeAckRequested = FALSE,
                          !.txRunning = FALSE]
<1>1. Step(m, f) /\ f \in MacShape
  BY ZenonT(60) DEF Step, MacShape, Limited, Delayed
<1>2. FinishOnIndication(m) \in {m, CountUp(f)}
  BY DEF FinishOnIndication
<1> HIDE DEF f
<1>3. Step(m, CountUp(f))
  BY <1>1, CountUpStep, StepTwice
<1> QED BY <1>2, <1>3, StayStep

\* A retry stays within the trials of the request, and lowers the datarate.
LEMMA RetryBounds ==
  ASSUME NEW m \in MacShape
  PROVE  /\ MayRetry(m) => m.ackRetriesCounter + 1 \in 1 .. NbTrials
         /\ NextDatarate(m) \in 0 .. MaxDatarate
<1>1. /\ m.ackRetriesCounter \in 1 .. NbTrials /\ m.ackRetries \in {1, NbTrials}
      /\ m.datarate \in 0 .. MaxDatarate
  BY DEF MacShape
<1> QED BY <1>1, MacAssumption DEF MayRetry, NextDatarate

LEMMA RetryOrGiveUpStep ==
  ASSUME NEW m \in MacShape, NEW off \in TimeOffs
  PROVE  Step(m, RetryOrGiveUp(m, off))
<1> DEFINE s == [m EXCEPT !.ackTimeoutRetry = FALSE]
           r == [s EXCEPT !.ackRetriesCounter = @ + 1, !.datarate = NextDatarate(m),
                          !.macDone = FALSE]
           g == [s EXCEPT !.txRunning = FALSE, !.nodeAckRequested = FALSE,
                          !.ackReceived = FALSE]
<1>1. \/ RetryOrGiveUp(m, off) \in {m, CountUp(g)}
      \/ MayRetry(m) /\ RetryOrGiveUp(m, off) = ScheduleTx(r, off)
  BY DEF RetryOrGiveUp
<1>2. Step(m, s) /\ s \in MacShape /\ s.ackRetriesCounter = m.ackRetriesCounter
  BY DEF Step, MacShape, Limited, Delayed
<1> HIDE DEF s
<1>3. ASSUME MayRetry(m)
      PROVE  Step(s, r) /\ r \in MacShape
  <2> DEFINE k == s.ackRetriesCounter + 1
             d == NextDatarate(m)
  <2>1. k \in 1 .. NbTrials /\ d \in 0 .. MaxDatarate
    BY <1>2, <1>3, RetryBounds
  <2>2. r = [s EXCEPT !.ackRetriesCounter = k, !.datarate = d, !.macDone = FALSE]
    BY <1>2 DEF MacShape
  <2> HIDE DEF k, d, r
  <2>3. r \in MacShape /\ r.timer = s.timer /\ r.radio = s.radio /\ r.txDelayed = s.txDelayed
    BY <1>2, <2>1, <2>2 DEF MacShape
  <2> QED BY <2>3 DEF Step, Limited, Delayed
<1>4. Step(s, g) /\ g \in MacShape
  <2> HIDE DEF g
  <2>1. g \in MacShape /\ g.timer = s.timer /\ g.radio = s.radio /\ g.txDelayed = s.txDelayed
    BY <1>2 DEF MacShape, g
  <2> QED BY <2>1 DEF Step, Limited, Delayed
<1> HIDE DEF r, g
<1>5. MayRetry(m) => Step(m, ScheduleTx(r, off))
  BY <1>2, <1>3, ScheduleTxStep, StepTwice
<1>6. Step(m, CountUp(g))
  BY <1>2, <1>4, CountUpStep, StepTwice
<1> QED BY <1>1, <1>5, <1>6, StayStep

LEMMA CheckAtOnceOk ==
  ASSUME NEW m \in MacShape
  PROVE  LET n == CheckAtOnce(m)
         IN  Step(m, n) /\ n.timer["check"] = 0
<1> DEFINE d == [m EXCEPT !.macDone = TRUE]
           n == Arm(d, "check", 0)
<1>1. d \in MacShape /\ d.txDelayed = m.txDelayed /\ d.timer = m.timer /\ d.radio = m.radio
  BY DEF MacShape
<1>2. 0 \in Countdowns /\ d.timer \in [Timers -> Countdowns]
  BY <1>1, CountdownFacts DEF MacShape
<1>3. /\ [d.timer EXCEPT !["check"] = 0] \in [Timers -> Countdowns]
      /\ [d.timer EXCEPT !["check"] = 0]["check"] = 0
      /\ [d.timer EXCEPT !["check"] = 0]["txDelayed"] = d.timer["txDelayed"]
      /\ [d.timer EXCEPT !["check"] = 0]["txTimeout"] = d.timer["txTimeout"]
  <2> HIDE DEF d
  <2> QED BY <1>2 DEF Timers
<1>4. /\ n \in MacShape /\ n.txDelayed = d.txDelayed /\ n.radio = d.radio
      /\ n.timer = [d.timer EXCEPT !["check"] = 0]
  <2> HIDE DEF d
  <2> QED BY <1>1, <1>3 DEF MacShape, Arm
<1>5. CheckAtOnce(m) = n
  BY DEF CheckAtOnce
<1> HIDE DEF d, n
<1>6. Step(m, n) /\ n.timer["check"] = 0
  BY <1>1, <1>3, <1>4 DEF Step, Limited, Delayed
<1> QED BY <1>5, <1>6

LEMMA ListenAfterWindow1Radio ==
  ASSUME NEW m \in MacShape
  PROVE  Radio(m, ListenAfterWindow1(m))
BY OnRxWindow2Radio, StayStep DEF ListenAfterWindow1

LEMMA PrepareRxDoneAbortOk ==
  ASSUME NEW m \in MacShape
  PROVE  LET n == PrepareRxDoneAbort(m)
         IN  Step(m, n) /\ n.timer["check"] = 0
<1> DEFINE r == [m EXCEPT !.txRunning = FALSE]
           s == SetStby(r)
           a == IF m.nodeAckRequested THEN OnAckTimeout(s) ELSE s
           l == ListenAfterWindow1(a)
           i == [l EXCEPT !.mcpsInd = TRUE]
<1>1. Step(m, r) /\ r \in MacShape
  BY DEF Step, MacShape, Limited, Delayed
<1>2. PrepareRxDoneAbort(m) = CheckAtOnce(i)
  BY DEF PrepareRxDoneAbort
<1> HIDE DEF r
<1>3. Step(m, s) /\ s \in MacShape
  BY <1>1, SetStbyRadio, RadioStep, StepTwice DEF Radio
<1> HIDE DEF s
<1>4. Step(m, a) /\ a \in MacShape
  BY <1>3, OnAckTimeoutRadio, RadioStep, StepTwice DEF Radio
<1> HIDE DEF a
<1>5. Step(m, l) /\ l \in MacShape
  BY <1>4, ListenAfterWindow1Radio, RadioStep, StepTwice DEF Radio
<1> HIDE DEF l
<1>6. Step(l, i) /\ i \in MacShape
  BY <1>5 DEF Step, MacShape, Limited, Delayed
<1> HIDE DEF i
<1>7. Step(m, i)
  BY <1>5, <1>6, StepTwice
<1> QED BY <1>2, <1>6, <1>7, CheckAtOnceOk, StepTwice

LEMMA OnRadioRxDoneOk ==
  ASSUME NEW m \in MacShape, NEW frame
  PROVE  LET n == OnRadioRxDone(m, frame)
         IN  Step(m, n) /\ n.timer["check"] = 0
<1> DEFINE c == IF Class = "C" THEN m ELSE SetSleep(m)
           d == Disarm(c, "rx2")
           s == [d EXCEPT !.ackReceived = FALSE]
           o == [s EXCEPT !.status = "OK"]
           enough == frame = "ack" \/ s.ackRetriesCounter > s.ackRetries
           q == IF enough THEN Disarm(s, "ack") ELSE s
           x == [q EXCEPT !.status = "OK", !.ackReceived = frame = "ack", !.mcpsInd = TRUE]
           l == ListenAfterWindow1(x)
<1>1. OnRadioRxDone(m, frame) \in {PrepareRxDoneAbort(s), PrepareRxDoneAbort(o), CheckAtOnce(l)}
  BY DEF OnRadioRxDone, Accept
<1>2. Step(m, c) /\ c \in MacShape
  BY SetStbyRadio, RadioStep, StayStep DEF Radio, SetSleep
<1> HIDE DEF c
<1>3. Step(m, d) /\ d \in MacShape
  BY <1>2, DisarmRadio, RadioStep, StepTwice DEF Radio, Timers
<1> HIDE DEF d
<1>4. Step(d, s) /\ s \in MacShape
  BY ZenonT(60), <1>3 DEF Step, MacShape, Limited, Delayed
<1> HIDE DEF s
<1>5. Step(m, s)
  BY <1>3, <1>4, StepTwice
<1>6. Step(s, o) /\ o \in MacShape
  BY <1>4 DEF Step, MacShape, Limited, Delayed, Statuses
<1> HIDE DEF o
<1>7. Step(s, q) /\ q \in MacShape
  BY <1>4, DisarmRadio, RadioStep, StayStep DEF Radio, Timers
<1> HIDE DEF q
<1>8. Step(q, x) /\ x \in MacShape
  BY ZenonT(60), <1>7 DEF Step, MacShape, Limited, Delayed, Statuses
<1> HIDE DEF x
<1>9. Step(x, l) /\ l \in MacShape
  BY <1>8, ListenAfterWindow1Radio, RadioStep DEF Radio
<1> HIDE DEF l
<1>10. Step(m, o)
  BY <1>5, <1>6, StepTwice
<1>11. Step(m, l)
  <2>1. Step(m, q)
    BY <1>5, <1>7, StepTwice
  <2>2. Step(m, x)
    BY <2>1, <1>8, StepTwice
  <2> QED BY <2>2, <1>9, StepTwice
<1>12. \A p \in {s, o} : Step(m, PrepareRxDoneAbort(p)) /\ PrepareRxDoneAbort(p).timer["check"] = 0
  BY <1>4, <1>5, <1>6, <1>10, PrepareRxDoneAbortOk, StepTwice
<1>13. Step(m, CheckAtOnce(l)) /\ CheckAtOnce(l).timer["check"] = 0
  BY <1>9, <1>11, CheckAtOnceOk, StepTwice
<1> QED BY <1>1, <1>12, <1>13

\* The parts of a state that does not stall.
Cycle(m) ==
    /\ m.txRunning => m.timer["check"] # Off
    /\ Delayed(m)
    /\ m.mcpsReq => m.timer["check"] # Off \/ m.timer["txDelayed"] # Off
    /\ m.mcpsInd => m.timer["check"] # Off

\* OnMacStateCheckTimerEvent ends the cycle or comes back.
LEMMA ConfirmOrWaitOk ==
  ASSUME NEW m \in MacShape, Delayed(m)
  PROVE  LET n == [ConfirmOrWait(m) EXCEPT !.mcpsInd = FALSE]
         IN  Step(m, n) /\ Cycle(n)
<1> DEFINE w == Arm(m, "check", CheckPeriod)
           o == [m EXCEPT !.mcpsReq = FALSE, !.macDone = FALSE]
           nw == [w EXCEPT !.mcpsInd = FALSE]
           no == [o EXCEPT !.mcpsInd = FALSE]
<1>1. CASE m.txRunning \/ m.txDelayed
  <2>1. /\ w \in MacShape /\ w.timer["check"] # Off
        /\ w.timer["txDelayed"] = m.timer["txDelayed"]
        /\ w.timer["txTimeout"] = m.timer["txTimeout"]
        /\ w.txDelayed = m.txDelayed /\ w.radio = m.radio
    BY CountdownFacts, MacAssumption DEF MacShape, Arm, Timers, Off
  <2>2. ConfirmOrWait(m) = w
    BY <1>1 DEF ConfirmOrWait
  <2> HIDE DEF w
  <2>3. /\ nw \in MacShape /\ nw.timer = w.timer
        /\ nw.txDelayed = w.txDelayed /\ nw.radio = w.radio /\ nw.mcpsInd = FALSE
    BY <2>1 DEF MacShape
  <2> HIDE DEF nw
  <2>4. Step(m, nw) /\ Cycle(nw)
    BY <2>1, <2>3 DEF Step, Limited, Delayed, Cycle
  <2> QED BY <2>2, <2>4 DEF nw
<1>2. CASE ~(m.txRunning \/ m.txDelayed)
  <2>1. /\ o \in MacShape /\ o.timer = m.timer /\ o.mcpsReq = FALSE
        /\ o.txRunning = m.txRunning /\ o.txDelayed = m.txDelayed /\ o.radio = m.radio
    BY DEF MacShape
  <2>2. ConfirmOrWait(m) = o
    BY <1>2 DEF ConfirmOrWait
  <2> HIDE DEF o
  <2>3. /\ no \in MacShape /\ no.timer = o.timer /\ no.mcpsReq = o.mcpsReq
        /\ no.txRunning = o.txRunning /\ no.txDelayed = o.txDelayed
        /\ no.radio = o.radio /\ no.mcpsInd = FALSE
    BY <2>1 DEF MacShape
  <2> HIDE DEF no
  <2>4. Step(m, no) /\ Cycle(no)
    BY <1>2, <2>1, <2>3 DEF Step, Limited, Delayed, Cycle
  <2> QED BY <2>2, <2>4 DEF no
<1> QED BY <1>1, <1>2

LEMMA OnMacStateCheckOk ==
  ASSUME NEW m \in MacShape, Delayed(m),
         NEW off1 \in TimeOffs, NEW off2 \in TimeOffs
  PROVE  LET n == OnMacStateCheck(m, <<off1, off2>>)
         IN  Step(m, n) /\ Cycle(n)
<1> DEFINE a == Disarm(m, "check")
           t == StopOnTxTimeout(a)
           b == RepeatOrFinish(t, off1)
           f == FinishOnIndication(b)
           r == RetryOrGiveUp(f, off2)
           c == IF m.macDone THEN r ELSE b
<1>1. Step(m, a) /\ a \in MacShape
  BY CountdownFacts DEF Step, MacShape, Disarm, Limited, Delayed, Timers, Off
<1>2. OnMacStateCheck(m, <<off1, off2>>) = [ConfirmOrWait(c) EXCEPT !.mcpsInd = FALSE]
  BY DEF OnMacStateCheck
<1> HIDE DEF a
<1>3. Step(m, t) /\ t \in MacShape
  BY <1>1, StopOnTxTimeoutStep, StepTwice DEF Step
<1> HIDE DEF t
<1>4. Step(m, b) /\ b \in MacShape
  BY <1>3, RepeatOrFinishStep, StepTwice DEF Step
<1> HIDE DEF b
<1>5. Step(m, f) /\ f \in MacShape
  BY <1>4, FinishOnIndicationStep, StepTwice DEF Step
<1> HIDE DEF f
<1>6. Step(m, r) /\ r \in MacShape
  BY <1>5, RetryOrGiveUpStep, StepTwice DEF Step
<1> HIDE DEF r
<1>7. Step(m, c) /\ c \in MacShape /\ Delayed(c)
  BY <1>4, <1>6 DEF Step
<1> HIDE DEF c
<1> QED BY <1>2, <1>7, ConfirmOrWaitOk, StepTwice
-----------------------------------------------------------------------------
\* The frame of a request under way is delayed or on the air, and on the air the
\* check is not due yet: else the confirm could come before the request is
\* recorded, and McpsReq would wait for a check that never comes.
Pending(m) ==
    \/ m.txDelayed /\ m.timer["txDelayed"] # Off
    \/ m.txRunning /\ m.timer["check"] \notin {Off, 0}

MacInv ==
    /\ mac \in MacShape
    /\ Limited(mac)
    /\ Cycle(mac)
    /\ caller \in [step : {"out", "checked", "prepared", "scheduled"},
                   type : Types \cup {"none"}]
    /\ caller.step = "scheduled" => Pending(mac)

\* What is left to show when the caller has no frame under way, or stays.
LEMMA RadioInv ==
  ASSUME MacInv, Radio(mac, mac'),
         caller' \in [step : {"out", "checked", "prepared", "scheduled"},
                     type : Types \cup {"none"}],
         caller'.step = "scheduled" => caller.step = "scheduled"
  PROVE  MacInv'
<1>1. mac' \in MacShape /\ Limited(mac')
  BY DEF MacInv, Radio
<1>2. Cycle(mac')
  BY DEF MacInv, Radio, SameCycle, Cycle, Delayed
<1>3. caller'.step = "scheduled" => Pending(mac')
  BY DEF MacInv, Radio, SameCycle, Pending
<1> QED BY <1>1, <1>2, <1>3 DEF MacInv

LEMMA InitInv == Init => MacInv
<1> SUFFICES ASSUME Init PROVE MacInv
  OBVIOUS
<1>1. PICK d \in 0 .. MaxDatarate :
        mac = SleepOrListen(
              [txRunning |-> FALSE, txDelayed |-> FALSE, macDone |-> FALSE,
               mcpsReq |-> FALSE, mcpsInd |-> FALSE, nodeAckRequested |-> FALSE,
               ackTimeoutRetry |-> FALSE, ackRetriesCounter |-> 1, ackRetries |-> 1,
               nbRepCounter |-> 0, upLink |-> MaxAhead, trials |-> 0, datarate |-> d,
               status |-> "ERROR", mlmeTimeout |-> FALSE, ackReceived |-> FALSE,
               rxSlot |-> 0, radio |-> "IDLE", continuous |-> FALSE,
               timer |-> [t \in Timers |-> Off]])
  BY DEF Init
<1> DEFINE z == [txRunning |-> FALSE, txDelayed |-> FALSE, macDone |-> FALSE,
               mcpsReq |-> FALSE, mcpsInd |-> FALSE, nodeAckRequested |-> FALSE,
               ackTimeoutRetry |-> FALSE, ackRetriesCounter |-> 1, ackRetries |-> 1,
               nbRepCounter |-> 0, upLink |-> MaxAhead, trials |-> 0, datarate |-> d,
               status |-> "ERROR", mlmeTimeout |-> FALSE, ackReceived |-> FALSE,
               rxSlot |-> 0, radio |-> "IDLE", continuous |-> FALSE,
               timer |-> [t \in Timers |-> Off]]
<1>2. z \in MacShape
  <2>1. /\ 1 \in 1 .. NbTrials /\ 0 \in 0 .. ChannelsNbRep
        /\ MaxAhead \in 0 .. MaxAhead /\ 0 \in 0 .. MaxTrials
    BY MacAssumption
  <2>2. [t \in Timers |-> Off] \in [Timers -> Countdowns]
    BY CountdownFacts
  <2> QED BY <2>1, <2>2 DEF MacShape, Statuses
<1>3. z.radio = "IDLE" /\ z.txRunning = FALSE /\ z.txDelayed = FALSE
      /\ z.mcpsReq = FALSE /\ z.mcpsInd = FALSE
  OBVIOUS
<1>4. mac = SleepOrListen(z)
  BY <1>1
<1> HIDE DEF z
<1>5. Radio(z, mac)
  BY <1>2, <1>4, SleepOrListenRadio
<1>6. Limited(z) /\ Cycle(z)
  BY <1>3 DEF Limited, Cycle, Delayed
<1>7. mac \in MacShape /\ Limited(mac) /\ Cycle(mac)
  BY <1>5, <1>6 DEF Radio, SameCycle, Cycle, Delayed
<1>8. /\ caller \in [step : {"out", "checked", "prepared", "scheduled"},
                     type : Types \cup {"none"}]
      /\ caller.step # "scheduled"
  BY DEF Init, Out
<1> QED BY <1>7, <1>8 DEF MacInv

LEMMA RequestInv ==
  ASSUME MacInv, NEW type \in Types, Request(type)
  PROVE  MacInv'
<1>1. Radio(mac, mac')
  <2> DEFINE r == IF type = "confirmed" THEN NbTrials ELSE 1
             k == IF type = "confirmed" THEN 1 ELSE mac.ackRetriesCounter
  <2>1. r \in {1, NbTrials} /\ k \in 1 .. NbTrials
    BY MacAssumption DEF MacInv, MacShape
  <2>2. mac' = [mac EXCEPT !.status = "ERROR", !.ackReceived = FALSE,
                           !.ackRetries = r, !.ackRetriesCounter = k]
    BY DEF Request, MacInv, MacShape
  <2> HIDE DEF r, k
  <2> QED BY <2>1, <2>2 DEF Radio, SameCycle, Limited, MacInv, MacShape, Statuses
<1>2. caller' = [step |-> "checked", type |-> type]
  BY DEF Request
<1> QED BY <1>1, <1>2, RadioInv

LEMMA PrepareFrameInv ==
  ASSUME MacInv, PrepareFrame
  PROVE  MacInv'
<1>1. Radio(mac, mac')
  <2> DEFINE a == caller.type = "confirmed"
  <2>1. a \in BOOLEAN /\ 0 \in 0 .. MaxAhead /\ 0 \in 0 .. MaxTrials
    BY MacAssumption
  <2>2. mac' = [mac EXCEPT !.nodeAckRequested = a, !.upLink = 0, !.trials = 0]
    BY DEF PrepareFrame
  <2> HIDE DEF a
  <2>3. \A k \in 0 .. MaxAhead, j \in 0 .. MaxTrials :
          Radio(mac, [mac EXCEPT !.nodeAckRequested = a, !.upLink = k, !.trials = j])
    BY ZenonT(60), <2>1 DEF Radio, SameCycle, Limited, MacInv, MacShape
  <2> QED BY <2>1, <2>2, <2>3, Zenon
<1>2. caller' = [caller EXCEPT !.step = "prepared"]
  BY DEF PrepareFrame
<1>3. caller' \in [step : {"out", "checked", "prepared", "scheduled"},
                  type : Types \cup {"none"}]
      /\ caller'.step # "scheduled"
  BY <1>2 DEF MacInv
<1> QED BY <1>1, <1>3, RadioInv

LEMMA RefuseFrameInv ==
  ASSUME MacInv, RefuseFrame
  PROVE  MacInv'
<1>1. Radio(mac, mac')
  BY DEF RefuseFrame, Radio, SameCycle, Limited, MacInv, MacShape
<1>2. caller' = Out
  BY DEF RefuseFrame
<1> QED BY <1>1, <1>2, RadioInv DEF Out

LEMMA StartSendingInv ==
  ASSUME MacInv, NEW off \in TimeOffs, StartSending(off)
  PROVE  MacInv'
<1> DEFINE s == [mac EXCEPT !.ackReceived = FALSE]
<1>1. s \in MacShape /\ SameCycle(mac, s) /\ Limited(s)
  BY DEF MacInv, MacShape, SameCycle, Limited
<1>2. mac' = ScheduleTx(s, off)
  BY DEF StartSending
<1> HIDE DEF s
<1>3. Cycle(s)
  BY <1>1 DEF MacInv, SameCycle, Cycle, Delayed
<1>4. /\ mac' \in MacShape /\ Limited(mac')
      /\ mac'.mcpsReq = s.mcpsReq /\ mac'.mcpsInd = s.mcpsInd
      /\ \/ /\ mac'.txRunning = TRUE /\ mac'.timer["check"] = CheckPeriod
            /\ mac'.txDelayed = s.txDelayed
            /\ mac'.timer["txDelayed"] = s.timer["txDelayed"]
         \/ /\ mac'.txDelayed = TRUE /\ mac'.timer["txDelayed"] # Off
            /\ mac'.txRunning = s.txRunning
            /\ mac'.timer["check"] = s.timer["check"]
  BY <1>1, <1>2, ScheduleTxOk
<1>5. CheckPeriod # Off /\ CheckPeriod # 0
  BY MacAssumption DEF Off
<1>6. Cycle(mac') /\ Pending(mac')
  BY <1>3, <1>4, <1>5 DEF Cycle, Delayed, Pending
<1>7. caller' \in [step : {"out", "checked", "prepared", "scheduled"},
                  type : Types \cup {"none"}]
  BY DEF MacInv, StartSending
<1> QED BY <1>4, <1>6, <1>7 DEF MacInv

LEMMA RequestTakenInv ==
  ASSUME MacInv, RequestTaken
  PROVE  MacInv'
<1>1. mac' = [mac EXCEPT !.mcpsReq = TRUE] /\ caller' = Out /\ Pending(mac)
  BY DEF RequestTaken, MacInv
<1>2. /\ mac' \in MacShape /\ mac'.timer = mac.timer /\ mac'.radio = mac.radio
      /\ mac'.txRunning = mac.txRunning /\ mac'.txDelayed = mac.txDelayed
      /\ mac'.mcpsInd = mac.mcpsInd
  BY <1>1 DEF MacInv, MacShape
<1>3. Limited(mac') /\ Cycle(mac')
  BY <1>1, <1>2 DEF MacInv, Limited, Cycle, Delayed, Pending
<1> QED BY <1>1, <1>2, <1>3 DEF MacInv, Out

LEMMA TxDoneInv ==
  ASSUME MacInv, NEW d \in AckDelays, TxDone(d)
  PROVE  MacInv'
<1> DEFINE f == FrameSent(mac)
<1>1. Radio(mac, f)
  BY FrameSentRadio DEF MacInv
<1>2. mac' = OnRadioTxDone(f, d) /\ caller' = caller
  BY DEF TxDone
<1> HIDE DEF f
<1>3. Radio(f, mac')
  BY <1>1, <1>2, OnRadioTxDoneRadio DEF Radio
<1>4. Radio(mac, mac')
  BY <1>1, <1>3, RadioTwice
<1> QED BY <1>2, <1>4, RadioInv DEF MacInv

LEMMA RxErrorInv ==
  ASSUME MacInv, RxError \/ RxTimeout
  PROVE  MacInv'
<1>1. caller' = caller
  BY DEF RxError, RxTimeout
<1>2. Radio(mac, FrameReceived(mac)) /\ Radio(mac, SymbolTimeout(mac))
  BY FrameReceivedRadio DEF MacInv
<1>3. CASE RxError
  <2>1. mac' = OnRadioRxError(FrameReceived(mac))
    BY <1>3 DEF RxError
  <2>2. Radio(FrameReceived(mac), mac')
    BY <1>2, <2>1, OnRadioRxErrorRadio DEF Radio
  <2> QED BY <1>1, <1>2, <2>2, RadioTwice, RadioInv DEF MacInv
<1>4. CASE RxTimeout
  <2>1. mac' = OnRadioRxTimeout(SymbolTimeout(mac))
    BY <1>4 DEF RxTimeout
  <2>2. Radio(SymbolTimeout(mac), mac')
    BY <1>2, <2>1, OnRadioRxErrorRadio DEF Radio
  <2> QED BY <1>1, <1>2, <2>2, RadioTwice, RadioInv DEF MacInv
<1> QED BY <1>3, <1>4

LEMMA RxDoneInv ==
  ASSUME MacInv, NEW frame \in Frames, RxDone(frame)
  PROVE  MacInv'
<1> DEFINE f == FrameReceived(mac)
<1>1. Radio(mac, f)
  BY FrameReceivedRadio DEF MacInv
<1>2. mac' = OnRadioRxDone(f, frame) /\ caller' = caller
  BY DEF RxDone
<1>3. caller.step = "scheduled" => mac.txDelayed
  BY DEF RxDone, AirTimePassed
<1> HIDE DEF f
<1>4. Step(f, mac') /\ mac'.timer["check"] = 0
  BY <1>1, <1>2, OnRadioRxDoneOk DEF Radio
<1>5. Step(mac, mac')
  BY <1>1, <1>4, RadioStep, StepTwice
<1>6. mac' \in MacShape /\ Limited(mac') /\ Delayed(mac')
  BY <1>5 DEF MacInv, Step, Cycle
<1>7. Cycle(mac')
  BY <1>4, <1>6 DEF Cycle, Off
<1>8. caller.step = "scheduled" => Pending(mac')
  BY <1>3, <1>5, <1>6 DEF Step, Pending, Delayed
<1> QED BY <1>2, <1>6, <1>7, <1>8 DEF MacInv

LEMMA ExpireInv ==
  ASSUME MacInv, NEW t \in Timers, Expire(t)
  PROVE  MacInv'
<1> DEFINE m == Disarm(mac, t)
<1>1. caller' = caller /\ mac.timer[t] = 0
  BY DEF Expire
<1>2. PICK off1 \in TimeOffs, off2 \in TimeOffs :
        mac' = CASE t = "check"     -> OnMacStateCheck(m, <<off1, off2>>)
                 [] t = "txDelayed" -> OnTxDelayed(m, off1)
                 [] t = "rx1"       -> OnRxWindow1(m)
                 [] t = "rx2"       -> OnRxWindow2(m)
                 [] t = "ack"       -> OnAckTimeout(m)
                 [] OTHER           -> OnTimeoutIrq(m)
  BY DEF Expire
<1>3. m \in MacShape
  BY CountdownFacts DEF MacInv, MacShape, Disarm, Timers, Off
<1>4. CASE t = "check"
  <2>1. mac' = OnMacStateCheck(m, <<off1, off2>>)
    BY <1>2, <1>4
  <2>2. Step(mac, m)
    BY <1>3, <1>4 DEF MacInv, MacShape, Disarm, Step, Limited, Delayed, Timers, Off
  <2> HIDE DEF m
  <2>3. Delayed(m)
    BY <2>2 DEF MacInv, Cycle, Step
  <2>4. Step(m, mac') /\ Cycle(mac')
    BY <1>3, <2>1, <2>3, OnMacStateCheckOk
  <2>5. Step(mac, mac')
    BY <2>2, <2>4, StepTwice
  <2>6. mac' \in MacShape /\ Limited(mac') /\ Delayed(mac')
    BY <2>5 DEF MacInv, Step, Cycle
  <2>7. caller.step = "scheduled" => Pending(mac')
    BY <1>1, <1>4, <2>5, <2>6 DEF MacInv, Pending, Step, Delayed
  <2> QED BY <1>1, <2>4, <2>6, <2>7 DEF MacInv
<1>5. CASE t = "txDelayed"
  <2> DEFINE s == [m EXCEPT !.txDelayed = FALSE]
  <2>1. mac' = ScheduleTx(s, off1)
    BY <1>2, <1>5 DEF OnTxDelayed
  <2>2. /\ m.txRunning = mac.txRunning /\ m.mcpsReq = mac.mcpsReq
        /\ m.mcpsInd = mac.mcpsInd /\ m.radio = mac.radio
        /\ m.timer["check"] = mac.timer["check"]
        /\ m.timer["txTimeout"] = mac.timer["txTimeout"]
    BY <1>5 DEF MacInv, MacShape, Disarm, Timers, Off
  <2> HIDE DEF m
  <2>3. /\ s \in MacShape /\ s.timer = m.timer /\ s.txDelayed = FALSE
        /\ s.txRunning = m.txRunning /\ s.mcpsReq = m.mcpsReq
        /\ s.mcpsInd = m.mcpsInd /\ s.radio = m.radio
    BY <1>3 DEF MacShape
  <2> HIDE DEF s
  <2>4. /\ mac' \in MacShape
        /\ Limited(s) => Limited(mac')
        /\ mac'.mcpsReq = s.mcpsReq /\ mac'.mcpsInd = s.mcpsInd
        /\ \/ /\ mac'.txRunning = TRUE /\ mac'.timer["check"] = CheckPeriod
              /\ mac'.txDelayed = s.txDelayed
              /\ mac'.timer["txDelayed"] = s.timer["txDelayed"]
           \/ /\ mac'.txDelayed = TRUE /\ mac'.timer["txDelayed"] # Off
              /\ mac'.txRunning = s.txRunning
              /\ mac'.timer["check"] = s.timer["check"]
    BY <2>1, <2>3, ScheduleTxOk
  <2>5. CheckPeriod # Off /\ CheckPeriod # 0
    BY MacAssumption DEF Off
  <2>6. Limited(mac')
    BY <2>2, <2>3, <2>4 DEF MacInv, Limited
  <2>7. Cycle(mac') /\ Pending(mac')
    BY <2>2, <2>3, <2>4, <2>5 DEF MacInv, Cycle, Delayed, Pending
  <2> QED BY <1>1, <2>4, <2>6, <2>7 DEF MacInv
<1>6. CASE t \in {"rx1", "rx2", "ack", "rxTimeout"}
  <2>1. Radio(mac, m)
    BY <1>6, DisarmRadio DEF MacInv
  <2>2. mac' \in {OnRxWindow1(m), OnRxWindow2(m), OnAckTimeout(m), OnTimeoutIrq(m)}
    BY <1>2, <1>6
  <2> HIDE DEF m
  <2>3. Radio(m, mac')
    BY <1>3, <2>2, OnRxWindow1Radio, OnRxWindow2Radio, OnAckTimeoutRadio, OnTimeoutIrqRadio
  <2>4. Radio(mac, mac')
    BY <2>1, <2>3, RadioTwice
  <2> QED BY <1>1, <2>4, RadioInv DEF MacInv
<1>7. CASE t = "txTimeout"
  <2>1. SameCycle(mac, m)
    BY <1>7 DEF MacInv, MacShape, Disarm, SameCycle, Timers, Off
  <2>2. mac' = OnTimeoutIrq(m)
    BY <1>2, <1>7
  <2> HIDE DEF m
  <2>3. Radio(m, mac') /\ Limited(mac')
    BY <1>3, <2>2, OnTimeoutIrqRadio
  <2>4. Radio(mac, mac')
    BY <2>1, <2>3 DEF Radio, SameCycle
  <2> QED BY <1>1, <2>4, RadioInv DEF MacInv
<1> QED BY <1>4, <1>5, <1>6, <1>7 DEF Timers

LEMMA TickInv ==
  ASSUME MacInv, Tick
  PROVE  MacInv'
<1> DEFINE c == [t \in Timers |-> IF mac.timer[t] = Off THEN Off ELSE mac.timer[t] - 1]
<1>1. mac' = [mac EXCEPT !.timer = c] /\ caller' = caller /\ caller = Out
  BY DEF Tick
<1>2. \A t \in Timers : mac.timer[t] # 0 /\ mac.timer[t] \in Countdowns
  BY DEF Tick, MacInv, MacShape
<1>3. \A t \in Timers : c[t] \in Countdowns /\ (c[t] = Off <=> mac.timer[t] = Off)
  <2>1. \A v \in Countdowns : v # 0 /\ v # Off => v - 1 \in Countdowns /\ v - 1 # Off
    BY CountdownFacts DEF Off
  <2> QED BY <1>2, <2>1, CountdownFacts
<1>4. c \in [Timers -> Countdowns]
  BY <1>3
<1> HIDE DEF c
<1>5. /\ mac' \in MacShape /\ mac'.timer = c /\ mac'.radio = mac.radio
      /\ mac'.txRunning = mac.txRunning /\ mac'.txDelayed = mac.txDelayed
      /\ mac'.mcpsReq = mac.mcpsReq /\ mac'.mcpsInd = mac.mcpsInd
  BY <1>1, <1>4 DEF MacInv, MacShape
<1>6. Limited(mac') /\ Cycle(mac')
  BY <1>3, <1>5 DEF MacInv, Limited, Cycle, Delayed, Timers
<1> QED BY <1>1, <1>5, <1>6 DEF MacInv, Out

LEMMA StepInv == MacInv /\ [Next]_vars => MacInv'
<1> SUFFICES ASSUME MacInv, [Next]_vars PROVE MacInv'
  OBVIOUS
<1>1. CASE UNCHANGED vars
  BY <1>1 DEF vars, MacInv, Limited, Cycle, Delayed, Pending
<1> QED BY <1>1, RequestInv, PrepareFrameInv, RefuseFrameInv, RequestTakenInv,
           StartSendingInv, TxDoneInv, RxDoneInv, RxErrorInv, ExpireInv, TickInv DEF Next

LEMMA InvAlways == Spec => []MacInv
BY InitInv, StepInv, PTL DEF Spec

\* A cycle that is not over has a timer that will look at it again, for both
\* classes, any number of trials and any delays.
THEOREM CycleNeverStalls == Spec => []NoStall
<1>1. MacInv => NoStall
  BY DEF MacInv, Cycle, Delayed, NoStall
<1> QED BY <1>1, InvAlways, PTL

\* A transmission has its time-out running.
THEOREM TransmissionIsLimited == Spec => []TxIsLimited
<1>1. MacInv => TxIsLimited
  BY DEF MacInv, Limited, TxIsLimited
<1> QED BY <1>1, InvAlways, PTL
-----------------------------------------------------------------------------
\* The history of the frame keeps its shape.
BuiltOk ==
    built \in [type : Types \cup {"none"}, aired : BOOLEAN, acked : BOOLEAN,
               datarate : 0 .. MaxDatarate]

LEMMA BuiltStep == MacInv /\ BuiltOk /\ [Next]_vars => BuiltOk'
<1> SUFFICES ASSUME MacInv, BuiltOk, [Next]_vars
             PROVE  BuiltOk'
  OBVIOUS
<1>1. CASE PrepareFrame
  <2>1. caller.type \in Types \cup {"none"} /\ mac.datarate \in 0 .. MaxDatarate
    BY DEF MacInv, MacShape
  <2> QED BY <1>1, <2>1 DEF PrepareFrame, BuiltOk
<1>2. ASSUME NEW d \in AckDelays, TxDone(d)
      PROVE  BuiltOk'
  BY <1>2 DEF TxDone, BuiltOk
<1>3. ASSUME NEW frame \in Frames, RxDone(frame)
      PROVE  BuiltOk'
  BY <1>3 DEF RxDone, BuiltOk
<1>4. CASE UNCHANGED built
  BY <1>4 DEF BuiltOk
<1>5. /\ \A type \in Types : Request(type) => UNCHANGED built
      /\ \A off \in TimeOffs : StartSending(off) => UNCHANGED built
      /\ \A t \in Timers : Expire(t) => UNCHANGED built
      /\ RefuseFrame \/ RequestTaken \/ RxError \/ RxTimeout \/ Tick => UNCHANGED built
  BY DEF Request, StartSending, Expire, RefuseFrame, RequestTaken, RxError, RxTimeout, Tick
<1> QED BY <1>1, <1>2, <1>3, <1>4, <1>5 DEF Next, vars

\* The counters stay within the limits of their requests: a trial is added only
\* below AckRetries, which the next request may have lowered meanwhile, the
\* datarate does not fall below 0, and no countdown passes 0.
THEOREM CountersStayInLimits == Spec => []TypeOK
<1>1. Init => BuiltOk
  BY DEF Init, BuiltOk
<1>2. MacInv /\ BuiltOk => TypeOK
  BY DEF MacInv, BuiltOk, TypeOK
<1> QED BY <1>1, <1>2, InvAlways, BuiltStep, PTL DEF Spec
=============================================================================
