---------------------------- MODULE RadioProofs ----------------------------
(***************************************************************************)
(* Proofs about what the handlers of LoRaMac do to the radio: which of     *)
(* them leave a transmission or a reception alone, for either class, and   *)
(* when a class C device stops listening.                                  *)
(***************************************************************************)
EXTENDS LoRaMacProofs
-----------------------------------------------------------------------------
(* What leaves a transmission or a reception alone.                        *)

\* From m to n a transmission goes on, and a reception is not broken off.
GoesOn(m, n) ==
    /\ n \in MacShape
    /\ m.radio = "TX" => n.radio = "TX"
    /\ m.radio = "RX" => n.radio # "IDLE"

LEMMA GoesOnTwice ==
  ASSUME NEW m, NEW n, NEW p, GoesOn(m, n), GoesOn(n, p)
  PROVE  GoesOn(m, p)
BY DEF GoesOn, MacShape

LEMMA ScheduleTxGoesOn ==
  ASSUME NEW m \in MacShape, NEW off \in TimeOffs
  PROVE  GoesOn(m, ScheduleTx(m, off))
<1>1. ScheduleTx(m, off) \in MacShape
  BY ScheduleTxOk
<1>2. CASE off = 0
  <2> DEFINE b == SendBuffer(Arm(m, "check", CheckPeriod))
  <2>1. b.radio = "TX" /\ DOMAIN b = DOMAIN m
    BY DEF SendBuffer, Arm, MacShape
  <2>2. ScheduleTx(m, off) = [b EXCEPT !.status = "ERROR", !.mlmeTimeout = FALSE,
                              !.txRunning = TRUE, !.trials = AtMost(@ + 1, MaxTrials)]
    BY <1>2 DEF ScheduleTx, SendFrameOnChannel
  <2> HIDE DEF b
  <2>3. ScheduleTx(m, off).radio = "TX"
    BY <2>1, <2>2 DEF MacShape
  <2> QED BY <1>1, <2>3 DEF GoesOn
<1>3. CASE off # 0
  <2>1. ScheduleTx(m, off).radio = m.radio
    BY <1>3 DEF ScheduleTx, Arm, MacShape
  <2> QED BY <1>1, <2>1 DEF GoesOn
<1> QED BY <1>2, <1>3

LEMMA CountUpGoesOn ==
  ASSUME NEW m \in MacShape
  PROVE  GoesOn(m, CountUp(m))
BY CountUpStep DEF CountUp, Step, GoesOn, MacShape

\* The parts of the state check.
LEMMA PartsGoOn ==
  ASSUME NEW m \in MacShape, NEW off \in TimeOffs
  PROVE  /\ GoesOn(m, StopOnTxTimeout(m)) /\ GoesOn(m, RepeatOrFinish(m, off))
         /\ GoesOn(m, FinishOnIndication(m)) /\ GoesOn(m, RetryOrGiveUp(m, off))
<1>0. GoesOn(m, m)
  BY DEF GoesOn
<1>1. GoesOn(m, StopOnTxTimeout(m))
  <2>1. GoesOn(m, [m EXCEPT !.txRunning = FALSE, !.ackReceived = FALSE])
    BY DEF GoesOn, MacShape
  <2> QED BY <1>0, <2>1 DEF StopOnTxTimeout
<1>2. GoesOn(m, RepeatOrFinish(m, off))
  <2> DEFINE f == [m EXCEPT !.nbRepCounter = 0, !.txRunning = FALSE]
             r == [m EXCEPT !.macDone = FALSE]
  <2>1. RepeatOrFinish(m, off) \in {m, CountUp(f), ScheduleTx(r, off)}
    BY DEF RepeatOrFinish
  <2>2. \A k \in 0 .. ChannelsNbRep : GoesOn(m, [m EXCEPT !.nbRepCounter = k, !.txRunning = FALSE])
    BY DEF GoesOn, MacShape
  <2>3. GoesOn(m, f)
    <3>1. 0 \in 0 .. ChannelsNbRep
      BY MacAssumption
    <3> QED BY <2>2, <3>1, Zenon
  <2>4. GoesOn(m, r)
    BY DEF GoesOn, MacShape
  <2> HIDE DEF f, r
  <2>5. GoesOn(m, CountUp(f)) /\ GoesOn(m, ScheduleTx(r, off))
    BY <2>3, <2>4, CountUpGoesOn, ScheduleTxGoesOn, GoesOnTwice DEF GoesOn
  <2> QED BY <1>0, <2>1, <2>5
<1>3. GoesOn(m, FinishOnIndication(m))
  <2> DEFINE f == [m EXCEPT !.ackTimeoutRetry = FALSE, !.nodeAckRequested = FALSE,
                            !.txRunning = FALSE]
  <2>1. FinishOnIndication(m) \in {m, CountUp(f)}
    BY DEF FinishOnIndication
  <2>2. GoesOn(m, f)
    BY DEF GoesOn, MacShape
  <2> HIDE DEF f
  <2>3. GoesOn(m, CountUp(f))
    BY <2>2, CountUpGoesOn, GoesOnTwice DEF GoesOn
  <2> QED BY <1>0, <2>1, <2>3
<1>4. GoesOn(m, RetryOrGiveUp(m, off))
  <2> DEFINE s == [m EXCEPT !.ackTimeoutRetry = FALSE]
             r == [s EXCEPT !.ackRetriesCounter = @ + 1, !.datarate = NextDatarate(m),
                            !.macDone = FALSE]
             g == [s EXCEPT !.txRunning = FALSE, !.nodeAckRequested = FALSE,
                            !.ackReceived = FALSE]
  <2>1. \/ RetryOrGiveUp(m, off) \in {m, CountUp(g)}
        \/ MayRetry(m) /\ RetryOrGiveUp(m, off) = ScheduleTx(r, off)
    BY DEF RetryOrGiveUp
  <2>2. GoesOn(m, s) /\ s.ackRetriesCounter = m.ackRetriesCounter
    BY DEF GoesOn, MacShape
  <2> HIDE DEF s
  <2>3. ASSUME MayRetry(m)
        PROVE  GoesOn(s, r)
    <3> DEFINE k == s.ackRetriesCounter + 1
               d == NextDatarate(m)
    <3>1. k \in 1 .. NbTrials /\ d \in 0 .. MaxDatarate
      BY <2>2, <2>3, RetryBounds
    <3>2. r = [s EXCEPT !.ackRetriesCounter = k, !.datarate = d, !.macDone = FALSE]
      BY <2>2 DEF GoesOn, MacShape
    <3> HIDE DEF k, d, r
    <3> QED BY <2>2, <3>1, <3>2 DEF GoesOn, MacShape
  <2>4. GoesOn(s, g)
    BY ZenonT(60), <2>2 DEF GoesOn, MacShape
  <2> HIDE DEF r, g
  <2>5. GoesOn(m, CountUp(g))
    BY <2>2, <2>4, CountUpGoesOn, GoesOnTwice DEF GoesOn
  <2>6. MayRetry(m) => GoesOn(m, ScheduleTx(r, off))
    BY <2>2, <2>3, ScheduleTxGoesOn, GoesOnTwice DEF GoesOn
  <2> QED BY <1>0, <2>1, <2>5, <2>6
<1> QED BY <1>1, <1>2, <1>3, <1>4

LEMMA OnMacStateCheckGoesOn ==
  ASSUME NEW m \in MacShape, NEW off1 \in TimeOffs, NEW off2 \in TimeOffs
  PROVE  GoesOn(m, OnMacStateCheck(m, <<off1, off2>>))
<1> DEFINE a == Disarm(m, "check")
           t == StopOnTxTimeout(a)
           b == RepeatOrFinish(t, off1)
           f == FinishOnIndication(b)
           r == RetryOrGiveUp(f, off2)
           c == IF m.macDone THEN r ELSE b
           w == ConfirmOrWait(c)
<1>1. GoesOn(m, a)
  BY CountdownFacts DEF GoesOn, MacShape, Disarm, Timers
<1>2. OnMacStateCheck(m, <<off1, off2>>) = [w EXCEPT !.mcpsInd = FALSE]
  BY DEF OnMacStateCheck
<1> HIDE DEF a
<1>3. GoesOn(m, t)
  BY <1>1, PartsGoOn, GoesOnTwice DEF GoesOn
<1> HIDE DEF t
<1>4. GoesOn(m, b)
  BY <1>3, PartsGoOn, GoesOnTwice DEF GoesOn
<1> HIDE DEF b
<1>5. GoesOn(m, f)
  BY <1>4, PartsGoOn, GoesOnTwice DEF GoesOn
<1> HIDE DEF f
<1>6. GoesOn(m, r)
  BY <1>5, PartsGoOn, GoesOnTwice DEF GoesOn
<1> HIDE DEF r
<1>7. GoesOn(m, c)
  BY <1>4, <1>6
<1> HIDE DEF c
<1>8. GoesOn(c, w)
  BY <1>7, CountdownFacts DEF ConfirmOrWait, Arm, GoesOn, MacShape, Timers
<1> HIDE DEF w
<1>9. GoesOn(w, [w EXCEPT !.mcpsInd = FALSE])
  BY <1>8 DEF GoesOn, MacShape
<1> QED BY <1>2, <1>7, <1>8, <1>9, GoesOnTwice

\* The timers that are not about the radio, and the second window.
LEMMA ExpireGoesOn ==
  ASSUME MacInv, NEW t \in {"check", "txDelayed", "rx2", "ack"}, Expire(t)
  PROVE  GoesOn(mac, mac')
<1> DEFINE m == Disarm(mac, t)
<1>1. PICK off1 \in TimeOffs, off2 \in TimeOffs :
        mac' = CASE t = "check"     -> OnMacStateCheck(m, <<off1, off2>>)
                 [] t = "txDelayed" -> OnTxDelayed(m, off1)
                 [] t = "rx1"       -> OnRxWindow1(m)
                 [] t = "rx2"       -> OnRxWindow2(m)
                 [] t = "ack"       -> OnAckTimeout(m)
                 [] OTHER           -> OnTimeoutIrq(m)
  BY DEF Expire
<1>2. GoesOn(mac, m)
  BY CountdownFacts DEF GoesOn, MacInv, MacShape, Disarm, Timers
<1> HIDE DEF m
<1>3. CASE t = "check"
  BY <1>1, <1>2, <1>3, OnMacStateCheckGoesOn, GoesOnTwice DEF GoesOn
<1>4. CASE t = "txDelayed"
  <2> DEFINE s == [m EXCEPT !.txDelayed = FALSE]
  <2>1. GoesOn(m, s)
    BY <1>2 DEF GoesOn, MacShape
  <2>2. mac' = ScheduleTx(s, off1)
    BY <1>1, <1>4 DEF OnTxDelayed
  <2> HIDE DEF s
  <2>3. GoesOn(s, mac')
    BY <2>1, <2>2, ScheduleTxGoesOn DEF GoesOn
  <2> QED BY <1>2, <2>1, <2>3, GoesOnTwice
<1>5. CASE t = "rx2"
  <2> DEFINE d == Disarm(m, "rx2")
             s == [d EXCEPT !.rxSlot = 1]
  <2>1. GoesOn(m, d)
    BY <1>2, CountdownFacts DEF GoesOn, MacShape, Disarm, Timers
  <2>2. GoesOn(d, s)
    BY <2>1 DEF GoesOn, MacShape
  <2>3. mac' = RxWindowSetup(s, Class = "C")
    BY <1>1, <1>5 DEF OnRxWindow2
  <2> HIDE DEF d, s
  <2>4. GoesOn(s, mac')
    BY <2>2, <2>3, RxWindowSetupRadio DEF RxWindowSetup, GoesOn, Radio
  <2> QED BY <1>2, <2>1, <2>2, <2>4, GoesOnTwice
<1>6. CASE t = "ack"
  <2>1. mac' = OnAckTimeout(m)
    BY <1>1, <1>6
  <2>2. mac' \in MacShape
    BY <1>2, <2>1, OnAckTimeoutRadio DEF GoesOn, Radio
  <2>3. mac'.radio = m.radio
    BY <1>2, <2>1 DEF OnAckTimeout, Disarm, GoesOn, MacShape
  <2> QED BY <1>2, <2>2, <2>3 DEF GoesOn
<1> QED BY <1>3, <1>4, <1>5, <1>6

\* The request in the main loop, and time.
LEMMA RequestGoesOn ==
  ASSUME MacInv,
         \/ \E type \in Types : Request(type)
         \/ PrepareFrame \/ RefuseFrame \/ RequestTaken \/ Tick
         \/ \E off \in TimeOffs : StartSending(off)
  PROVE  mac'.radio = mac.radio \/ GoesOn(mac, mac')
<1>1. ASSUME NEW type \in Types, Request(type)
      PROVE  mac'.radio = mac.radio
  BY <1>1 DEF Request, MacInv, MacShape
<1>2. CASE PrepareFrame \/ RefuseFrame \/ RequestTaken \/ Tick
  BY <1>2 DEF PrepareFrame, RefuseFrame, RequestTaken, Tick, MacInv, MacShape
<1>3. ASSUME NEW off \in TimeOffs, StartSending(off)
      PROVE  GoesOn(mac, mac')
  <2> DEFINE s == [mac EXCEPT !.ackReceived = FALSE]
  <2>1. GoesOn(mac, s)
    BY DEF GoesOn, MacInv, MacShape
  <2>2. mac' = ScheduleTx(s, off)
    BY <1>3 DEF StartSending
  <2> HIDE DEF s
  <2>3. GoesOn(s, mac')
    BY <2>1, <2>2, ScheduleTxGoesOn DEF GoesOn
  <2> QED BY <2>1, <2>3, GoesOnTwice
<1> QED BY <1>1, <1>2, <1>3
-----------------------------------------------------------------------------
(* Class C.                                                                *)

LEMMA ListenOn ==
  ASSUME NEW m \in MacShape
  PROVE  OnRxWindow2(m) \in MacShape /\ OnRxWindow2(m).radio # "IDLE"
<1> DEFINE s == [Disarm(m, "rx2") EXCEPT !.rxSlot = 1]
<1>1. OnRxWindow2(m) \in MacShape
  BY OnRxWindow2Radio DEF Radio
<1>2. s \in MacShape
  <2>1. Disarm(m, "rx2") \in MacShape
    BY CountdownFacts DEF Disarm, MacShape, Timers
  <2> QED BY <2>1 DEF MacShape
<1>3. OnRxWindow2(m) = RxWindowSetup(s, Class = "C")
  BY DEF OnRxWindow2
<1> HIDE DEF s
<1>4. SetRx(s, Class = "C").radio = "RX"
  BY <1>2 DEF SetRx, Arm, MacShape
<1> QED BY <1>1, <1>3, <1>4 DEF RxWindowSetup

LEMMA OnRxWindow1Listens ==
  ASSUME Class = "C", NEW m \in MacShape
  PROVE  OnRxWindow1(m).radio # "IDLE"
<1> DEFINE s == SetStby([Disarm(m, "rx1") EXCEPT !.rxSlot = 0])
<1>1. [Disarm(m, "rx1") EXCEPT !.rxSlot = 0] \in MacShape
  <2>1. Disarm(m, "rx1") \in MacShape
    BY CountdownFacts DEF Disarm, MacShape, Timers
  <2> QED BY <2>1 DEF MacShape
<1>2. s \in MacShape /\ s.radio = "IDLE"
  BY <1>1, SetStbyRadio DEF Radio
<1>3. OnRxWindow1(m) = RxWindowSetup(s, FALSE)
  BY DEF OnRxWindow1
<1> HIDE DEF s
<1>4. SetRx(s, FALSE).radio = "RX"
  BY <1>2 DEF SetRx, Arm, MacShape
<1> QED BY <1>2, <1>3, <1>4 DEF RxWindowSetup

\* The callbacks, whatever state the driver is in when it calls them.
LEMMA CallbacksListen ==
  ASSUME Class = "C", NEW m \in MacShape
  PROVE  /\ \A d \in AckDelays : OnRadioTxDone(m, d).radio # "IDLE"
         /\ OnRadioTxTimeout(m).radio # "IDLE"
         /\ OnRadioRxError(m).radio # "IDLE" /\ OnRadioRxTimeout(m).radio # "IDLE"
<1>1. SleepOrListen(m) \in MacShape /\ SleepOrListen(m).radio # "IDLE"
  BY ListenOn DEF SleepOrListen
<1>2. ASSUME NEW d \in AckDelays
      PROVE  OnRadioTxDone(m, d).radio = SleepOrListen(m).radio
  <2> DEFINE l == SleepOrListen(m)
             s == Arm(l, "rx1", RxDelay1)
             w == IF Class = "C" THEN s ELSE Arm(s, "rx2", RxDelay2)
             a == IF Class = "C" \/ m.nodeAckRequested THEN Arm(w, "ack", d) ELSE w
  <2> HIDE DEF l
  <2>1. s.radio = l.radio /\ DOMAIN s = DOMAIN l
    BY <1>1 DEF l, Arm, MacShape
  <2> HIDE DEF s
  <2>2. a.radio = l.radio /\ DOMAIN a = DOMAIN l
    BY <2>1, <1>1 DEF l, Arm, MacShape
  <2>3. OnRadioTxDone(m, d) = IF m.nodeAckRequested THEN a
                              ELSE [a EXCEPT !.status = "OK",
                                             !.nbRepCounter = AtMost(@ + 1, ChannelsNbRep)]
    BY DEF OnRadioTxDone, l, s
  <2> HIDE DEF a
  <2> QED BY <1>1, <2>2, <2>3 DEF l, MacShape
<1>3. OnRadioTxTimeout(m).radio = SleepOrListen(m).radio
  BY <1>1 DEF OnRadioTxTimeout, MacShape
<1>4. \A n \in MacShape : SecondWindowOver(n).radio = n.radio
  BY DEF SecondWindowOver, MacShape
<1>5. OnRxWindow2(SetStby(m)) \in MacShape /\ OnRxWindow2(SetStby(m)).radio # "IDLE"
  BY SetStbyRadio, ListenOn DEF Radio
<1> QED BY <1>1, <1>2, <1>3, <1>4, <1>5 DEF OnRadioRxError, OnRadioRxTimeout

\* A frame that ends neither in the first window nor, correct, in a continuous
\* reception, is the only one after which the radio is idle.
LEMMA OnRadioRxDoneListens ==
  ASSUME Class = "C", NEW m \in MacShape, NEW frame \in Frames,
         m.rxSlot = 0 \/ (m.radio = "RX" /\ frame \notin {"bad", "repeated"})
  PROVE  OnRadioRxDone(m, frame).radio # "IDLE"
<1> DEFINE s == [Disarm(m, "rx2") EXCEPT !.ackReceived = FALSE]
<1>1. s \in MacShape /\ s.rxSlot = m.rxSlot /\ s.radio = m.radio
  BY CountdownFacts DEF Disarm, MacShape, Timers
<1>2. OnRadioRxDone(m, frame) =
        CASE frame = "bad"      -> PrepareRxDoneAbort(s)
          [] frame = "repeated" -> PrepareRxDoneAbort([s EXCEPT !.status = "OK"])
          [] OTHER              -> CheckAtOnce(ListenAfterWindow1(Accept(s, frame)))
  BY DEF OnRadioRxDone
<1> HIDE DEF s
<1>3. \A n \in MacShape : CheckAtOnce(n).radio = n.radio
  BY DEF CheckAtOnce, Arm, MacShape
<1>4. ASSUME NEW n \in MacShape, n.rxSlot = 0
      PROVE  PrepareRxDoneAbort(n).radio # "IDLE"
  <2> DEFINE r == [n EXCEPT !.txRunning = FALSE]
             b == SetStby(r)
             a == IF n.nodeAckRequested THEN OnAckTimeout(b) ELSE b
             l == ListenAfterWindow1(a)
             i == [l EXCEPT !.mcpsInd = TRUE]
  <2>1. r \in MacShape /\ r.rxSlot = 0
    <3>1. r \in MacShape /\ r.rxSlot = n.rxSlot
      BY DEF MacShape
    <3> QED BY <1>4, <3>1
  <2> HIDE DEF r
  <2>2. b \in MacShape /\ b.rxSlot = 0
    <3>1. b \in MacShape
      BY <2>1, SetStbyRadio DEF Radio
    <3>2. b.rxSlot = r.rxSlot
      BY <2>1 DEF SetStby, MacShape
    <3> QED BY <2>1, <3>1, <3>2
  <2> HIDE DEF b
  <2>3. a \in MacShape /\ a.rxSlot = 0
    <3>1. OnAckTimeout(b) \in MacShape
      BY <2>2, OnAckTimeoutRadio DEF Radio
    <3>2. OnAckTimeout(b).rxSlot = 0
      BY <2>2 DEF OnAckTimeout, Disarm, MacShape
    <3> QED BY <2>2, <3>1, <3>2
  <2> HIDE DEF a
  <2>4. l \in MacShape /\ l.radio # "IDLE"
    BY <2>3, ListenOn DEF ListenAfterWindow1
  <2> HIDE DEF l
  <2>5. i \in MacShape /\ i.radio # "IDLE"
    BY <2>4 DEF MacShape
  <2>6. PrepareRxDoneAbort(n) = CheckAtOnce(i)
    BY DEF PrepareRxDoneAbort, i, l, a, b, r
  <2> HIDE DEF i
  <2> QED BY <1>3, <2>5, <2>6
<1>5. ASSUME m.rxSlot = 0 \/ m.radio = "RX"
      PROVE  CheckAtOnce(ListenAfterWindow1(Accept(s, frame))).radio # "IDLE"
  <2> DEFINE enough == frame = "ack" \/ s.ackRetriesCounter > s.ackRetries
             q == IF enough THEN Disarm(s, "ack") ELSE s
             x == [q EXCEPT !.status = "OK", !.ackReceived = frame = "ack", !.mcpsInd = TRUE]
  <2>1. q \in MacShape /\ q.rxSlot = s.rxSlot /\ q.radio = s.radio
    BY <1>1, CountdownFacts DEF Disarm, MacShape, Timers
  <2> HIDE DEF q
  <2>2. x \in MacShape /\ x.rxSlot = s.rxSlot /\ x.radio = s.radio
    BY ZenonT(60), <2>1 DEF MacShape, Statuses
  <2>3. Accept(s, frame) = x
    BY DEF Accept, x, q
  <2> HIDE DEF x
  <2>4. ListenAfterWindow1(x) \in MacShape /\ ListenAfterWindow1(x).radio # "IDLE"
    BY <1>1, <1>5, <2>2, ListenOn DEF ListenAfterWindow1
  <2> QED BY <1>3, <2>3, <2>4
<1>6. CASE m.rxSlot = 0
  <2>1. [s EXCEPT !.status = "OK"] \in MacShape /\ [s EXCEPT !.status = "OK"].rxSlot = 0
    BY <1>1, <1>6 DEF MacShape, Statuses
  <2> QED BY <1>1, <1>2, <1>4, <1>5, <1>6, <2>1
<1>7. CASE m.radio = "RX" /\ frame \notin {"bad", "repeated"}
  BY <1>2, <1>5, <1>7
<1> QED BY <1>6, <1>7

LEMMA DeafStep ==
  ASSUME Class = "C", MacInv, [Next]_vars, mac.radio # "IDLE", mac'.radio = "IDLE"
  PROVE  /\ mac.rxSlot = 1
         /\ \E frame \in Frames :
              RxDone(frame) /\ (mac.continuous => frame \in {"bad", "repeated"})
<1>1. mac \in MacShape /\ ~GoesOn(mac, mac')
  BY DEF GoesOn, MacInv, MacShape
<1>2. FrameSent(mac) \in MacShape /\ FrameReceived(mac) \in MacShape
      /\ SymbolTimeout(mac) \in MacShape
  BY <1>1, FrameSentRadio, FrameReceivedRadio DEF Radio
<1>3. ~RxError /\ ~RxTimeout /\ \A d \in AckDelays : ~TxDone(d)
  BY <1>2, CallbacksListen DEF TxDone, RxError, RxTimeout
<1>4. ASSUME NEW t \in Timers, Expire(t)
      PROVE  FALSE
  <2> DEFINE m == Disarm(mac, t)
  <2>1. t \in {"rx1", "txTimeout", "rxTimeout"}
    BY <1>1, <1>4, ExpireGoesOn DEF Timers
  <2>2. m \in MacShape /\ m.radio = mac.radio
    BY <1>1, CountdownFacts DEF Disarm, MacShape
  <2>3. mac' = IF t = "rx1" THEN OnRxWindow1(m) ELSE OnTimeoutIrq(m)
    BY <1>4, <2>1 DEF Expire
  <2> HIDE DEF m
  <2>4. CASE t = "rx1"
    BY <2>2, <2>3, <2>4, OnRxWindow1Listens
  <2>5. CASE t # "rx1"
    <3>1. [m EXCEPT !.radio = "IDLE"] \in MacShape
      BY <2>2 DEF MacShape
    <3>2. mac.radio \in {"RX", "TX"}
      BY <1>1 DEF MacShape
    <3> QED BY <2>2, <2>3, <2>5, <3>1, <3>2, CallbacksListen DEF OnTimeoutIrq
  <2> QED BY <2>4, <2>5
<1>5. PICK frame \in Frames : RxDone(frame)
  BY <1>1, <1>3, <1>4, RequestGoesOn DEF Next, vars
<1>6. /\ mac' = OnRadioRxDone(FrameReceived(mac), frame)
      /\ mac.radio = "RX"
  BY <1>5 DEF RxDone
<1>7. /\ FrameReceived(mac).rxSlot = mac.rxSlot
      /\ mac.continuous => FrameReceived(mac).radio = mac.radio
  BY <1>1 DEF FrameReceived, Disarm, MacShape
<1>8. mac.rxSlot # 0 /\ (mac.continuous => frame \in {"bad", "repeated"})
  BY <1>2, <1>6, <1>7, OnRadioRxDoneListens
<1>9. mac.rxSlot = 1
  BY <1>1, <1>8 DEF MacShape
<1> QED BY <1>5, <1>8, <1>9

\* A class C device listens on until it refuses a frame outside the first
\* window, for any limits and delays (see DeafOnlyAfterRefusal for the second
\* way, a frame in a single reception that was reported already).
THEOREM ClassCListensOn ==
  ASSUME Class = "C"
  PROVE  Spec => DeafOnlyAfterRefusal
<1>1. MacInv /\ [Next]_vars =>
        [mac.radio # "IDLE" /\ mac'.radio = "IDLE" =>
           /\ mac.rxSlot = 1
           /\ \E frame \in Frames :
                RxDone(frame) /\ (mac.continuous => frame \in {"bad", "repeated"})]_vars
  BY DeafStep
<1> QED BY <1>1, InvAlways, PTL DEF Spec, DeafOnlyAfterRefusal
=============================================================================
