------------------------------- MODULE LoRaMac -------------------------------
(***************************************************************************)
(* The transmission cycle of mac/LoRaMac.c: a request of the application   *)
(* (LoRaMacMcpsRequest) builds a frame and sends it; the radio driver and  *)
(* the timers call back (OnRadioTxDone, OnRadioRxDone, OnRxWindow1Timer-   *)
(* Event, OnAckTimeoutTimerEvent, ...), and OnMacStateCheckTimerEvent      *)
(* decides whether the frame is repeated, given up or confirmed.           *)
(*                                                                         *)
(* DIO0 and TIM2 have the same interrupt priority, so a handler runs to    *)
(* its end; the request runs in the main loop and is interrupted between   *)
(* its steps, which `caller' counts.                                       *)
(*                                                                         *)
(* Abstracted: the contents of a frame (a received frame is one of the     *)
(* Frames below), channels and powers, MLME requests (the device is        *)
(* activated by personalisation; of MlmeConfirm.Status the cycle reads     *)
(* only whether it is TX_TIMEOUT), and UpLinkCounter, kept as its distance *)
(* from the counter in LoRaMacBuffer, up to MaxAhead.                      *)
(***************************************************************************)
EXTENDS SX1276

CONSTANTS Class,         \* LoRaMacDeviceClass, "A" or "C"
          Types,         \* the requests made, of {"unconfirmed", "confirmed"}
          NbTrials,      \* Req.Confirmed.NbTrials
          ChannelsNbRep, \* transmissions of an unconfirmed frame
          MaxDatarate,   \* ChannelsDatarate starts in 0 .. MaxDatarate
          TimeOffs,      \* results of SetNextChannel: 0, or a duty cycle delay
          Frames,        \* frames heard, of {"data", "ack", "bad", "repeated"}
          Eager,         \* may the application ask again before its confirm?
          CheckPeriod,   \* MAC_STATE_CHECK_TIMEOUT
          RxDelay1, RxDelay2,   \* RxWindow1Delay, RxWindow2Delay
          AckDelays,     \* RxWindow2Delay + ACK_TIMEOUT +- ACK_TIMEOUT_RND
          MaxAhead,      \* bound: how far UpLinkCounter is followed
          MaxTrials      \* bound: how far the transmissions are counted

ASSUME MacAssumption ==
    /\ Class \in {"A", "C"}
    /\ Types \subseteq {"unconfirmed", "confirmed"}
    /\ Frames \subseteq {"data", "ack", "bad", "repeated"}
    /\ Eager \in BOOLEAN
    /\ NbTrials \in Nat \ {0} /\ ChannelsNbRep \in Nat \ {0}
    /\ MaxDatarate \in Nat
    /\ TimeOffs \subseteq Nat /\ 0 \in TimeOffs
    /\ AckDelays \subseteq Nat \ {0}
    /\ CheckPeriod \in Nat \ {0} /\ MaxAhead \in Nat /\ MaxTrials \in Nat
    /\ RxDelay1 \in Nat \ {0} /\ RxDelay2 \in Nat \ {0}

MaxAckRetries == 8       \* MAX_ACK_RETRIES

Timers == {"check", "txDelayed", "rx1", "rx2", "ack", "txTimeout", "rxTimeout"}

VARIABLES mac,           \* the state of the MAC and of the radio
          caller,        \* where LoRaMacMcpsRequest stands in the main loop
          built          \* history of the frame in LoRaMacBuffer: its request,
                         \* was it on the air, acknowledged, its first datarate

vars == <<mac, caller, built>>
-----------------------------------------------------------------------------
(* The handlers, as operators on the state m.                              *)

AtMost(n, limit) == IF n < limit THEN n ELSE limit

\* RxWindowSetup: only an idle radio is set up.
RxWindowSetup(m, continuous) == IF m.radio = "IDLE" THEN SetRx(m, continuous) ELSE m

OnRxWindow2(m) ==
    RxWindowSetup([Disarm(m, "rx2") EXCEPT !.rxSlot = 1], Class = "C")

OnRxWindow1(m) ==
    LET s == [Disarm(m, "rx1") EXCEPT !.rxSlot = 0]
    IN  RxWindowSetup(IF Class = "C" THEN SetStby(s) ELSE s, FALSE)

\* What every radio callback does first: class A sleeps, class C listens.
SleepOrListen(m) == IF Class = "C" THEN OnRxWindow2(m) ELSE SetSleep(m)

\* Mutation: AckTimeoutRetry is not set.
OnAckTimeoutLost(m) == [Disarm(m, "ack") EXCEPT !.macDone = @ \/ Class = "C"]

OnAckTimeout(m) ==
    [Disarm(m, "ack") EXCEPT !.ackTimeoutRetry = @ \/ m.nodeAckRequested,
                             !.macDone = @ \/ Class = "C"]

\* OnRadioTxDone, with d the random delay of AckTimeoutTimer.
OnRadioTxDone(m, d) ==
    LET s == Arm(SleepOrListen(m), "rx1", RxDelay1)
        w == IF Class = "C" THEN s ELSE Arm(s, "rx2", RxDelay2)
        a == IF Class = "C" \/ m.nodeAckRequested THEN Arm(w, "ack", d) ELSE w
    IN  IF m.nodeAckRequested THEN a
        ELSE [a EXCEPT !.status = "OK",
                       !.nbRepCounter = AtMost(@ + 1, ChannelsNbRep)]

OnRadioTxTimeout(m) ==
    [SleepOrListen(m) EXCEPT !.status = "TX_TIMEOUT", !.mlmeTimeout = TRUE,
                             !.macDone = TRUE]

\* OnRadioRxError and OnRadioRxTimeout: the second window ends the cycle.
SecondWindowOver(m) ==
    IF m.rxSlot # 1 THEN m
    ELSE [m EXCEPT !.status = IF m.nodeAckRequested THEN "RX2_FAILED" ELSE @,
                   !.mlmeTimeout = FALSE, !.macDone = TRUE]

OnRadioRxError(m) ==
    SecondWindowOver(IF Class = "C" THEN OnRxWindow2(SetStby(m)) ELSE SetSleep(m))

OnRadioRxTimeout(m) == SecondWindowOver(SleepOrListen(m))

\* MacStateCheckTimer "as soon as possible": 1 ms, before the next second.
CheckAtOnce(m) == Arm([m EXCEPT !.macDone = TRUE], "check", 0)

\* Mutation: the first window is not followed by the continuous one.
SilentAfterWindow1(m) == m

ListenAfterWindow1(m) ==
    IF m.rxSlot = 0 /\ Class = "C" THEN OnRxWindow2(m) ELSE m

\* PrepareRxDoneAbort: a frame for someone else, repeated, or with a bad MIC.
PrepareRxDoneAbort(m) ==
    LET s == SetStby([m EXCEPT !.txRunning = FALSE])
        a == IF m.nodeAckRequested THEN OnAckTimeout(s) ELSE s
    IN  CheckAtOnce([ListenAfterWindow1(a) EXCEPT !.mcpsInd = TRUE])

\* Mutation: the ACK bit stops the timer but is not reported.
AcceptWithoutAck(m, frame) ==
    [(IF frame = "ack" THEN Disarm(m, "ack") ELSE m)
        EXCEPT !.status = "OK", !.mcpsInd = TRUE]

\* A frame with a correct MIC, "ack" if its ACK bit is set.
Accept(m, frame) ==
    LET enough == frame = "ack" \/ m.ackRetriesCounter > m.ackRetries
    IN  [(IF enough THEN Disarm(m, "ack") ELSE m)
            EXCEPT !.status = "OK", !.ackReceived = frame = "ack", !.mcpsInd = TRUE]

\* OnRadioRxDone.
OnRadioRxDone(m, frame) ==
    LET s == [Disarm(IF Class = "C" THEN m ELSE SetSleep(m), "rx2")
                EXCEPT !.ackReceived = FALSE]
    IN  CASE frame = "bad"      -> PrepareRxDoneAbort(s)
          [] frame = "repeated" -> PrepareRxDoneAbort([s EXCEPT !.status = "OK"])
          [] OTHER              -> CheckAtOnce(ListenAfterWindow1(Accept(s, frame)))

SendFrameOnChannel(m) ==
    [SendBuffer(Arm(m, "check", CheckPeriod))
        EXCEPT !.status = "ERROR", !.mlmeTimeout = FALSE, !.txRunning = TRUE,
               !.trials = AtMost(@ + 1, MaxTrials)]

\* ScheduleTx, with off the delay SetNextChannel asks for.
ScheduleTx(m, off) ==
    IF off = 0 THEN SendFrameOnChannel(m)
    ELSE Arm([m EXCEPT !.txDelayed = TRUE], "txDelayed", off)
-----------------------------------------------------------------------------
(* OnMacStateCheckTimerEvent, in the order of its parts.                   *)

CountUp(m) == [m EXCEPT !.upLink = AtMost(@ + 1, MaxAhead)]

TimedOut(m) ==
    m.macDone /\ m.mcpsReq /\ (m.status = "TX_TIMEOUT" \/ m.mlmeTimeout)

StopOnTxTimeout(m) ==
    IF TimedOut(m) THEN [m EXCEPT !.txRunning = FALSE, !.ackReceived = FALSE]
    ELSE m

\* Mutation: each repetition is counted as a frame.
RepeatCounting(m, off) ==
    IF ~m.macDone \/ m.nodeAckRequested \/ TimedOut(m) \/ ~m.mcpsReq THEN m
    ELSE IF m.nbRepCounter >= ChannelsNbRep \/ m.mcpsInd
         THEN CountUp([m EXCEPT !.nbRepCounter = 0, !.txRunning = FALSE])
         ELSE ScheduleTx(CountUp([m EXCEPT !.macDone = FALSE]), off)

\* Mutation: every check repeats, whether the radio has reported or not.
RepeatAtEachCheck(m, off) ==
    IF m.nodeAckRequested \/ TimedOut(m) \/ ~m.mcpsReq THEN m
    ELSE IF m.nbRepCounter >= ChannelsNbRep \/ m.mcpsInd
         THEN CountUp([m EXCEPT !.nbRepCounter = 0, !.txRunning = FALSE])
         ELSE ScheduleTx([m EXCEPT !.macDone = FALSE], off)

\* An unconfirmed frame was sent often enough, or is sent again.
RepeatOrFinish(m, off) ==
    IF ~m.macDone \/ m.nodeAckRequested \/ TimedOut(m) \/ ~m.mcpsReq THEN m
    ELSE IF m.nbRepCounter >= ChannelsNbRep \/ m.mcpsInd
         THEN CountUp([m EXCEPT !.nbRepCounter = 0, !.txRunning = FALSE])
         ELSE ScheduleTx([m EXCEPT !.macDone = FALSE], off)

\* Mutation: a retry that AckTimeoutTimer has asked for survives the end.
FinishKeepsRetry(m) ==
    IF m.mcpsInd /\ (m.ackReceived \/ m.ackRetriesCounter > m.ackRetries)
    THEN CountUp([m EXCEPT !.nodeAckRequested = FALSE, !.txRunning = FALSE])
    ELSE m

\* A frame came in: the acknowledgement, or the retries were used up.
FinishOnIndication(m) ==
    IF m.mcpsInd /\ (m.ackReceived \/ m.ackRetriesCounter > m.ackRetries)
    THEN CountUp([m EXCEPT !.ackTimeoutRetry = FALSE, !.nodeAckRequested = FALSE,
                           !.txRunning = FALSE])
    ELSE m

\* Mutation: one trial too many.
MayRetryOnceMore(m) == m.ackRetriesCounter <= m.ackRetries

MayRetry(m) ==
    m.ackRetriesCounter < m.ackRetries /\ m.ackRetriesCounter <= MaxAckRetries

\* Mutation: the datarate falls at trials 2, 4, 6 and 8.
NextDatarateEarly(m) ==
    IF m.ackRetriesCounter % 2 = 1 /\ m.datarate > 0 THEN m.datarate - 1 ELSE m.datarate

\* The datarate falls at every other trial.
NextDatarate(m) ==
    IF m.ackRetriesCounter % 2 = 0 /\ m.datarate > 0 THEN m.datarate - 1 ELSE m.datarate

\* The acknowledgement did not come: next trial, or give up.
RetryOrGiveUp(m, off) ==
    LET s == [m EXCEPT !.ackTimeoutRetry = FALSE]
    IN  IF ~m.ackTimeoutRetry \/ m.txDelayed THEN m
        ELSE IF MayRetry(m)
             THEN ScheduleTx([s EXCEPT !.ackRetriesCounter = @ + 1,
                                       !.datarate = NextDatarate(m),
                                       !.macDone = FALSE], off)
             ELSE CountUp([s EXCEPT !.txRunning = FALSE, !.nodeAckRequested = FALSE,
                                    !.ackReceived = FALSE])

\* Mutation: MacStateCheckTimer is not restarted.
ConfirmOrForget(m) ==
    IF m.txRunning \/ m.txDelayed THEN m
    ELSE [m EXCEPT !.mcpsReq = FALSE, !.macDone = FALSE]

\* MAC_IDLE: confirm; otherwise look again later.
ConfirmOrWait(m) ==
    IF m.txRunning \/ m.txDelayed THEN Arm(m, "check", CheckPeriod)
    ELSE [m EXCEPT !.mcpsReq = FALSE, !.macDone = FALSE]

\* off[1] and off[2] are the delays of the two calls of ScheduleTx.
OnMacStateCheck(m, off) ==
    LET a == Disarm(m, "check")
        b == RepeatOrFinish(StopOnTxTimeout(a), off[1])
        c == IF m.macDone THEN RetryOrGiveUp(FinishOnIndication(b), off[2]) ELSE b
    IN  [ConfirmOrWait(c) EXCEPT !.mcpsInd = FALSE]
-----------------------------------------------------------------------------
(* LoRaMacMcpsRequest, called from the main loop.                          *)

Out == [step |-> "out", type |-> "none"]

\* The busy check, and the parameters of the request.
Request(type) ==
    /\ caller = Out
    /\ ~mac.txRunning /\ ~mac.txDelayed
    /\ Eager \/ ~mac.mcpsReq
    /\ mac' = [mac EXCEPT
                 !.status = "ERROR", !.ackReceived = FALSE,
                 !.ackRetries = IF type = "confirmed" THEN NbTrials ELSE 1,
                 !.ackRetriesCounter = IF type = "confirmed" THEN 1 ELSE @]
    /\ caller' = [step |-> "checked", type |-> type]
    /\ UNCHANGED built

\* PrepareFrame: the frame takes UpLinkCounter.
PrepareFrame ==
    /\ caller.step = "checked"
    /\ mac' = [mac EXCEPT !.nodeAckRequested = caller.type = "confirmed",
                          !.upLink = 0, !.trials = 0]
    /\ built' = [type |-> caller.type, aired |-> FALSE, acked |-> FALSE,
                 datarate |-> mac.datarate]
    /\ caller' = [caller EXCEPT !.step = "prepared"]

\* PrepareFrame finds the payload too long for the datarate.
RefuseFrame ==
    /\ caller.step = "checked"
    /\ mac' = [mac EXCEPT !.nodeAckRequested = FALSE]
    /\ caller' = Out
    /\ UNCHANGED built

StartSending(off) ==
    /\ caller.step = "prepared"
    /\ mac' = ScheduleTx([mac EXCEPT !.ackReceived = FALSE], off)
    /\ caller' = [caller EXCEPT !.step = "scheduled"]
    /\ UNCHANGED built

RequestTaken ==
    /\ caller.step = "scheduled"
    /\ mac' = [mac EXCEPT !.mcpsReq = TRUE]
    /\ caller' = Out
    /\ UNCHANGED built
-----------------------------------------------------------------------------
(* The interrupts of the radio.                                            *)

\* A frame is on the air for much longer than the millisecond of a check, and
\* than the main loop needs after it has set the radio to transmit.
AirTimePassed ==
    mac.timer["check"] # 0 /\ (caller.step = "scheduled" => mac.txDelayed)

TxDone(d) ==
    /\ mac.radio = "TX" /\ caller = Out
    /\ mac' = OnRadioTxDone(FrameSent(mac), d)
    /\ built' = [built EXCEPT !.aired = TRUE]
    /\ UNCHANGED caller

RxDone(frame) ==
    /\ mac.radio = "RX" /\ AirTimePassed
    /\ mac' = OnRadioRxDone(FrameReceived(mac), frame)
    /\ built' = [built EXCEPT !.acked = @ \/ frame = "ack"]
    /\ UNCHANGED caller

RxError ==
    /\ mac.radio = "RX" /\ AirTimePassed
    /\ mac' = OnRadioRxError(FrameReceived(mac))
    /\ UNCHANGED <<caller, built>>

\* DIO1: no preamble within the symbol time-out of a single reception.
RxTimeout ==
    /\ mac.radio = "RX" /\ ~mac.continuous
    /\ mac' = OnRadioRxTimeout(SymbolTimeout(mac))
    /\ UNCHANGED <<caller, built>>
-----------------------------------------------------------------------------
(* The timers.                                                             *)

\* SX1276OnTimeoutIrq serves both radio timers and looks at the state only.
OnTimeoutIrq(m) ==
    CASE m.radio = "RX"   -> OnRadioRxTimeout(m)
      [] m.radio = "TX"   -> OnRadioTxTimeout([m EXCEPT !.radio = "IDLE"])
      [] m.radio = "IDLE" -> m

OnTxDelayed(m, off) == ScheduleTx([m EXCEPT !.txDelayed = FALSE], off)

Expire(t) ==
    /\ mac.timer[t] = 0
    /\ LET m == Disarm(mac, t)
       IN  \E off1, off2 \in TimeOffs :
               mac' = CASE t = "check"     -> OnMacStateCheck(m, <<off1, off2>>)
                        [] t = "txDelayed" -> OnTxDelayed(m, off1)
                        [] t = "rx1"       -> OnRxWindow1(m)
                        [] t = "rx2"       -> OnRxWindow2(m)
                        [] t = "ack"       -> OnAckTimeout(m)
                        [] OTHER           -> OnTimeoutIrq(m)
    /\ UNCHANGED <<caller, built>>

\* A second passes; what is due comes first, and the main loop needs no second
\* for a request.
Tick ==
    /\ caller = Out
    /\ \A t \in Timers : mac.timer[t] # 0
    /\ \E t \in Timers : mac.timer[t] # Off
    /\ mac' = [mac EXCEPT !.timer = [t \in Timers |-> IF @[t] = Off THEN Off ELSE @[t] - 1]]
    /\ UNCHANGED <<caller, built>>
-----------------------------------------------------------------------------
\* After main( ): LoRaMacSetDeviceClass( CLASS_C ) opens the window, or
\* CLASS_A puts the radio to sleep.
Init ==
    /\ \E d \in 0 .. MaxDatarate :
         /\ mac = SleepOrListen(
              [txRunning |-> FALSE, txDelayed |-> FALSE, macDone |-> FALSE,
               mcpsReq |-> FALSE, mcpsInd |-> FALSE, nodeAckRequested |-> FALSE,
               ackTimeoutRetry |-> FALSE, ackRetriesCounter |-> 1, ackRetries |-> 1,
               nbRepCounter |-> 0, upLink |-> MaxAhead, trials |-> 0, datarate |-> d,
               status |-> "ERROR", mlmeTimeout |-> FALSE, ackReceived |-> FALSE,
               rxSlot |-> 0, radio |-> "IDLE", continuous |-> FALSE,
               timer |-> [t \in Timers |-> Off]])
         /\ built = [type |-> "none", aired |-> FALSE, acked |-> FALSE, datarate |-> d]
    /\ caller = Out

Next ==
    \/ \E type \in Types : Request(type)
    \/ PrepareFrame \/ RefuseFrame \/ RequestTaken
    \/ \E off \in TimeOffs : StartSending(off)
    \/ \E d \in AckDelays : TxDone(d)
    \/ \E frame \in Frames : RxDone(frame)
    \/ RxError \/ RxTimeout
    \/ \E t \in Timers : Expire(t)
    \/ Tick

Spec == Init /\ [][Next]_vars

\* The main loop goes on, a timer that is due fires, time passes, and the duty
\* cycle does not hold a transmission back for ever: the delay of SetNextChannel
\* is the time until a channel may be used.
Fairness ==
    /\ WF_vars(PrepareFrame \/ RefuseFrame \/ RequestTaken
                 \/ \E off \in TimeOffs : StartSending(off))
    /\ \A t \in Timers : WF_vars(Expire(t))
    /\ SF_vars(Expire("txDelayed") /\ ~mac'.txDelayed)
    /\ SF_vars(Tick)

FairSpec == Spec /\ Fairness
-----------------------------------------------------------------------------
\* McpsConfirm.Status; RX2_FAILED is RX2_TIMEOUT or RX2_ERROR.
Statuses == {"ERROR", "OK", "TX_TIMEOUT", "RX2_FAILED"}

Delays == {0, CheckPeriod, TxLimit, RxLimit, RxDelay1, RxDelay2}
            \cup TimeOffs \cup AckDelays

\* A countdown starts from one of the delays.
Countdowns == {Off} \cup UNION {0 .. d : d \in Delays}

\* The states of the MAC and of the radio.
MacShape ==
    [txRunning : BOOLEAN, txDelayed : BOOLEAN, macDone : BOOLEAN,
     mcpsReq : BOOLEAN, mcpsInd : BOOLEAN, nodeAckRequested : BOOLEAN,
     ackTimeoutRetry : BOOLEAN, ackRetriesCounter : 1 .. NbTrials,
     ackRetries : {1, NbTrials}, nbRepCounter : 0 .. ChannelsNbRep,
     upLink : 0 .. MaxAhead, trials : 0 .. MaxTrials,
     datarate : 0 .. MaxDatarate, status : Statuses,
     mlmeTimeout : BOOLEAN, ackReceived : BOOLEAN, rxSlot : 0 .. 1,
     radio : {"IDLE", "RX", "TX"}, continuous : BOOLEAN,
     timer : [Timers -> Countdowns]]

\* The counters of the MAC stay within the limits of their requests.
TypeOK ==
    /\ mac \in MacShape
    /\ caller \in [step : {"out", "checked", "prepared", "scheduled"},
                   type : Types \cup {"none"}]
    /\ built \in [type : Types \cup {"none"}, aired : BOOLEAN, acked : BOOLEAN,
                  datarate : 0 .. MaxDatarate]

\* A cycle that is not over always has a timer that will look at it again:
\* every path through the handlers (OnMacStateCheckTimerEvent restarts its
\* timer unless MAC_IDLE, ScheduleTx starts one of two, PrepareRxDoneAbort
\* clears MAC_TX_RUNNING but restarts the check) leaves one running.
NoStall ==
    /\ mac.txRunning => mac.timer["check"] # Off
    /\ mac.txDelayed => mac.timer["txDelayed"] # Off
    /\ mac.mcpsReq => mac.timer["check"] # Off \/ mac.timer["txDelayed"] # Off
    /\ mac.mcpsInd => mac.timer["check"] # Off

\* A transmission whose end the radio never reports is ended by
\* TxTimeoutTimer: SX1276SetTx starts it, and nothing stops it alone.
TxIsLimited == mac.radio = "TX" => mac.timer["txTimeout"] # Off

\* The MAC implements MacService: a frame is given to the radio NbTrials
\* (confirmed) or ChannelsNbRep times at most, not again once its
\* acknowledgement was received, also when AckTimeoutTimer had already asked
\* for a retry, and only while its request waits for the confirm.
Service == INSTANCE MacService
             WITH Limit <- [t \in Types |-> IF t = "confirmed" THEN NbTrials
                                            ELSE ChannelsNbRep],
                  busy  <- mac.mcpsReq \/ caller.step \in {"prepared", "scheduled"},
                  type  <- built.type,
                  sent  <- mac.trials,
                  acked <- built.acked
ImplementsService == Service!Spec

\* The datarate of each trial of a confirmed frame is the one of the table in
\* LoRaMac.h (McpsReqConfirmed_t): it falls by one at trials 3, 5 and 7.
DatarateOfTrial ==
    [][mac'.trials > mac.trials /\ built.type = "confirmed" =>
         LET lower == built.datarate - (mac'.trials - 1) \div 2
         IN  mac'.datarate = IF lower < 0 THEN 0 ELSE lower]_vars

\* The confirm tells the application whether the frame was acknowledged.
ConfirmTellsAck ==
    [][mac.mcpsReq /\ ~mac'.mcpsReq => (mac'.ackReceived <=> built.acked)]_vars

\* UpLinkCounter moves only when a request is confirmed, and it does move when
\* the frame was on the air: the next frame takes a new value, however the
\* retries ended.  The exception is the branch for a transmission time-out,
\* which confirms a frame without counting it.
CountedOnConfirm ==
    [][/\ mac'.upLink > mac.upLink => mac.mcpsReq /\ ~mac'.mcpsReq
       /\ mac.mcpsReq /\ ~mac'.mcpsReq /\ built.aired /\ ~TimedOut(mac) =>
            mac'.upLink > mac.upLink]_vars

\* A transmission is ended by the radio or by TxTimeoutTimer, not by a window
\* that opens, a repetition or a timer of an earlier reception.
TransmissionRunsOut ==
    [][mac.radio = "TX" =>
         \/ mac'.radio = "TX" /\ mac'.trials <= mac.trials
         \/ \E d \in AckDelays : TxDone(d)
         \/ Expire("txTimeout")]_vars

\* A class C device that has started to listen goes on, through the first
\* window, a repetition, an error or a time-out of any kind, in any order.  Two
\* things leave it in standby: a frame refused by the MIC or the repetition
\* check outside the first window, and a frame that ends a single reception
\* which RxTimeoutTimer has already reported (SX1276OnTimeoutIrq leaves the
\* radio receiving, so OnRxWindow2TimerEvent does not set it up again).
DeafOnlyAfterRefusal ==
    [][mac.radio # "IDLE" /\ mac'.radio = "IDLE" =>
         /\ mac.rxSlot = 1
         /\ \E frame \in Frames : RxDone(frame) /\ (mac.continuous => frame \in {"bad", "repeated"})]_vars

\* Every request is confirmed.
Answered == mac.mcpsReq ~> ~mac.mcpsReq
=============================================================================
