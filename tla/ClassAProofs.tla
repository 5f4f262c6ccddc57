----------------------------- MODULE ClassAProofs -----------------------------
(***************************************************************************)
(* Proofs about a class A device whose application waits for the confirm   *)
(* of a request before the next: the cycle is in one of five phases, and   *)
(* from the phases follows what LoRaMac promises its user.                 *)
(***************************************************************************)
EXTENDS LoRaMacProofs

\* A class A device, an application that asks for its next frame only after
\* the confirm of the last one, and RECEIVE_DELAY2 after RECEIVE_DELAY1
\* (LoRaMac-definitions.h).
PoliteClassA == Class = "A" /\ Eager = FALSE /\ RxDelay1 < RxDelay2

AllOff(m, T) == \A t \in T : m.timer[t] = Off

\* DR of the k-th trial of a confirmed frame that began with datarate d.
Lowered(d, k) == IF d - (k - 1) \div 2 < 0 THEN 0 ELSE d - (k - 1) \div 2

\* The settings of the request that b describes, and its acknowledgement.
Frame(m, b) ==
    /\ b.type \in Types
    /\ m.upLink = 0
    /\ m.nodeAckRequested <=> b.type = "confirmed"
    /\ m.ackReceived <=> b.acked
    /\ b.type = "confirmed" => /\ m.ackRetries = NbTrials
                               /\ m.datarate = Lowered(b.datarate, m.ackRetriesCounter)

\* The transmissions counted before the next one, on the air, and after it.
ToSend(m, b) ==
    /\ m.nbRepCounter < ChannelsNbRep
    /\ b.type = "confirmed" => m.trials = AtMost(m.ackRetriesCounter - 1, MaxTrials)
    /\ b.type # "confirmed" => m.trials <= m.nbRepCounter

OnAir(m, b) ==
    /\ m.nbRepCounter < ChannelsNbRep
    /\ b.type = "confirmed" => m.trials = AtMost(m.ackRetriesCounter, MaxTrials)
    /\ b.type # "confirmed" => m.trials <= m.nbRepCounter + 1

Sent(m, b) ==
    /\ b.type = "confirmed" => /\ m.trials = AtMost(m.ackRetriesCounter, MaxTrials)
                               /\ m.nbRepCounter < ChannelsNbRep
    /\ b.type # "confirmed" => m.trials <= m.nbRepCounter

\* Between two requests.
Quiet(m) ==
    /\ m.radio = "IDLE" /\ ~m.txRunning /\ ~m.txDelayed
    /\ ~m.macDone /\ ~m.mcpsInd /\ ~m.ackTimeoutRetry
    /\ AllOff(m, Timers)
    /\ m.nbRepCounter < ChannelsNbRep

\* The five phases of a request: the frame waits for the duty cycle, is on the
\* air, waits for its windows or in one, was cut off by TxTimeoutTimer, or the
\* windows are over.
Going(m) == ~m.macDone /\ ~m.ackReceived

Delaying(m, b) ==
    /\ Going(m) /\ m.txDelayed /\ m.radio = "IDLE" /\ ~m.ackTimeoutRetry
    /\ AllOff(m, Timers \ {"check", "txDelayed"})
    /\ ToSend(m, b)

Sending(m, b) ==
    /\ Going(m) /\ ~m.txDelayed /\ m.txRunning /\ m.radio = "TX" /\ ~m.ackTimeoutRetry
    /\ AllOff(m, Timers \ {"check", "txTimeout"})
    /\ m.status = "ERROR" /\ ~m.mlmeTimeout
    /\ OnAir(m, b)

\* AckTimeoutTimer runs for confirmed frames only, and asks once.
AskedOnce(m) ==
    /\ m.ackTimeoutRetry => m.nodeAckRequested /\ m.timer["ack"] = Off
    /\ ~m.nodeAckRequested => m.timer["ack"] = Off

Receiving(m, b) ==
    /\ Going(m) /\ ~m.mcpsInd /\ ~m.txDelayed /\ m.txRunning /\ m.radio # "TX"
    /\ AllOff(m, {"txDelayed", "txTimeout"})
    /\ m.status # "TX_TIMEOUT" /\ ~m.mlmeTimeout
    /\ m.timer["rx1"] # Off => /\ m.radio = "IDLE" /\ m.timer["rx2"] # Off
                               /\ m.timer["rx1"] < m.timer["rx2"]
    /\ m.radio = "RX" /\ m.rxSlot = 1 => m.timer["rx2"] = Off
    /\ AskedOnce(m)
    /\ Sent(m, b)

Failed(m, b) ==
    /\ m.macDone /\ m.status = "TX_TIMEOUT"
    /\ m.radio = "IDLE" /\ ~m.txDelayed /\ m.txRunning
    /\ ~m.ackReceived /\ ~m.mcpsInd /\ ~m.ackTimeoutRetry
    /\ AllOff(m, Timers \ {"check"})
    /\ OnAir(m, b)

Ended(m, b) ==
    /\ m.macDone /\ m.status # "TX_TIMEOUT" /\ ~m.mlmeTimeout
    /\ m.radio = "IDLE" /\ ~m.txDelayed
    /\ AllOff(m, Timers \ {"check", "ack"})
    /\ m.ackReceived => m.mcpsInd /\ m.timer["ack"] = Off
    /\ ~m.txRunning => m.mcpsInd
    /\ m.nodeAckRequested /\ ~m.txRunning => m.ackTimeoutRetry
    /\ AskedOnce(m)
    /\ Sent(m, b)

Active(m, b) ==
    /\ Frame(m, b)
    /\ ~m.macDone => ~m.mcpsInd
    /\ Delaying(m, b) \/ Sending(m, b) \/ Receiving(m, b) \/ Failed(m, b) \/ Ended(m, b)

Phases ==
    /\ caller.step # "out" => caller.type \in Types /\ ~mac.mcpsReq
    /\ caller.step = "out" => caller = Out
    /\ mac.mcpsReq => Active(mac, built)
    /\ caller.step = "out" /\ ~mac.mcpsReq => Quiet(mac)
    /\ caller.step = "checked" =>
         /\ Quiet(mac) /\ ~mac.ackReceived
         /\ caller.type = "confirmed" => /\ mac.ackRetries = NbTrials
                                         /\ mac.ackRetriesCounter = 1
    /\ caller.step = "prepared" =>
         /\ Quiet(mac) /\ ~mac.ackReceived
         /\ Frame(mac, built) /\ ToSend(mac, built)
    /\ caller.step = "scheduled" =>
         /\ Frame(mac, built)
         /\ ~mac.mcpsInd
         /\ Delaying(mac, built) \/ Sending(mac, built)
         /\ \A t \in Timers : mac.timer[t] # 0
-----------------------------------------------------------------------------
(* What the primitives of the driver and of the timers leave alone.        *)

SameFrame(m, n) ==
    /\ n.mcpsReq = m.mcpsReq /\ n.nodeAckRequested = m.nodeAckRequested
    /\ n.ackRetriesCounter = m.ackRetriesCounter /\ n.ackRetries = m.ackRetries
    /\ n.datarate = m.datarate /\ n.upLink = m.upLink /\ n.trials = m.trials

SameFlags(m, n) ==
    /\ n.txRunning = m.txRunning /\ n.txDelayed = m.txDelayed
    /\ n.macDone = m.macDone /\ n.mcpsInd = m.mcpsInd
    /\ n.ackTimeoutRetry = m.ackTimeoutRetry

SameResult(m, n) ==
    /\ n.status = m.status /\ n.mlmeTimeout = m.mlmeTimeout
    /\ n.ackReceived = m.ackReceived /\ n.nbRepCounter = m.nbRepCounter

Same(m, n) == n \in MacShape /\ SameFrame(m, n) /\ SameFlags(m, n) /\ SameResult(m, n)

\* From m to n the timers of T stopped, and no other changed.
Stopped(m, n, T) == \A t \in Timers : n.timer[t] = IF t \in T THEN Off ELSE m.timer[t]

\* Timer t was started with v.
Started(m, n, t, v) == \A u \in Timers : n.timer[u] = IF u = t THEN v ELSE m.timer[u]

LEMMA DisarmSame ==
  ASSUME NEW m \in MacShape, NEW t \in Timers
  PROVE  LET n == Disarm(m, t)
         IN  /\ Same(m, n) /\ n.radio = m.radio /\ n.rxSlot = m.rxSlot
             /\ Stopped(m, n, {t})
<1> DEFINE f == [m.timer EXCEPT ![t] = Off]
           n == [m EXCEPT !.timer = f]
<1>1. f \in [Timers -> Countdowns] /\ \A u \in Timers : f[u] = IF u = t THEN Off ELSE m.timer[u]
  BY CountdownFacts DEF MacShape
<1>2. Disarm(m, t) = n
  BY DEF Disarm, MacShape
<1> HIDE DEF f
<1>3. /\ n \in MacShape /\ SameFrame(m, n) /\ SameFlags(m, n) /\ SameResult(m, n)
      /\ n.radio = m.radio /\ n.rxSlot = m.rxSlot /\ n.timer = f
  BY <1>1 DEF MacShape, SameFrame, SameFlags, SameResult
<1> HIDE DEF n
<1> QED BY <1>1, <1>2, <1>3 DEF Same, Stopped

LEMMA ArmSame ==
  ASSUME NEW m \in MacShape, NEW t \in Timers, NEW v \in Delays
  PROVE  LET n == Arm(m, t, v)
         IN  /\ Same(m, n) /\ n.radio = m.radio /\ n.rxSlot = m.rxSlot
             /\ Started(m, n, t, v)
<1> DEFINE f == [m.timer EXCEPT ![t] = v]
           n == [m EXCEPT !.timer = f]
<1>1. f \in [Timers -> Countdowns] /\ \A u \in Timers : f[u] = IF u = t THEN v ELSE m.timer[u]
  BY CountdownFacts DEF MacShape
<1>2. Arm(m, t, v) = n
  BY DEF Arm, MacShape
<1> HIDE DEF f
<1>3. /\ n \in MacShape /\ SameFrame(m, n) /\ SameFlags(m, n) /\ SameResult(m, n)
      /\ n.radio = m.radio /\ n.rxSlot = m.rxSlot /\ n.timer = f
  BY <1>1 DEF MacShape, SameFrame, SameFlags, SameResult
<1> HIDE DEF n
<1> QED BY <1>1, <1>2, <1>3 DEF Same, Started

LEMMA RadioSame ==
  ASSUME NEW m \in MacShape, NEW r \in {"IDLE", "RX", "TX"}
  PROVE  LET n == [m EXCEPT !.radio = r]
         IN  Same(m, n) /\ n.radio = r /\ n.rxSlot = m.rxSlot /\ n.timer = m.timer
BY DEF MacShape, Same, SameFrame, SameFlags, SameResult

LEMMA SlotSame ==
  ASSUME NEW m \in MacShape, NEW r \in 0 .. 1
  PROVE  LET n == [m EXCEPT !.rxSlot = r]
         IN  Same(m, n) /\ n.radio = m.radio /\ n.rxSlot = r /\ n.timer = m.timer
BY DEF MacShape, Same, SameFrame, SameFlags, SameResult

LEMMA SetStbySame ==
  ASSUME NEW m \in MacShape
  PROVE  LET n == SetStby(m)
         IN  /\ Same(m, n) /\ n.radio = "IDLE" /\ n.rxSlot = m.rxSlot
             /\ Stopped(m, n, {"rxTimeout", "txTimeout"})
<1> DEFINE f == [m.timer EXCEPT !["rxTimeout"] = Off, !["txTimeout"] = Off]
           n == [m EXCEPT !.radio = "IDLE", !.timer = f]
<1>1. /\ f \in [Timers -> Countdowns]
      /\ \A u \in Timers : f[u] = IF u \in {"rxTimeout", "txTimeout"} THEN Off ELSE m.timer[u]
  BY CountdownFacts DEF MacShape
<1>2. SetStby(m) = n
  BY DEF SetStby, MacShape, Timers
<1> HIDE DEF f
<1>3. /\ n \in MacShape /\ SameFrame(m, n) /\ SameFlags(m, n) /\ SameResult(m, n)
      /\ n.radio = "IDLE" /\ n.rxSlot = m.rxSlot /\ n.timer = f
  BY <1>1 DEF MacShape, SameFrame, SameFlags, SameResult
<1> HIDE DEF n
<1> QED BY <1>1, <1>2, <1>3 DEF Same, Stopped

LEMMA SameTwice ==
  ASSUME NEW m, NEW n, NEW p, Same(m, n), Same(n, p)
  PROVE  Same(m, p)
BY DEF Same, SameFrame, SameFlags, SameResult
-----------------------------------------------------------------------------
(* The radio callbacks of a class A device.                                *)

LEMMA FrameSentSame ==
  ASSUME NEW m \in MacShape
  PROVE  LET n == FrameSent(m)
         IN  /\ Same(m, n) /\ n.radio = "IDLE" /\ n.rxSlot = m.rxSlot
             /\ Stopped(m, n, {"txTimeout"})
<1> DEFINE d == Disarm(m, "txTimeout")
           n == [d EXCEPT !.radio = "IDLE"]
<1>1. Same(m, d) /\ d.rxSlot = m.rxSlot /\ Stopped(m, d, {"txTimeout"})
  BY DisarmSame DEF Timers
<1> HIDE DEF d
<1>2. Same(d, n) /\ n.radio = "IDLE" /\ n.rxSlot = d.rxSlot /\ n.timer = d.timer
  BY <1>1, RadioSame DEF Same
<1> HIDE DEF n
<1>3. Same(m, n) /\ n.radio = "IDLE" /\ n.rxSlot = m.rxSlot /\ Stopped(m, n, {"txTimeout"})
  BY <1>1, <1>2, SameTwice DEF Stopped
<1> QED BY <1>3 DEF FrameSent, n, d

LEMMA FrameReceivedSame ==
  ASSUME NEW m \in MacShape
  PROVE  \A n \in {FrameReceived(m), SymbolTimeout(m)} :
           Same(m, n) /\ n.rxSlot = m.rxSlot /\ Stopped(m, n, {"rxTimeout"})
<1> DEFINE d == Disarm(m, "rxTimeout")
           r == IF m.continuous THEN d.radio ELSE "IDLE"
<1>1. Same(m, d) /\ d.rxSlot = m.rxSlot /\ Stopped(m, d, {"rxTimeout"})
  BY DisarmSame DEF Timers
<1>2. FrameReceived(m) = [d EXCEPT !.radio = r] /\ SymbolTimeout(m) = [d EXCEPT !.radio = "IDLE"]
  BY <1>1 DEF FrameReceived, SymbolTimeout, Same, MacShape
<1>3. r \in {"IDLE", "RX", "TX"}
  BY <1>1 DEF Same, MacShape
<1> HIDE DEF d, r
<1>4. \A q \in {"IDLE", "RX", "TX"} :
        LET n == [d EXCEPT !.radio = q]
        IN  Same(d, n) /\ n.rxSlot = d.rxSlot /\ n.timer = d.timer
  BY <1>1, RadioSame DEF Same
<1>5. ASSUME NEW q \in {"IDLE", "RX", "TX"}
      PROVE  LET n == [d EXCEPT !.radio = q]
             IN  Same(m, n) /\ n.rxSlot = m.rxSlot /\ Stopped(m, n, {"rxTimeout"})
  <2> DEFINE n == [d EXCEPT !.radio = q]
  <2>1. Same(d, n) /\ n.rxSlot = d.rxSlot /\ n.timer = d.timer
    BY <1>4
  <2> HIDE DEF n
  <2>2. Same(m, n) /\ n.rxSlot = m.rxSlot /\ Stopped(m, n, {"rxTimeout"})
    BY <1>1, <2>1, SameTwice DEF Stopped
  <2> QED BY <2>2 DEF n
<1>6. LET n == FrameReceived(m)
      IN  Same(m, n) /\ n.rxSlot = m.rxSlot /\ Stopped(m, n, {"rxTimeout"})
  BY <1>2, <1>3, <1>5
<1>7. LET n == SymbolTimeout(m)
      IN  Same(m, n) /\ n.rxSlot = m.rxSlot /\ Stopped(m, n, {"rxTimeout"})
  BY <1>2, <1>5
<1> QED BY <1>6, <1>7

\* OnRadioTxDone opens the two windows.
LEMMA TxDoneWindows ==
  ASSUME Class = "A", NEW m \in MacShape, NEW d \in AckDelays
  PROVE  LET n == OnRadioTxDone(m, d)
         IN  /\ n \in MacShape /\ SameFrame(m, n) /\ SameFlags(m, n)
             /\ n.radio = "IDLE" /\ n.ackReceived = m.ackReceived
             /\ n.mlmeTimeout = m.mlmeTimeout
             /\ n.timer["rx1"] = RxDelay1 /\ n.timer["rx2"] = RxDelay2
             /\ n.timer["txTimeout"] = Off /\ n.timer["rxTimeout"] = Off
             /\ n.timer["check"] = m.timer["check"]
             /\ n.timer["txDelayed"] = m.timer["txDelayed"]
             /\ n.timer["ack"] = IF m.nodeAckRequested THEN d ELSE m.timer["ack"]
             /\ m.nodeAckRequested => n.status = m.status /\ n.nbRepCounter = m.nbRepCounter
             /\ ~m.nodeAckRequested => /\ n.status = "OK"
                                       /\ n.nbRepCounter = AtMost(m.nbRepCounter + 1, ChannelsNbRep)
<1> DEFINE l == SetStby(m)
           s == Arm(l, "rx1", RxDelay1)
           w == Arm(s, "rx2", RxDelay2)
           k == Arm(w, "ack", d)
           a == IF m.nodeAckRequested THEN k ELSE w
           c == AtMost(a.nbRepCounter + 1, ChannelsNbRep)
           n == [a EXCEPT !.status = "OK", !.nbRepCounter = c]
<1>1. OnRadioTxDone(m, d) = IF m.nodeAckRequested THEN a ELSE n
  BY DEF OnRadioTxDone, SleepOrListen, SetSleep
<1>2. Same(m, l) /\ l.radio = "IDLE" /\ Stopped(m, l, {"rxTimeout", "txTimeout"})
  BY SetStbySame
<1> HIDE DEF l
<1>3. Same(l, s) /\ s.radio = l.radio /\ Started(l, s, "rx1", RxDelay1)
  BY <1>2, ArmSame, CountdownFacts DEF Same, Timers
<1> HIDE DEF s
<1>4. Same(s, w) /\ w.radio = s.radio /\ Started(s, w, "rx2", RxDelay2)
  BY <1>3, ArmSame, CountdownFacts DEF Same, Timers
<1> HIDE DEF w
<1>5. Same(w, k) /\ k.radio = w.radio /\ Started(w, k, "ack", d)
  BY <1>4, ArmSame, CountdownFacts DEF Same, Timers
<1> HIDE DEF k
<1>6. Same(m, w) /\ Same(m, k)
  BY <1>2, <1>3, <1>4, <1>5, SameTwice
<1>7. Same(m, a) /\ a.radio = "IDLE"
  BY <1>2, <1>3, <1>4, <1>5, <1>6
<1>8. /\ a.timer["rx1"] = RxDelay1 /\ a.timer["rx2"] = RxDelay2
      /\ a.timer["txTimeout"] = Off /\ a.timer["rxTimeout"] = Off
      /\ a.timer["check"] = m.timer["check"]
      /\ a.timer["txDelayed"] = m.timer["txDelayed"]
      /\ a.timer["ack"] = IF m.nodeAckRequested THEN d ELSE m.timer["ack"]
  BY <1>2, <1>3, <1>4, <1>5 DEF Stopped, Started, Timers
<1> HIDE DEF a
<1>9. c \in 0 .. ChannelsNbRep
  BY <1>7, MacAssumption DEF Same, MacShape, AtMost
<1>10. c = AtMost(m.nbRepCounter + 1, ChannelsNbRep)
  BY <1>7 DEF Same, SameResult
<1> HIDE DEF c
<1>11. /\ n \in MacShape /\ SameFrame(a, n) /\ SameFlags(a, n) /\ n.radio = a.radio
       /\ n.ackReceived = a.ackReceived /\ n.mlmeTimeout = a.mlmeTimeout
       /\ n.timer = a.timer /\ n.status = "OK" /\ n.nbRepCounter = c
  BY <1>7, <1>9 DEF Same, MacShape, SameFrame, SameFlags, Statuses
<1> HIDE DEF n
<1>12. SameFrame(m, n) /\ SameFlags(m, n)
  BY <1>7, <1>11 DEF Same, SameFrame, SameFlags
<1> QED BY <1>1, <1>7, <1>8, <1>10, <1>11, <1>12 DEF Same, SameResult

\* SecondWindowOver ends the cycle after the second window only.
LEMMA SecondWindowOverSame ==
  ASSUME NEW m \in MacShape
  PROVE  LET n == SecondWindowOver(m)
         IN  /\ n \in MacShape /\ SameFrame(m, n)
             /\ n.txRunning = m.txRunning /\ n.txDelayed = m.txDelayed
             /\ n.mcpsInd = m.mcpsInd /\ n.ackTimeoutRetry = m.ackTimeoutRetry
             /\ n.ackReceived = m.ackReceived /\ n.nbRepCounter = m.nbRepCounter
             /\ n.radio = m.radio /\ n.rxSlot = m.rxSlot /\ n.timer = m.timer
             /\ n.status \in {m.status, "RX2_FAILED"}
             /\ n.mlmeTimeout \in {m.mlmeTimeout, FALSE}
             /\ n.macDone = (m.macDone \/ m.rxSlot = 1)
<1> DEFINE st == IF m.nodeAckRequested THEN "RX2_FAILED" ELSE m.status
           n == [m EXCEPT !.status = st, !.mlmeTimeout = FALSE, !.macDone = TRUE]
<1>1. st \in Statuses /\ st \in {m.status, "RX2_FAILED"}
  BY DEF MacShape, Statuses
<1>2. SecondWindowOver(m) = IF m.rxSlot # 1 THEN m ELSE n
  BY DEF SecondWindowOver, MacShape
<1> HIDE DEF st
<1>3. /\ n \in MacShape /\ SameFrame(m, n)
      /\ n.txRunning = m.txRunning /\ n.txDelayed = m.txDelayed
      /\ n.mcpsInd = m.mcpsInd /\ n.ackTimeoutRetry = m.ackTimeoutRetry
      /\ n.ackReceived = m.ackReceived /\ n.nbRepCounter = m.nbRepCounter
      /\ n.radio = m.radio /\ n.rxSlot = m.rxSlot /\ n.timer = m.timer
      /\ n.status = st /\ n.mlmeTimeout = FALSE /\ n.macDone = TRUE
  BY <1>1 DEF MacShape, SameFrame
<1> HIDE DEF n
<1>4. m.macDone \in BOOLEAN
  BY DEF MacShape
<1> QED BY <1>1, <1>2, <1>3, <1>4 DEF SameFrame
-----------------------------------------------------------------------------
(* From phase to phase, handler by handler.                                *)

\* The counters of a frame, as numbers.
LEMMA CounterTypes ==
  ASSUME NEW m \in MacShape
  PROVE  /\ m.ackRetriesCounter \in 1 .. NbTrials /\ m.nbRepCounter \in 0 .. ChannelsNbRep
         /\ m.trials \in 0 .. MaxTrials /\ m.upLink \in 0 .. MaxAhead
         /\ m.datarate \in 0 .. MaxDatarate /\ m.ackRetries \in {1, NbTrials}
         /\ m.txRunning \in BOOLEAN /\ m.txDelayed \in BOOLEAN /\ m.macDone \in BOOLEAN
         /\ m.mcpsReq \in BOOLEAN /\ m.mcpsInd \in BOOLEAN /\ m.nodeAckRequested \in BOOLEAN
         /\ m.ackTimeoutRetry \in BOOLEAN /\ m.ackReceived \in BOOLEAN
         /\ m.mlmeTimeout \in BOOLEAN
         /\ \A t \in Timers : m.timer[t] \in Countdowns
BY DEF MacShape

\* Nothing of the frame or of its acknowledgement changed.
LEMMA FrameKept ==
  ASSUME NEW m, NEW n, NEW b, NEW c, Frame(m, b), SameFrame(m, n),
         n.ackReceived <=> c.acked, c.type = b.type, c.datarate = b.datarate
  PROVE  Frame(n, c)
BY DEF Frame, SameFrame

\* The history of a frame that was sent for the first time.
Aired(b) == [b EXCEPT !.aired = TRUE]

\* The radio has sent the frame: its windows are to come.
LEMMA TxDonePhase ==
  ASSUME Class = "A", RxDelay1 < RxDelay2, NEW m \in MacShape, NEW b, NEW c,
         NEW d \in AckDelays, Frame(m, b), Sending(m, b), ~m.mcpsInd,
         c.type = b.type, c.acked = b.acked, c.datarate = b.datarate
  PROVE  LET n == OnRadioTxDone(FrameSent(m), d)
         IN  n \in MacShape /\ SameFrame(m, n) /\ Active(n, c)
<1> DEFINE f == FrameSent(m)
           n == OnRadioTxDone(f, d)
<1>1. /\ Same(m, f) /\ f.radio = "IDLE" /\ Stopped(m, f, {"txTimeout"})
  BY FrameSentSame
<1>2. f \in MacShape
  BY <1>1 DEF Same
<1> HIDE DEF f
<1>3. /\ n \in MacShape /\ SameFrame(f, n) /\ SameFlags(f, n)
      /\ n.radio = "IDLE" /\ n.ackReceived = f.ackReceived
      /\ n.mlmeTimeout = f.mlmeTimeout
      /\ n.timer["rx1"] = RxDelay1 /\ n.timer["rx2"] = RxDelay2
      /\ n.timer["txTimeout"] = Off /\ n.timer["rxTimeout"] = Off
      /\ n.timer["check"] = f.timer["check"]
      /\ n.timer["txDelayed"] = f.timer["txDelayed"]
      /\ n.timer["ack"] = IF f.nodeAckRequested THEN d ELSE f.timer["ack"]
      /\ f.nodeAckRequested => n.status = f.status /\ n.nbRepCounter = f.nbRepCounter
      /\ ~f.nodeAckRequested => /\ n.status = "OK"
                                /\ n.nbRepCounter = AtMost(f.nbRepCounter + 1, ChannelsNbRep)
  BY <1>2, TxDoneWindows
<1> HIDE DEF n
<1>4. SameFrame(m, n) /\ Frame(n, c)
  <2>1. SameFrame(m, n)
    BY <1>1, <1>3 DEF Same, SameFrame
  <2>2. n.ackReceived <=> c.acked
    BY <1>1, <1>3 DEF Same, SameResult, Frame
  <2> QED BY <2>1, <2>2, FrameKept
<1>5. Sent(n, c)
  <2>1. n.nodeAckRequested = f.nodeAckRequested /\ n.trials = m.trials
        /\ n.ackRetriesCounter = m.ackRetriesCounter /\ f.nbRepCounter = m.nbRepCounter
    BY <1>1, <1>3, <1>4 DEF Same, SameFrame, SameResult
  <2>2. n.nodeAckRequested <=> c.type = "confirmed"
    BY <1>4 DEF Frame
  <2>3. OnAir(m, b)
    BY DEF Sending
  <2>4. m.nbRepCounter \in Nat /\ m.trials \in Nat /\ ChannelsNbRep \in Nat
    BY CounterTypes, MacAssumption
  <2>5. m.nbRepCounter < ChannelsNbRep => AtMost(m.nbRepCounter + 1, ChannelsNbRep) = m.nbRepCounter + 1
    BY <2>4 DEF AtMost
  <2> QED BY <1>3, <2>1, <2>2, <2>3, <2>5 DEF OnAir, Sent
<1>6. Going(n) /\ ~n.mcpsInd /\ ~n.txDelayed /\ n.txRunning /\ ~n.ackTimeoutRetry
  BY <1>1, <1>3 DEF Same, SameFlags, SameResult, Sending, Going
<1>7. n.timer["txDelayed"] = Off /\ (~n.nodeAckRequested => n.timer["ack"] = Off)
  <2>1. m.timer["txDelayed"] = Off /\ m.timer["ack"] = Off
    BY DEF Sending, AllOff, Timers
  <2>2. f.timer["txDelayed"] = Off /\ f.timer["ack"] = Off
    BY <1>1, <2>1 DEF Stopped, Timers
  <2> QED BY <1>3, <2>2 DEF SameFrame
<1>8. n.status # "TX_TIMEOUT" /\ ~n.mlmeTimeout
  BY <1>1, <1>3 DEF Same, SameResult, Sending
<1>9. RxDelay2 # Off
  BY MacAssumption DEF Off
<1>10. Receiving(n, c)
  BY <1>3, <1>5, <1>6, <1>7, <1>8, <1>9 DEF Receiving, AllOff, AskedOnce
<1> QED BY <1>3, <1>4, <1>6, <1>10 DEF Active, n, f

\* TxTimeoutTimer cuts the frame off.
LEMMA TxTimeoutPhase ==
  ASSUME Class = "A", NEW m \in MacShape, NEW b, Frame(m, b), Sending(m, b),
         ~m.mcpsInd
  PROVE  LET n == OnTimeoutIrq(Disarm(m, "txTimeout"))
         IN  n \in MacShape /\ SameFrame(m, n) /\ Active(n, b)
<1> DEFINE d == Disarm(m, "txTimeout")
           i == [d EXCEPT !.radio = "IDLE"]
           s == SetStby(i)
           n == [s EXCEPT !.status = "TX_TIMEOUT", !.mlmeTimeout = TRUE, !.macDone = TRUE]
<1>1. Same(m, d) /\ d.radio = m.radio /\ Stopped(m, d, {"txTimeout"})
  BY DisarmSame DEF Timers
<1>2. OnTimeoutIrq(d) = n
  BY <1>1 DEF OnTimeoutIrq, OnRadioTxTimeout, SleepOrListen, SetSleep, Sending
<1> HIDE DEF d
<1>3. Same(d, i) /\ i.timer = d.timer
  BY <1>1, RadioSame DEF Same
<1> HIDE DEF i
<1>4. Same(i, s) /\ s.radio = "IDLE" /\ Stopped(i, s, {"rxTimeout", "txTimeout"})
  BY <1>3, SetStbySame DEF Same
<1> HIDE DEF s
<1>5. /\ n \in MacShape /\ SameFrame(s, n)
      /\ n.txRunning = s.txRunning /\ n.txDelayed = s.txDelayed
      /\ n.mcpsInd = s.mcpsInd /\ n.ackTimeoutRetry = s.ackTimeoutRetry
      /\ n.ackReceived = s.ackReceived /\ n.nbRepCounter = s.nbRepCounter
      /\ n.radio = s.radio /\ n.timer = s.timer /\ n.macDone /\ n.status = "TX_TIMEOUT"
  BY <1>4 DEF Same, MacShape, SameFrame, Statuses
<1> HIDE DEF n
<1>6. Same(m, s)
  BY <1>1, <1>3, <1>4, SameTwice
<1>7. SameFrame(m, n) /\ n.ackReceived = m.ackReceived /\ n.nbRepCounter = m.nbRepCounter
  BY <1>5, <1>6 DEF Same, SameFrame, SameResult
<1>8. Frame(n, b)
  BY <1>7, FrameKept DEF Frame
<1>9. AllOff(n, Timers \ {"check"})
  BY <1>1, <1>3, <1>4, <1>5 DEF Sending, AllOff, Stopped
<1>10. OnAir(n, b)
  BY <1>7 DEF Sending, OnAir, SameFrame
<1>11. Failed(n, b)
  BY <1>4, <1>5, <1>6, <1>9, <1>10 DEF Failed, Sending, Going, Same, SameFlags, SameResult
<1> QED BY <1>2, <1>5, <1>7, <1>8, <1>11 DEF Active, Failed, d

\* In a window the first one is open already.
LEMMA InWindow ==
  ASSUME NEW m \in MacShape, NEW b, Receiving(m, b), m.radio = "RX"
  PROVE  m.timer["rx1"] = Off
BY DEF Receiving

\* A window closes: after the second one the request can be confirmed.
LEMMA WindowOver ==
  ASSUME NEW m \in MacShape, NEW b, Frame(m, b), Receiving(m, b), m.radio = "RX",
         NEW s, Same(m, s), s.rxSlot = m.rxSlot, s.radio = "IDLE",
         Stopped(m, s, {"rxTimeout", "txTimeout"})
  PROVE  LET n == SecondWindowOver(s)
         IN  n \in MacShape /\ SameFrame(m, n) /\ Active(n, b)
<1> DEFINE n == SecondWindowOver(s)
<1>1. /\ n \in MacShape /\ SameFrame(s, n)
      /\ n.txRunning = s.txRunning /\ n.txDelayed = s.txDelayed
      /\ n.mcpsInd = s.mcpsInd /\ n.ackTimeoutRetry = s.ackTimeoutRetry
      /\ n.ackReceived = s.ackReceived /\ n.nbRepCounter = s.nbRepCounter
      /\ n.radio = s.radio /\ n.rxSlot = s.rxSlot /\ n.timer = s.timer
      /\ n.status \in {s.status, "RX2_FAILED"}
      /\ n.mlmeTimeout \in {s.mlmeTimeout, FALSE}
      /\ n.macDone = (s.macDone \/ s.rxSlot = 1)
  BY SecondWindowOverSame DEF Same
<1> HIDE DEF n
<1>2. SameFrame(m, n) /\ Frame(n, b)
  <2>1. SameFrame(m, n)
    BY <1>1 DEF Same, SameFrame
  <2>2. n.ackReceived <=> b.acked
    BY <1>1 DEF Same, SameResult, Frame
  <2> QED BY <2>1, <2>2, FrameKept
<1>3. Sent(n, b)
  BY <1>1, <1>2 DEF Receiving, Sent, SameFrame, Same, SameResult
<1>4. /\ n.txRunning /\ ~n.txDelayed /\ ~n.mcpsInd /\ ~n.ackReceived
      /\ n.status # "TX_TIMEOUT" /\ ~n.mlmeTimeout /\ n.radio = "IDLE"
      /\ n.nodeAckRequested = m.nodeAckRequested
      /\ n.ackTimeoutRetry = m.ackTimeoutRetry
  BY <1>1, <1>2 DEF Receiving, Going, SameFrame, Same, SameFlags, SameResult
<1>5. /\ n.timer["rx1"] = Off /\ n.timer["txDelayed"] = Off
      /\ n.timer["txTimeout"] = Off /\ n.timer["rxTimeout"] = Off
      /\ n.timer["ack"] = m.timer["ack"] /\ n.timer["rx2"] = m.timer["rx2"]
  BY <1>1, InWindow DEF Receiving, AllOff, Stopped, Timers
<1>6. AskedOnce(n)
  BY <1>4, <1>5 DEF Receiving, AskedOnce
<1>7. CASE m.rxSlot = 1
  <2>1. n.timer["rx2"] = Off
    BY <1>5, <1>7 DEF Receiving
  <2>2. AllOff(n, Timers \ {"check", "ack"})
    BY <1>5, <2>1 DEF AllOff, Timers
  <2>3. Ended(n, b)
    BY <1>1, <1>3, <1>4, <1>6, <1>7, <2>2 DEF Ended
  <2> QED BY <1>1, <1>2, <1>4, <2>3 DEF Active, n
<1>8. CASE m.rxSlot # 1
  <2>1. ~n.macDone
    BY <1>1, <1>8 DEF Receiving, Going, Same, SameFlags
  <2>2. Receiving(n, b)
    BY <1>3, <1>4, <1>5, <1>6, <2>1 DEF Receiving, Going, AllOff
  <2> QED BY <1>1, <1>2, <1>4, <2>2 DEF Active, n
<1> QED BY <1>7, <1>8

\* RxError, RxTimeout, and RxTimeoutTimer in a window.
LEMMA RxErrorPhase ==
  ASSUME Class = "A", NEW m \in MacShape, NEW b, Frame(m, b), Receiving(m, b),
         m.radio = "RX"
  PROVE  \A n \in {OnRadioRxError(FrameReceived(m)), OnRadioRxTimeout(SymbolTimeout(m)),
                   OnTimeoutIrq(Disarm(m, "rxTimeout"))} :
           n \in MacShape /\ SameFrame(m, n) /\ Active(n, b)
<1> DEFINE Over(s) == SecondWindowOver(SetStby(s))
           t == Disarm(m, "rxTimeout")
<1>1. Same(m, t) /\ t.radio = m.radio /\ t.rxSlot = m.rxSlot /\ Stopped(m, t, {"rxTimeout"})
  BY DisarmSame DEF Timers
<1>2. /\ OnRadioRxError(FrameReceived(m)) = Over(FrameReceived(m))
      /\ OnRadioRxTimeout(SymbolTimeout(m)) = Over(SymbolTimeout(m))
  BY DEF OnRadioRxError, OnRadioRxTimeout, SleepOrListen, SetSleep
<1>3. OnTimeoutIrq(t) = Over(t)
  BY <1>1 DEF OnTimeoutIrq, OnRadioRxTimeout, SleepOrListen, SetSleep
<1>4. ASSUME NEW s, Same(m, s), s.rxSlot = m.rxSlot, Stopped(m, s, {"rxTimeout"})
      PROVE  Over(s) \in MacShape /\ SameFrame(m, Over(s)) /\ Active(Over(s), b)
  <2> DEFINE p == SetStby(s)
  <2>1. /\ Same(s, p) /\ p.radio = "IDLE" /\ p.rxSlot = s.rxSlot
        /\ Stopped(s, p, {"rxTimeout", "txTimeout"})
    BY <1>4, SetStbySame DEF Same
  <2> HIDE DEF p
  <2>2. Same(m, p)
    BY <1>4, <2>1, SameTwice
  <2>3. Stopped(m, p, {"rxTimeout", "txTimeout"})
    BY <1>4, <2>1 DEF Stopped
  <2>4. LET n == SecondWindowOver(p)
        IN  n \in MacShape /\ SameFrame(m, n) /\ Active(n, b)
    BY <1>4, <2>1, <2>2, <2>3, WindowOver
  <2> QED BY <2>4 DEF p
<1> HIDE DEF Over, t
<1>5. \A s \in {FrameReceived(m), SymbolTimeout(m), t} :
        Over(s) \in MacShape /\ SameFrame(m, Over(s)) /\ Active(Over(s), b)
  BY <1>1, <1>4, FrameReceivedSame
<1> QED BY <1>2, <1>3, <1>5 DEF t

\* A phase of listening, kept when only the windows change.
LEMMA StillReceiving ==
  ASSUME NEW m \in MacShape, NEW b, Frame(m, b), Receiving(m, b),
         NEW n, Same(m, n), n.radio # "TX", AllOff(n, {"rx1", "txDelayed", "txTimeout"}),
         n.timer["ack"] = m.timer["ack"],
         n.radio = "RX" /\ n.rxSlot = 1 => n.timer["rx2"] = Off
  PROVE  n \in MacShape /\ SameFrame(m, n) /\ Active(n, b)
<1>1. Frame(n, b)
  BY FrameKept DEF Same, SameResult, Frame
<1>2. Receiving(n, b)
  BY DEF Receiving, Same, SameFrame, SameFlags, SameResult, Going, AskedOnce, Sent, AllOff
<1> QED BY <1>1, <1>2 DEF Active, Receiving, Same

\* SetRx for a single reception.
LEMMA SetRxSame ==
  ASSUME NEW m \in MacShape
  PROVE  LET n == SetRx(m, FALSE)
         IN  /\ Same(m, n) /\ n.radio = "RX" /\ n.rxSlot = m.rxSlot
             /\ Started(m, n, "rxTimeout", RxLimit)
<1> DEFINE s == [m EXCEPT !.radio = "RX", !.continuous = FALSE]
           n == Arm(s, "rxTimeout", RxLimit)
<1>1. Same(m, s) /\ s.radio = "RX" /\ s.rxSlot = m.rxSlot /\ s.timer = m.timer
  BY DEF MacShape, Same, SameFrame, SameFlags, SameResult
<1> HIDE DEF s
<1>2. Same(s, n) /\ n.radio = s.radio /\ n.rxSlot = s.rxSlot
      /\ Started(s, n, "rxTimeout", RxLimit)
  BY <1>1, ArmSame, CountdownFacts DEF Same, Timers
<1> HIDE DEF n
<1>3. Same(m, n) /\ n.radio = "RX" /\ n.rxSlot = m.rxSlot /\ Started(m, n, "rxTimeout", RxLimit)
  BY <1>1, <1>2, SameTwice DEF Started
<1>4. SetRx(m, FALSE) = n
  BY DEF SetRx, n, s
<1> QED BY <1>3, <1>4

\* A window opens, or not if the radio still receives.
LEMMA WindowOpens ==
  ASSUME Class = "A", NEW m \in MacShape, NEW b, Frame(m, b), Receiving(m, b),
         NEW t \in {"rx1", "rx2"}, m.timer[t] = 0
  PROVE  LET s == Disarm(m, t)
             n == IF t = "rx1" THEN OnRxWindow1(s) ELSE OnRxWindow2(s)
         IN  n \in MacShape /\ SameFrame(m, n) /\ Active(n, b)
<1> DEFINE s == Disarm(m, t)
           a == Disarm(s, t)
           k == IF t = "rx1" THEN 0 ELSE 1
           w == [a EXCEPT !.rxSlot = k]
           x == SetRx(w, FALSE)
           n == RxWindowSetup(w, FALSE)
<1>1. Same(m, s) /\ s.radio = m.radio /\ Stopped(m, s, {t})
  BY DisarmSame DEF Timers
<1>2. (IF t = "rx1" THEN OnRxWindow1(s) ELSE OnRxWindow2(s)) = n
  BY DEF OnRxWindow1, OnRxWindow2
<1>3. n = IF w.radio = "IDLE" THEN x ELSE w
  BY DEF RxWindowSetup
<1> HIDE DEF s
<1>4. Same(s, a) /\ a.radio = s.radio /\ Stopped(s, a, {t})
  BY ZenonT(60), <1>1, DisarmSame DEF Same, Timers
<1> HIDE DEF a
<1>5. k \in 0 .. 1
  OBVIOUS
<1> HIDE DEF k
<1>6. Same(a, w) /\ w.radio = a.radio /\ w.rxSlot = k /\ w.timer = a.timer
  BY <1>4, <1>5, SlotSame DEF Same
<1> HIDE DEF w
<1>7. Same(w, x) /\ x.radio = "RX" /\ x.rxSlot = w.rxSlot
      /\ Started(w, x, "rxTimeout", RxLimit)
  BY <1>6, SetRxSame DEF Same
<1> HIDE DEF x, n
<1>8. Same(m, w) /\ Same(m, x)
  BY <1>1, <1>4, <1>6, <1>7, SameTwice
<1>9. Same(m, n) /\ n.radio # "TX" /\ n.rxSlot = k
  BY <1>1, <1>3, <1>4, <1>6, <1>7, <1>8 DEF Receiving
<1>10. /\ n.timer["rx1"] = IF t = "rx1" THEN Off ELSE m.timer["rx1"]
       /\ n.timer["rx2"] = IF t = "rx2" THEN Off ELSE m.timer["rx2"]
       /\ n.timer["txDelayed"] = Off /\ n.timer["txTimeout"] = Off
       /\ n.timer["ack"] = m.timer["ack"]
  BY <1>1, <1>3, <1>4, <1>6, <1>7 DEF Receiving, AllOff, Stopped, Started, Timers
<1>11. n.timer["rx1"] = Off
  <2>1. m.timer["rx1"] \in Nat \cup {Off} /\ 0 # Off
    <3>1. m.timer["rx1"] \in Countdowns /\ Countdowns \subseteq Nat \cup {Off}
      BY CountdownFacts DEF MacShape, Timers
    <3>2. 0 # Off
      BY DEF Off
    <3> QED BY <3>1, <3>2
  <2>2. CASE t = "rx2" /\ m.timer["rx1"] # Off
    <3>1. m.timer["rx1"] < 0
      BY <2>2 DEF Receiving
    <3> QED BY <2>1, <2>2, <3>1
  <2> QED BY <1>10, <2>2
<1>12. n.rxSlot = 1 => n.timer["rx2"] = Off
  BY <1>9, <1>10 DEF k
<1>13. AllOff(n, {"rx1", "txDelayed", "txTimeout"})
  BY <1>10, <1>11 DEF AllOff
<1> QED BY <1>2, <1>9, <1>10, <1>12, <1>13, StillReceiving DEF s

\* RxTimeoutTimer outside a window, or in one.
LEMMA RxTimeoutPhase ==
  ASSUME Class = "A", NEW m \in MacShape, NEW b, Frame(m, b), Receiving(m, b)
  PROVE  LET n == OnTimeoutIrq(Disarm(m, "rxTimeout"))
         IN  n \in MacShape /\ SameFrame(m, n) /\ Active(n, b)
<1>1. CASE m.radio = "RX"
  BY <1>1, RxErrorPhase
<1>2. CASE m.radio = "IDLE"
  <2> DEFINE n == Disarm(m, "rxTimeout")
  <2>1. Same(m, n) /\ n.radio = m.radio /\ n.rxSlot = m.rxSlot /\ Stopped(m, n, {"rxTimeout"})
    BY DisarmSame DEF Timers
  <2>2. OnTimeoutIrq(n) = n
    BY <1>2, <2>1 DEF OnTimeoutIrq
  <2> HIDE DEF n
  <2>3. /\ n.timer["rx1"] = m.timer["rx1"] /\ n.timer["rx2"] = m.timer["rx2"]
        /\ n.timer["ack"] = m.timer["ack"] /\ AllOff(n, {"txDelayed", "txTimeout"})
    BY <2>1 DEF Stopped, Timers, AllOff, Receiving
  <2>4. Frame(n, b)
    BY <2>1, FrameKept DEF Same, SameResult, Frame
  <2>5. Receiving(n, b)
    BY <2>1, <2>3 DEF Receiving, Same, SameFrame, SameFlags, SameResult, Going, AskedOnce, Sent
  <2>6. n \in MacShape /\ SameFrame(m, n) /\ Active(n, b)
    BY <2>1, <2>4, <2>5 DEF Active, Receiving, Same
  <2> QED BY <2>2, <2>6 DEF n
<1> QED BY <1>1, <1>2 DEF Receiving, MacShape

\* What OnAckTimeoutTimerEvent does to a confirmed frame.
LEMMA OnAckTimeoutA ==
  ASSUME Class = "A", NEW m \in MacShape
  PROVE  LET n == OnAckTimeout(m)
         IN  /\ n \in MacShape /\ SameFrame(m, n) /\ SameResult(m, n)
             /\ n.txRunning = m.txRunning /\ n.txDelayed = m.txDelayed
             /\ n.macDone = m.macDone /\ n.mcpsInd = m.mcpsInd
             /\ n.ackTimeoutRetry = (m.ackTimeoutRetry \/ m.nodeAckRequested)
             /\ n.radio = m.radio /\ n.rxSlot = m.rxSlot
             /\ Stopped(m, n, {"ack"})
<1> DEFINE d == Disarm(m, "ack")
           r == d.ackTimeoutRetry \/ m.nodeAckRequested
           n == [d EXCEPT !.ackTimeoutRetry = r]
<1>1. Same(m, d) /\ d.radio = m.radio /\ d.rxSlot = m.rxSlot /\ Stopped(m, d, {"ack"})
  BY DisarmSame DEF Timers
<1>2. OnAckTimeout(m) = [d EXCEPT !.ackTimeoutRetry = r, !.macDone = d.macDone \/ FALSE]
  BY <1>1 DEF OnAckTimeout, Same, MacShape
<1>3. (d.macDone \/ FALSE) = d.macDone /\ r \in BOOLEAN
  BY <1>1 DEF Same, MacShape
<1> HIDE DEF d, r
<1>4. [d EXCEPT !.ackTimeoutRetry = r, !.macDone = d.macDone] = n
  BY <1>1 DEF Same, MacShape
<1>5. /\ n \in MacShape /\ SameFrame(d, n) /\ SameResult(d, n)
      /\ n.txRunning = d.txRunning /\ n.txDelayed = d.txDelayed
      /\ n.macDone = d.macDone /\ n.mcpsInd = d.mcpsInd
      /\ n.ackTimeoutRetry = r /\ n.radio = d.radio /\ n.rxSlot = d.rxSlot
      /\ n.timer = d.timer
  BY <1>1, <1>3 DEF Same, MacShape, SameFrame, SameResult
<1>6. OnAckTimeout(m) = n
  BY <1>2, <1>3, <1>4, Zenon
<1> HIDE DEF n
<1>7. r = (m.ackTimeoutRetry \/ m.nodeAckRequested)
  BY <1>1 DEF r, Same, SameFlags
<1>8. SameFrame(m, n) /\ SameResult(m, n) /\ Stopped(m, n, {"ack"})
  BY <1>1, <1>5 DEF Same, SameFrame, SameResult, Stopped
<1> QED BY <1>1, <1>5, <1>6, <1>7, <1>8 DEF Same, SameFlags

\* AckTimeoutTimer asks for a retry, before the windows are over or after.
LEMMA AckTimeoutPhase ==
  ASSUME Class = "A", NEW m \in MacShape, NEW b, Frame(m, b),
         Receiving(m, b) \/ Ended(m, b), m.timer["ack"] = 0
  PROVE  LET n == OnAckTimeout(Disarm(m, "ack"))
         IN  n \in MacShape /\ SameFrame(m, n) /\ Active(n, b)
<1> DEFINE d == Disarm(m, "ack")
           n == OnAckTimeout(d)
<1>1. Same(m, d) /\ d.radio = m.radio /\ d.rxSlot = m.rxSlot /\ Stopped(m, d, {"ack"})
  BY DisarmSame DEF Timers
<1> HIDE DEF d
<1>2. /\ n \in MacShape /\ SameFrame(d, n) /\ SameResult(d, n)
      /\ n.txRunning = d.txRunning /\ n.txDelayed = d.txDelayed
      /\ n.macDone = d.macDone /\ n.mcpsInd = d.mcpsInd
      /\ n.ackTimeoutRetry = (d.ackTimeoutRetry \/ d.nodeAckRequested)
      /\ n.radio = d.radio /\ n.rxSlot = d.rxSlot /\ Stopped(d, n, {"ack"})
  BY <1>1, OnAckTimeoutA DEF Same
<1> HIDE DEF n
<1>3. SameFrame(m, n) /\ SameResult(m, n) /\ Stopped(m, n, {"ack"})
  BY <1>1, <1>2 DEF Same, SameFrame, SameResult, Stopped
<1>4. Frame(n, b)
  BY <1>3, FrameKept DEF SameResult, Frame
<1>5. m.timer["ack"] # Off /\ n.timer["ack"] = Off
  BY <1>3 DEF Stopped, Timers, Off
<1>6. m.nodeAckRequested /\ n.nodeAckRequested /\ AskedOnce(n)
  BY <1>3, <1>5 DEF Receiving, Ended, AskedOnce, SameFrame
<1>7. \A t \in Timers \ {"ack"} : n.timer[t] = m.timer[t]
  BY <1>3 DEF Stopped
<1>8. CASE Receiving(m, b)
  <2>1. Sent(n, b)
    BY <1>3, <1>8 DEF Receiving, Sent, SameFrame, SameResult
  <2>2. /\ n.timer["rx1"] = m.timer["rx1"] /\ n.timer["rx2"] = m.timer["rx2"]
        /\ AllOff(n, {"txDelayed", "txTimeout"})
    BY <1>7, <1>8 DEF Receiving, AllOff, Timers
  <2>3. Receiving(n, b)
    BY <1>1, <1>2, <1>3, <1>6, <1>8, <2>1, <2>2
       DEF Receiving, Going, Same, SameFlags, SameResult
  <2> QED BY <1>2, <1>3, <1>4, <2>3 DEF Active, Receiving, n, d
<1>9. CASE Ended(m, b)
  <2>1. Sent(n, b)
    BY <1>3, <1>9 DEF Ended, Sent, SameFrame, SameResult
  <2>2. AllOff(n, Timers \ {"check", "ack"})
    BY <1>7, <1>9 DEF Ended, AllOff
  <2>3. ~n.ackReceived /\ n.ackTimeoutRetry
    BY <1>1, <1>2, <1>3, <1>5, <1>6, <1>9 DEF Ended, SameResult, Same, SameFrame
  <2>4. Ended(n, b)
    BY <1>1, <1>2, <1>3, <1>6, <1>9, <2>1, <2>2, <2>3
       DEF Ended, Same, SameFlags, SameResult
  <2> QED BY <1>2, <1>3, <1>4, <2>4 DEF Active, Ended, n, d
<1> QED BY <1>8, <1>9

\* CheckAtOnce: the cycle is over, and the check comes first.
LEMMA CheckAtOnceSame ==
  ASSUME NEW m \in MacShape
  PROVE  LET n == CheckAtOnce(m)
         IN  /\ n \in MacShape /\ SameFrame(m, n) /\ SameResult(m, n)
             /\ n.txRunning = m.txRunning /\ n.txDelayed = m.txDelayed
             /\ n.macDone /\ n.mcpsInd = m.mcpsInd
             /\ n.ackTimeoutRetry = m.ackTimeoutRetry
             /\ n.radio = m.radio /\ Started(m, n, "check", 0)
<1> DEFINE d == [m EXCEPT !.macDone = TRUE]
           n == Arm(d, "check", 0)
<1>1. /\ d \in MacShape /\ SameFrame(m, d) /\ SameResult(m, d)
      /\ d.txRunning = m.txRunning /\ d.txDelayed = m.txDelayed
      /\ d.macDone /\ d.mcpsInd = m.mcpsInd /\ d.ackTimeoutRetry = m.ackTimeoutRetry
      /\ d.radio = m.radio /\ d.timer = m.timer
  BY DEF MacShape, SameFrame, SameResult
<1>2. CheckAtOnce(m) = n
  BY DEF CheckAtOnce
<1> HIDE DEF d
<1>3. Same(d, n) /\ n.radio = d.radio /\ Started(d, n, "check", 0)
  BY <1>1, ArmSame, CountdownFacts DEF Timers
<1> HIDE DEF n
<1>4. SameFrame(m, n) /\ SameResult(m, n) /\ Started(m, n, "check", 0)
  BY <1>1, <1>3 DEF Same, SameFrame, SameResult, Started
<1> QED BY <1>1, <1>2, <1>3, <1>4 DEF Same, SameFlags

\* What PrepareRxDoneAbort does in class A.
LEMMA AbortSame ==
  ASSUME Class = "A", NEW m \in MacShape
  PROVE  LET n == PrepareRxDoneAbort(m)
         IN  /\ n \in MacShape /\ SameFrame(m, n) /\ SameResult(m, n)
             /\ n.txRunning = FALSE /\ n.txDelayed = m.txDelayed
             /\ n.macDone /\ n.mcpsInd
             /\ n.ackTimeoutRetry = (m.ackTimeoutRetry \/ m.nodeAckRequested)
             /\ n.radio = "IDLE"
             /\ \A t \in Timers \ {"check", "ack", "rxTimeout", "txTimeout"} :
                  n.timer[t] = m.timer[t]
             /\ n.timer["rxTimeout"] = Off /\ n.timer["txTimeout"] = Off
             /\ n.timer["ack"] = IF m.nodeAckRequested THEN Off ELSE m.timer["ack"]
<1> DEFINE r == [m EXCEPT !.txRunning = FALSE]
           s == SetStby(r)
           o == OnAckTimeout(s)
           a == IF m.nodeAckRequested THEN o ELSE s
           i == [a EXCEPT !.mcpsInd = TRUE]
           n == CheckAtOnce(i)
<1>1. PrepareRxDoneAbort(m) = n
  BY DEF PrepareRxDoneAbort, ListenAfterWindow1
<1>2. /\ r \in MacShape /\ SameFrame(m, r) /\ SameResult(m, r) /\ r.txRunning = FALSE
      /\ r.txDelayed = m.txDelayed /\ r.ackTimeoutRetry = m.ackTimeoutRetry
      /\ r.timer = m.timer
  BY DEF MacShape, SameFrame, SameResult
<1> HIDE DEF r
<1>3. Same(r, s) /\ s.radio = "IDLE" /\ Stopped(r, s, {"rxTimeout", "txTimeout"})
  BY <1>2, SetStbySame
<1> HIDE DEF s
<1>4. /\ o \in MacShape /\ SameFrame(s, o) /\ SameResult(s, o)
      /\ o.txRunning = s.txRunning /\ o.txDelayed = s.txDelayed
      /\ o.ackTimeoutRetry = (s.ackTimeoutRetry \/ s.nodeAckRequested)
      /\ o.radio = s.radio /\ Stopped(s, o, {"ack"})
  BY <1>3, OnAckTimeoutA DEF Same
<1> HIDE DEF o
<1>5. s \in MacShape /\ s.ackTimeoutRetry = m.ackTimeoutRetry /\ s.txRunning = FALSE
      /\ s.txDelayed = m.txDelayed /\ s.nodeAckRequested = m.nodeAckRequested
      /\ SameFrame(m, s) /\ SameResult(m, s)
  BY <1>2, <1>3 DEF Same, SameFlags, SameFrame, SameResult
<1>6. /\ a \in MacShape /\ SameFrame(m, a) /\ SameResult(m, a)
      /\ a.txRunning = FALSE /\ a.txDelayed = m.txDelayed /\ a.radio = "IDLE"
  BY <1>3, <1>4, <1>5 DEF SameFrame, SameResult
<1>7. a.ackTimeoutRetry = (m.ackTimeoutRetry \/ m.nodeAckRequested)
  <2>1. m.ackTimeoutRetry \in BOOLEAN /\ m.nodeAckRequested \in BOOLEAN
    BY CounterTypes
  <2> QED BY <1>4, <1>5, <2>1
<1>8. /\ \A t \in Timers \ {"check", "ack", "rxTimeout", "txTimeout"} : a.timer[t] = m.timer[t]
      /\ a.timer["rxTimeout"] = Off /\ a.timer["txTimeout"] = Off
      /\ a.timer["ack"] = IF m.nodeAckRequested THEN Off ELSE m.timer["ack"]
  BY <1>2, <1>3, <1>4 DEF Stopped, Timers
<1> HIDE DEF a
<1>9. /\ i \in MacShape /\ SameFrame(a, i) /\ SameResult(a, i)
      /\ i.txRunning = a.txRunning /\ i.txDelayed = a.txDelayed /\ i.mcpsInd
      /\ i.ackTimeoutRetry = a.ackTimeoutRetry /\ i.radio = a.radio /\ i.timer = a.timer
  BY <1>6 DEF MacShape, SameFrame, SameResult
<1> HIDE DEF i
<1>10. /\ n \in MacShape /\ SameFrame(i, n) /\ SameResult(i, n)
       /\ n.txRunning = i.txRunning /\ n.txDelayed = i.txDelayed
       /\ n.macDone /\ n.mcpsInd = i.mcpsInd
       /\ n.ackTimeoutRetry = i.ackTimeoutRetry
       /\ n.radio = i.radio /\ Started(i, n, "check", 0)
  BY <1>9, CheckAtOnceSame
<1> HIDE DEF n
<1>11. SameFrame(m, n) /\ SameResult(m, n)
  BY <1>6, <1>9, <1>10 DEF SameFrame, SameResult
<1>12. /\ \A t \in Timers \ {"check", "ack", "rxTimeout", "txTimeout"} : n.timer[t] = m.timer[t]
       /\ n.timer["rxTimeout"] = Off /\ n.timer["txTimeout"] = Off
       /\ n.timer["ack"] = IF m.nodeAckRequested THEN Off ELSE m.timer["ack"]
  BY <1>8, <1>9, <1>10 DEF Started, Timers
<1> QED BY <1>1, <1>6, <1>7, <1>9, <1>10, <1>11, <1>12

\* A frame was heard in a window, and the windows are over.
LEMMA RxDonePhase ==
  ASSUME Class = "A", NEW m \in MacShape, NEW b, NEW c, Frame(m, b), Receiving(m, b),
         m.radio = "RX", NEW frame \in Frames,
         c.type = b.type, c.datarate = b.datarate,
         c.acked <=> b.acked \/ frame = "ack"
  PROVE  LET n == OnRadioRxDone(FrameReceived(m), frame)
         IN  n \in MacShape /\ SameFrame(m, n) /\ Active(n, c)
<1> DEFINE f == FrameReceived(m)
           u == SetStby(f)
           d == Disarm(u, "rx2")
           s == [d EXCEPT !.ackReceived = FALSE]
           n == OnRadioRxDone(f, frame)
<1>1. Same(m, f) /\ Stopped(m, f, {"rxTimeout"})
  BY FrameReceivedSame
<1>2. n = CASE frame = "bad"      -> PrepareRxDoneAbort(s)
            [] frame = "repeated" -> PrepareRxDoneAbort([s EXCEPT !.status = "OK"])
            [] OTHER              -> CheckAtOnce(Accept(s, frame))
  BY DEF OnRadioRxDone, SetSleep, ListenAfterWindow1
<1> HIDE DEF f, n
<1>3. Same(f, u) /\ u.radio = "IDLE" /\ Stopped(f, u, {"rxTimeout", "txTimeout"})
  BY <1>1, SetStbySame DEF Same
<1> HIDE DEF u
<1>4. Same(u, d) /\ d.radio = u.radio /\ Stopped(u, d, {"rx2"})
  BY <1>3, DisarmSame DEF Same, Timers
<1> HIDE DEF d
<1>5. /\ s \in MacShape /\ SameFrame(d, s) /\ SameFlags(d, s) /\ s.ackReceived = FALSE
      /\ s.status = d.status /\ s.mlmeTimeout = d.mlmeTimeout
      /\ s.nbRepCounter = d.nbRepCounter /\ s.radio = d.radio /\ s.timer = d.timer
  BY <1>4 DEF Same, MacShape, SameFrame, SameFlags
<1> HIDE DEF s
<1>6. Same(m, d)
  BY <1>1, <1>3, <1>4, SameTwice
<1>7. /\ SameFrame(m, s) /\ SameFlags(m, s) /\ s.nbRepCounter = m.nbRepCounter
      /\ s.status = m.status /\ s.mlmeTimeout = m.mlmeTimeout
  BY <1>5, <1>6 DEF Same, SameFrame, SameFlags, SameResult
<1>8. /\ s.radio = "IDLE" /\ AllOff(s, Timers \ {"check", "ack"})
      /\ s.timer["ack"] = m.timer["ack"]
  BY <1>1, <1>3, <1>4, <1>5, InWindow DEF Receiving, AllOff, Stopped, Timers
<1>9. ~c.acked <=> frame # "ack"
  BY DEF Frame, Receiving, Going
\* The parts that all frames have in common.
<1>10. ASSUME NEW p \in MacShape, SameFrame(s, p), p.nbRepCounter = s.nbRepCounter,
              p.macDone, p.mcpsInd, p.status \in {s.status, "OK"},
              p.mlmeTimeout = s.mlmeTimeout, p.radio = "IDLE", ~p.txDelayed,
              AllOff(p, Timers \ {"check", "ack"}),
              p.ackReceived <=> c.acked, p.ackReceived => p.timer["ack"] = Off,
              p.nodeAckRequested /\ ~p.txRunning => p.ackTimeoutRetry,
              AskedOnce(p)
       PROVE  p \in MacShape /\ SameFrame(m, p) /\ Active(p, c)
  <2>1. SameFrame(m, p)
    BY <1>7, <1>10 DEF SameFrame
  <2>2. Frame(p, c)
    BY <1>10, <2>1, FrameKept
  <2>3. Sent(p, c)
    BY <1>7, <1>10, <2>1 DEF Receiving, Sent, SameFrame
  <2>4. p.status # "TX_TIMEOUT" /\ ~p.mlmeTimeout
    BY <1>7, <1>10 DEF Receiving
  <2>5. Ended(p, c)
    BY <1>10, <2>3, <2>4 DEF Ended
  <2> QED BY <1>10, <2>1, <2>2, <2>5 DEF Active, Ended
<1>11. CASE frame \in {"bad", "repeated"}
  <2> DEFINE q == IF frame = "bad" THEN s ELSE [s EXCEPT !.status = "OK"]
  <2>1. /\ q \in MacShape /\ SameFrame(s, q) /\ SameFlags(s, q) /\ q.ackReceived = FALSE
        /\ q.status \in {s.status, "OK"} /\ q.mlmeTimeout = s.mlmeTimeout
        /\ q.nbRepCounter = s.nbRepCounter /\ q.timer = s.timer
    BY <1>5 DEF MacShape, SameFrame, SameFlags, Statuses
  <2>2. n = PrepareRxDoneAbort(q)
    BY <1>2, <1>11
  <2> HIDE DEF q
  <2>3. /\ n \in MacShape /\ SameFrame(q, n) /\ SameResult(q, n)
        /\ n.txRunning = FALSE /\ n.txDelayed = q.txDelayed
        /\ n.macDone /\ n.mcpsInd
        /\ n.ackTimeoutRetry = (q.ackTimeoutRetry \/ q.nodeAckRequested)
        /\ n.radio = "IDLE"
        /\ \A t \in Timers \ {"check", "ack", "rxTimeout", "txTimeout"} :
             n.timer[t] = q.timer[t]
        /\ n.timer["rxTimeout"] = Off /\ n.timer["txTimeout"] = Off
        /\ n.timer["ack"] = IF q.nodeAckRequested THEN Off ELSE q.timer["ack"]
    BY <2>1, <2>2, AbortSame
  <2>4. SameFrame(s, n) /\ n.nbRepCounter = s.nbRepCounter /\ n.mlmeTimeout = s.mlmeTimeout
        /\ n.status \in {s.status, "OK"} /\ ~n.ackReceived /\ ~c.acked
    BY <1>9, <1>11, <2>1, <2>3 DEF SameFrame, SameResult
  <2>5. ~n.txDelayed
    BY <1>7, <2>1, <2>3 DEF Receiving, SameFlags
  <2>6. AllOff(n, Timers \ {"check", "ack"})
    BY <1>8, <2>1, <2>3 DEF AllOff
  <2>7. n.nodeAckRequested => n.ackTimeoutRetry
    BY <2>3 DEF SameFrame
  <2>8. AskedOnce(n)
    <3>1. /\ q.nodeAckRequested = m.nodeAckRequested /\ n.nodeAckRequested = m.nodeAckRequested
          /\ q.ackTimeoutRetry = m.ackTimeoutRetry /\ q.timer["ack"] = m.timer["ack"]
      BY <1>7, <1>8, <2>1, <2>3 DEF SameFrame, SameFlags
    <3> QED BY <3>1, <2>3 DEF Receiving, AskedOnce
  <2>9. n \in MacShape /\ SameFrame(m, n) /\ Active(n, c)
    BY <1>10, <2>3, <2>4, <2>5, <2>6, <2>7, <2>8
  <2> QED BY <2>9 DEF n, f
<1>12. CASE frame \in {"data", "ack"}
  <2> DEFINE enough == frame = "ack" \/ s.ackRetriesCounter > s.ackRetries
             q == IF enough THEN Disarm(s, "ack") ELSE s
             x == [q EXCEPT !.status = "OK", !.ackReceived = frame = "ack", !.mcpsInd = TRUE]
  <2>1. n = CheckAtOnce(x)
    BY <1>2, <1>12 DEF Accept
  <2>2. /\ Same(s, q) /\ q.radio = s.radio
        /\ q.timer["ack"] = (IF enough THEN Off ELSE s.timer["ack"])
        /\ \A t \in Timers \ {"ack"} : q.timer[t] = s.timer[t]
    <3>1. Same(s, s)
      BY <1>5 DEF Same, SameFrame, SameFlags, SameResult
    <3>2. LET z == Disarm(s, "ack")
          IN  Same(s, z) /\ z.radio = s.radio /\ Stopped(s, z, {"ack"})
      BY <1>5, DisarmSame DEF Timers
    <3> QED BY <3>1, <3>2 DEF Stopped, Timers
  <2> HIDE DEF enough, q
  <2>3. /\ x \in MacShape /\ SameFrame(q, x) /\ x.nbRepCounter = q.nbRepCounter
        /\ x.txRunning = q.txRunning /\ x.txDelayed = q.txDelayed /\ x.mcpsInd
        /\ x.ackTimeoutRetry = q.ackTimeoutRetry /\ x.status = "OK"
        /\ (x.ackReceived <=> frame = "ack") /\ x.mlmeTimeout = q.mlmeTimeout
        /\ x.radio = q.radio /\ x.timer = q.timer
    <3>1. q \in MacShape /\ "OK" \in Statuses
      BY <2>2 DEF Same, Statuses
    <3>2. (frame = "ack") \in BOOLEAN
      OBVIOUS
    <3> QED BY ZenonT(60), <3>1, <3>2 DEF MacShape, SameFrame
  <2> HIDE DEF x
  <2>4. /\ n \in MacShape /\ SameFrame(x, n) /\ SameResult(x, n)
        /\ n.txRunning = x.txRunning /\ n.txDelayed = x.txDelayed
        /\ n.macDone /\ n.mcpsInd = x.mcpsInd
        /\ n.ackTimeoutRetry = x.ackTimeoutRetry
        /\ n.radio = x.radio /\ Started(x, n, "check", 0)
    BY <2>1, <2>3, CheckAtOnceSame
  <2>5. SameFrame(s, n) /\ n.nbRepCounter = s.nbRepCounter /\ n.mlmeTimeout = s.mlmeTimeout
        /\ n.status = "OK"
    BY <2>2, <2>3, <2>4 DEF SameFrame, SameResult, Same
  <2>6. /\ n.txRunning /\ ~n.txDelayed /\ n.ackTimeoutRetry = m.ackTimeoutRetry
        /\ n.nodeAckRequested = m.nodeAckRequested
    BY <1>7, <2>2, <2>3, <2>4, <2>5 DEF Receiving, Same, SameFlags, SameFrame
  <2>7. AllOff(n, Timers \ {"check", "ack"})
    BY <1>8, <2>2, <2>3, <2>4 DEF AllOff, Started
  <2>8. /\ n.timer["ack"] = (IF enough THEN Off ELSE m.timer["ack"])
        /\ (n.ackReceived <=> frame = "ack")
    BY <1>8, <2>2, <2>3, <2>4 DEF Started, Timers, SameResult
  <2>9. AskedOnce(n)
    BY <2>6, <2>8 DEF Receiving, AskedOnce
  <2>10. n.ackReceived => n.timer["ack"] = Off
    BY <2>8 DEF enough
  <2>11. n.ackReceived <=> c.acked
    BY <1>9, <2>8
  <2>12. n \in MacShape /\ SameFrame(m, n) /\ Active(n, c)
    BY ZenonT(60), <1>8, <1>10, <2>2, <2>3, <2>4, <2>5, <2>6, <2>7, <2>9, <2>10, <2>11
  <2> QED BY <2>12 DEF n, f
<1> QED BY <1>11, <1>12, MacAssumption
-----------------------------------------------------------------------------
(* Transmissions.                                                          *)

\* A frame that may be given to the radio once more.
Ready(m, b) ==
    /\ Frame(m, b)
    /\ Going(m) /\ ~m.txDelayed /\ m.radio = "IDLE" /\ ~m.ackTimeoutRetry
    /\ AllOff(m, Timers \ {"check"})
    /\ ToSend(m, b)

\* From m to n the frame was given to the radio, or waits for the duty cycle.
Scheduled(m, n, b) ==
    /\ n \in MacShape
    /\ n.mcpsReq = m.mcpsReq /\ n.upLink = m.upLink
    /\ n.mcpsInd => m.mcpsInd
    /\ Frame(n, b)
    /\ b.type = "confirmed" /\ n.trials > m.trials => n.trials = n.ackRetriesCounter
    /\ \/ n.trials = m.trials /\ Delaying(n, b)
       \/ n.trials = AtMost(m.trials + 1, MaxTrials) /\ Sending(n, b)

LEMMA SendFrameSame ==
  ASSUME NEW m \in MacShape
  PROVE  LET n == SendFrameOnChannel(m)
         IN  /\ n \in MacShape
             /\ n.mcpsReq = m.mcpsReq /\ n.nodeAckRequested = m.nodeAckRequested
             /\ n.ackRetriesCounter = m.ackRetriesCounter /\ n.ackRetries = m.ackRetries
             /\ n.datarate = m.datarate /\ n.upLink = m.upLink
             /\ n.trials = AtMost(m.trials + 1, MaxTrials)
             /\ n.txRunning /\ n.txDelayed = m.txDelayed
             /\ n.macDone = m.macDone /\ n.mcpsInd = m.mcpsInd
             /\ n.ackTimeoutRetry = m.ackTimeoutRetry
             /\ n.status = "ERROR" /\ ~n.mlmeTimeout
             /\ n.ackReceived = m.ackReceived /\ n.nbRepCounter = m.nbRepCounter
             /\ n.radio = "TX"
             /\ n.timer["check"] = CheckPeriod /\ n.timer["txTimeout"] = TxLimit
             /\ \A t \in Timers \ {"check", "txTimeout"} : n.timer[t] = m.timer[t]
<1> DEFINE c == Arm(m, "check", CheckPeriod)
           l == Arm(c, "txTimeout", TxLimit)
           b == [l EXCEPT !.radio = "TX"]
           k == AtMost(b.trials + 1, MaxTrials)
           n == [b EXCEPT !.status = "ERROR", !.mlmeTimeout = FALSE,
                          !.txRunning = TRUE, !.trials = k]
<1>1. SendFrameOnChannel(m) = n
  BY DEF SendFrameOnChannel, SendBuffer
<1>2. Same(m, c) /\ Started(m, c, "check", CheckPeriod)
  BY ArmSame, CountdownFacts DEF Timers
<1> HIDE DEF c
<1>3. Same(c, l) /\ Started(c, l, "txTimeout", TxLimit)
  BY <1>2, ArmSame, CountdownFacts DEF Same, Timers
<1> HIDE DEF l
<1>4. Same(l, b) /\ b.radio = "TX" /\ b.timer = l.timer
  BY <1>3, RadioSame DEF Same
<1> HIDE DEF b
<1>5. Same(m, b)
  BY <1>2, <1>3, <1>4, SameTwice
<1>6. k \in 0 .. MaxTrials /\ k = AtMost(m.trials + 1, MaxTrials)
  BY <1>5, MacAssumption DEF Same, SameFrame, MacShape, AtMost
<1> HIDE DEF k
<1>7. /\ n \in MacShape
      /\ n.mcpsReq = b.mcpsReq /\ n.nodeAckRequested = b.nodeAckRequested
      /\ n.ackRetriesCounter = b.ackRetriesCounter /\ n.ackRetries = b.ackRetries
      /\ n.datarate = b.datarate /\ n.upLink = b.upLink /\ n.trials = k
      /\ n.txRunning /\ n.txDelayed = b.txDelayed
      /\ n.macDone = b.macDone /\ n.mcpsInd = b.mcpsInd
      /\ n.ackTimeoutRetry = b.ackTimeoutRetry
      /\ n.status = "ERROR" /\ ~n.mlmeTimeout
      /\ n.ackReceived = b.ackReceived /\ n.nbRepCounter = b.nbRepCounter
      /\ n.radio = b.radio /\ n.timer = b.timer
  BY ZenonT(60), <1>5, <1>6 DEF Same, MacShape, Statuses
<1> HIDE DEF n
<1>8. /\ n.timer["check"] = CheckPeriod /\ n.timer["txTimeout"] = TxLimit
      /\ \A t \in Timers \ {"check", "txTimeout"} : n.timer[t] = m.timer[t]
  BY <1>2, <1>3, <1>4, <1>7 DEF Started, Timers
<1> QED BY <1>1, <1>4, <1>5, <1>6, <1>7, <1>8 DEF Same, SameFrame, SameFlags, SameResult

\* One more transmission is one more trial, or one more repetition.
LEMMA OnceMore ==
  ASSUME NEW m \in MacShape, NEW n \in MacShape, NEW b, ToSend(m, b),
         n.trials = AtMost(m.trials + 1, MaxTrials),
         n.ackRetriesCounter = m.ackRetriesCounter, n.nbRepCounter = m.nbRepCounter
  PROVE  /\ OnAir(n, b)
         /\ b.type = "confirmed" /\ n.trials > m.trials => n.trials = n.ackRetriesCounter
<1> DEFINE k == m.ackRetriesCounter
           x == m.trials
           r == m.nbRepCounter
<1>1. k \in Nat \ {0} /\ x \in Nat /\ r \in Nat /\ MaxTrials \in Nat /\ ChannelsNbRep \in Nat
  BY CounterTypes, MacAssumption
<1>2. \A i \in Nat \ {0}, y \in Nat :
        y = AtMost(i - 1, MaxTrials) =>
          /\ AtMost(y + 1, MaxTrials) = AtMost(i, MaxTrials)
          /\ AtMost(y + 1, MaxTrials) > y => AtMost(y + 1, MaxTrials) = i
  BY <1>1 DEF AtMost
<1>3. \A y, z \in Nat : y <= z => AtMost(y + 1, MaxTrials) <= z + 1
  BY <1>1 DEF AtMost
<1> HIDE DEF k, x, r
<1>4. b.type = "confirmed" =>
        /\ AtMost(x + 1, MaxTrials) = AtMost(k, MaxTrials)
        /\ AtMost(x + 1, MaxTrials) > x => AtMost(x + 1, MaxTrials) = k
  BY <1>1, <1>2 DEF ToSend, x, k
<1>5. b.type # "confirmed" => AtMost(x + 1, MaxTrials) <= r + 1
  BY <1>1, <1>3 DEF ToSend, x, r
<1> QED BY <1>4, <1>5 DEF ToSend, OnAir, k, x, r

LEMMA ScheduleTxPhase ==
  ASSUME NEW m \in MacShape, NEW b, Ready(m, b), NEW off \in TimeOffs
  PROVE  /\ Scheduled(m, ScheduleTx(m, off), b)
         /\ m.timer["check"] # 0 => \A t \in Timers : ScheduleTx(m, off).timer[t] # 0
<1>1. CASE off = 0
  <2> DEFINE n == SendFrameOnChannel(m)
  <2>1. ScheduleTx(m, off) = n
    BY <1>1 DEF ScheduleTx
  <2>2. /\ n \in MacShape
        /\ n.mcpsReq = m.mcpsReq /\ n.nodeAckRequested = m.nodeAckRequested
        /\ n.ackRetriesCounter = m.ackRetriesCounter /\ n.ackRetries = m.ackRetries
        /\ n.datarate = m.datarate /\ n.upLink = m.upLink
        /\ n.trials = AtMost(m.trials + 1, MaxTrials)
        /\ n.txRunning /\ n.txDelayed = m.txDelayed
        /\ n.macDone = m.macDone /\ n.mcpsInd = m.mcpsInd
        /\ n.ackTimeoutRetry = m.ackTimeoutRetry
        /\ n.status = "ERROR" /\ ~n.mlmeTimeout
        /\ n.ackReceived = m.ackReceived /\ n.nbRepCounter = m.nbRepCounter
        /\ n.radio = "TX"
        /\ n.timer["check"] = CheckPeriod /\ n.timer["txTimeout"] = TxLimit
        /\ \A t \in Timers \ {"check", "txTimeout"} : n.timer[t] = m.timer[t]
    BY SendFrameSame
  <2> HIDE DEF n
  <2>3. Frame(n, b)
    BY <2>2 DEF Ready, Frame
  <2>4. AllOff(n, Timers \ {"check", "txTimeout"})
    BY <2>2 DEF Ready, AllOff
  <2>5. /\ OnAir(n, b)
        /\ b.type = "confirmed" /\ n.trials > m.trials => n.trials = n.ackRetriesCounter
    BY <2>2, OnceMore DEF Ready
  <2>6. Sending(n, b)
    BY <2>2, <2>4, <2>5 DEF Ready, Going, Sending
  <2>7. \A t \in Timers : n.timer[t] # 0
    <3>1. CheckPeriod # 0 /\ TxLimit # 0 /\ Off # 0
      BY MacAssumption, RadioAssumption DEF Off
    <3> QED BY <3>1, <2>2, <2>4 DEF AllOff
  <2> QED BY <2>1, <2>2, <2>3, <2>5, <2>6, <2>7 DEF Scheduled
<1>2. CASE off # 0
  <2> DEFINE d == [m EXCEPT !.txDelayed = TRUE]
             n == Arm(d, "txDelayed", off)
  <2>1. ScheduleTx(m, off) = n
    BY <1>2 DEF ScheduleTx
  <2>2. /\ d \in MacShape /\ SameFrame(m, d) /\ SameResult(m, d) /\ d.txDelayed
        /\ d.macDone = m.macDone /\ d.mcpsInd = m.mcpsInd
        /\ d.ackTimeoutRetry = m.ackTimeoutRetry /\ d.radio = m.radio /\ d.timer = m.timer
    BY DEF MacShape, SameFrame, SameResult
  <2> HIDE DEF d
  <2>3. Same(d, n) /\ n.radio = d.radio /\ Started(d, n, "txDelayed", off)
    BY <2>2, ArmSame, CountdownFacts DEF Timers
  <2> HIDE DEF n
  <2>4. SameFrame(m, n) /\ SameResult(m, n)
    BY <2>2, <2>3 DEF Same, SameFrame, SameResult
  <2>5. Frame(n, b)
    BY <2>4, FrameKept DEF Ready, Frame, SameResult
  <2>6. /\ n.txDelayed /\ ~n.ackTimeoutRetry /\ Going(n) /\ n.radio = "IDLE"
    BY <2>2, <2>3, <2>4 DEF Ready, Going, Same, SameFlags, SameResult
  <2>7. AllOff(n, Timers \ {"check", "txDelayed"})
    BY <2>2, <2>3 DEF Ready, AllOff, Started
  <2>8. Delaying(n, b)
    BY <2>4, <2>6, <2>7 DEF Ready, Delaying, ToSend, SameFrame, SameResult
  <2>9. m.timer["check"] # 0 => \A t \in Timers : n.timer[t] # 0
    <3>1. n.timer["txDelayed"] = off /\ n.timer["check"] = m.timer["check"]
      BY <2>2, <2>3 DEF Started, Timers
    <3>2. Off # 0
      BY DEF Off
    <3> QED BY <1>2, <2>7, <3>1, <3>2 DEF AllOff
  <2>10. n.trials = m.trials /\ ~(n.trials > m.trials)
    <3>1. n.trials = m.trials
      BY <2>4 DEF SameFrame
    <3>2. m.trials \in Nat
      BY CounterTypes
    <3> QED BY <3>1, <3>2
  <2> QED BY <2>1, <2>2, <2>3, <2>4, <2>5, <2>8, <2>9, <2>10
         DEF Scheduled, Same, SameFrame, SameFlags
<1> QED BY <1>1, <1>2

\* TxDelayedTimer: the duty cycle lets the frame go, or not yet.
LEMMA TxDelayedPhase ==
  ASSUME NEW m \in MacShape, NEW b, Frame(m, b), Delaying(m, b), NEW off \in TimeOffs
  PROVE  Scheduled(m, OnTxDelayed(Disarm(m, "txDelayed"), off), b)
<1> DEFINE d == Disarm(m, "txDelayed")
           s == [d EXCEPT !.txDelayed = FALSE]
           n == ScheduleTx(s, off)
<1>1. Same(m, d) /\ d.radio = m.radio /\ Stopped(m, d, {"txDelayed"})
  BY DisarmSame DEF Timers
<1>2. OnTxDelayed(d, off) = n
  BY DEF OnTxDelayed
<1> HIDE DEF d
<1>3. /\ s \in MacShape /\ SameFrame(d, s) /\ SameResult(d, s) /\ ~s.txDelayed
      /\ s.macDone = d.macDone /\ s.mcpsInd = d.mcpsInd
      /\ s.ackTimeoutRetry = d.ackTimeoutRetry /\ s.radio = d.radio /\ s.timer = d.timer
  BY <1>1 DEF Same, MacShape, SameFrame, SameResult
<1> HIDE DEF s
<1>4. SameFrame(m, s) /\ SameResult(m, s)
  BY <1>1, <1>3 DEF Same, SameFrame, SameResult
<1>5. Frame(s, b)
  BY <1>4, FrameKept DEF SameResult, Frame
<1>6. AllOff(s, Timers \ {"check"})
  BY <1>1, <1>3 DEF Delaying, AllOff, Stopped
<1>7. ToSend(s, b)
  BY <1>4 DEF Delaying, ToSend, SameFrame, SameResult
<1>8. Ready(s, b)
  BY <1>1, <1>3, <1>4, <1>5, <1>6, <1>7 DEF Delaying, Ready, Going, Same, SameFlags, SameResult
<1>9. Scheduled(s, n, b)
  BY <1>3, <1>8, ScheduleTxPhase
<1> HIDE DEF n
<1>10. Scheduled(m, n, b)
  BY <1>1, <1>3, <1>4, <1>9 DEF Scheduled, Same, SameFrame, SameFlags
<1> QED BY <1>2, <1>10 DEF d
-----------------------------------------------------------------------------
(* MacStateCheckTimer.                                                     *)

\* Only the check, and an indication without an acknowledgement, changed.
OnlyCheck(m, n) ==
    /\ n \in MacShape /\ SameFrame(m, n) /\ SameResult(m, n)
    /\ n.txRunning = m.txRunning /\ n.txDelayed = m.txDelayed
    /\ n.macDone = m.macDone /\ n.ackTimeoutRetry = m.ackTimeoutRetry
    /\ n.mcpsInd = m.mcpsInd \/ (~n.mcpsInd /\ ~m.ackReceived /\ (m.macDone => m.txRunning))
    /\ n.radio = m.radio /\ n.rxSlot = m.rxSlot
    /\ \A t \in Timers \ {"check"} : n.timer[t] = m.timer[t]

LEMMA OnlyCheckPhase ==
  ASSUME NEW m \in MacShape, NEW n, NEW b, OnlyCheck(m, n)
  PROVE  /\ Frame(m, b) => Frame(n, b)
         /\ Delaying(m, b) => Delaying(n, b)
         /\ Sending(m, b) => Sending(n, b)
         /\ Receiving(m, b) => Receiving(n, b)
         /\ Failed(m, b) => Failed(n, b)
         /\ Ended(m, b) => Ended(n, b)
<1>1. Frame(m, b) => Frame(n, b)
  BY FrameKept DEF OnlyCheck, SameResult, Frame
<1>2. /\ ToSend(m, b) => ToSend(n, b)
      /\ OnAir(m, b) => OnAir(n, b)
      /\ Sent(m, b) => Sent(n, b)
  BY DEF OnlyCheck, SameFrame, SameResult, ToSend, OnAir, Sent
<1>3. \A T : AllOff(m, T) /\ T \subseteq Timers \ {"check"} => AllOff(n, T)
  BY DEF OnlyCheck, AllOff
<1>4. Going(m) => Going(n)
  BY DEF OnlyCheck, Going, SameResult
<1>5. /\ n.timer["ack"] = m.timer["ack"] /\ n.timer["rx1"] = m.timer["rx1"]
      /\ n.timer["rx2"] = m.timer["rx2"]
  BY DEF OnlyCheck, Timers
<1>6. AskedOnce(m) => AskedOnce(n)
  BY <1>5 DEF OnlyCheck, SameFrame, AskedOnce
<1>7. Delaying(m, b) => Delaying(n, b)
  BY <1>2, <1>3, <1>4 DEF OnlyCheck, Delaying
<1>8. Sending(m, b) => Sending(n, b)
  BY <1>2, <1>3, <1>4 DEF OnlyCheck, Sending, SameResult
<1>9. Receiving(m, b) => Receiving(n, b)
  <2>1. {"txDelayed", "txTimeout"} \subseteq Timers \ {"check"}
    BY DEF Timers
  <2> QED BY <1>2, <1>3, <1>4, <1>5, <1>6, <2>1 DEF OnlyCheck, Receiving, SameResult
<1>10. Failed(m, b) => Failed(n, b)
  BY <1>2, <1>3 DEF OnlyCheck, Failed, SameResult
<1>11. Ended(m, b) => Ended(n, b)
  BY <1>2, <1>3, <1>5, <1>6 DEF OnlyCheck, Ended, SameFrame, SameResult
<1> QED BY <1>1, <1>7, <1>8, <1>9, <1>10, <1>11

\* The end of the check.
Checked(x) == [ConfirmOrWait(x) EXCEPT !.mcpsInd = FALSE]

LEMMA WaitOn ==
  ASSUME NEW x \in MacShape, x.txRunning \/ x.txDelayed, ~x.ackReceived,
         x.macDone => x.txRunning
  PROVE  OnlyCheck(x, Checked(x)) /\ ~Checked(x).mcpsInd
<1> DEFINE w == Arm(x, "check", CheckPeriod)
           n == [w EXCEPT !.mcpsInd = FALSE]
<1>1. Same(x, w) /\ w.radio = x.radio /\ w.rxSlot = x.rxSlot
      /\ Started(x, w, "check", CheckPeriod)
  BY ArmSame, CountdownFacts DEF Timers
<1>2. Checked(x) = n
  BY DEF Checked, ConfirmOrWait
<1> HIDE DEF w
<1>3. /\ n \in MacShape /\ SameFrame(w, n) /\ SameResult(w, n)
      /\ n.txRunning = w.txRunning /\ n.txDelayed = w.txDelayed
      /\ n.macDone = w.macDone /\ n.ackTimeoutRetry = w.ackTimeoutRetry
      /\ ~n.mcpsInd /\ n.radio = w.radio /\ n.rxSlot = w.rxSlot /\ n.timer = w.timer
  BY <1>1 DEF Same, MacShape, SameFrame, SameResult
<1> HIDE DEF n
<1>4. SameFrame(x, n) /\ SameResult(x, n)
  BY <1>1, <1>3 DEF Same, SameFrame, SameResult
<1>5. \A t \in Timers \ {"check"} : n.timer[t] = x.timer[t]
  BY <1>1, <1>3 DEF Started
<1> QED BY <1>1, <1>2, <1>3, <1>4, <1>5 DEF OnlyCheck, Same, SameFlags

\* The confirm of a request: from m to n nothing was sent, and the frame is
\* counted.
Concluded(m, n, b) ==
    /\ n \in MacShape /\ ~n.mcpsReq /\ Quiet(n)
    /\ n.trials = m.trials
    /\ n.ackReceived <=> b.acked
    /\ MaxAhead > 0 /\ ~TimedOut(m) => n.upLink > 0

LEMMA ConfirmNow ==
  ASSUME NEW x \in MacShape, ~x.txRunning, ~x.txDelayed, ~x.ackTimeoutRetry,
         x.radio = "IDLE", AllOff(x, Timers), x.nbRepCounter < ChannelsNbRep
  PROVE  LET n == Checked(x)
         IN  /\ n \in MacShape /\ ~n.mcpsReq /\ Quiet(n)
             /\ n.trials = x.trials /\ n.upLink = x.upLink
             /\ n.ackReceived = x.ackReceived
<1> DEFINE o == [x EXCEPT !.mcpsReq = FALSE, !.macDone = FALSE]
           n == [o EXCEPT !.mcpsInd = FALSE]
<1>1. Checked(x) = n
  BY DEF Checked, ConfirmOrWait
<1>2. /\ n \in MacShape /\ ~n.mcpsReq /\ ~n.macDone /\ ~n.mcpsInd
      /\ n.txRunning = x.txRunning /\ n.txDelayed = x.txDelayed
      /\ n.ackTimeoutRetry = x.ackTimeoutRetry /\ n.ackReceived = x.ackReceived
      /\ n.nbRepCounter = x.nbRepCounter /\ n.trials = x.trials /\ n.upLink = x.upLink
      /\ n.radio = x.radio /\ n.timer = x.timer
  BY DEF MacShape
<1> HIDE DEF n
<1> QED BY <1>1, <1>2 DEF Quiet, AllOff

\* What OnMacStateCheckTimerEvent does once its timer is stopped.
Look(a, off1, off2) ==
    LET r == RepeatOrFinish(StopOnTxTimeout(a), off1)
    IN  Checked(IF a.macDone THEN RetryOrGiveUp(FinishOnIndication(r), off2) ELSE r)

LEMMA CheckLooks ==
  ASSUME NEW m \in MacShape, NEW off1, NEW off2
  PROVE  LET a == Disarm(m, "check")
         IN  OnMacStateCheck(m, <<off1, off2>>) = Look(a, off1, off2)
<1>1. Disarm(m, "check").macDone = m.macDone
  BY DisarmSame DEF Timers, Same, SameFlags
<1> QED BY <1>1 DEF OnMacStateCheck, Look, Checked

\* The check comes before the radio has reported.
LEMMA LookGoing ==
  ASSUME NEW a \in MacShape, NEW b, Delaying(a, b) \/ Sending(a, b) \/ Receiving(a, b),
         NEW off1, NEW off2
  PROVE  OnlyCheck(a, Look(a, off1, off2))
<1>1. ~a.macDone /\ ~a.ackReceived /\ (a.txRunning \/ a.txDelayed)
  BY DEF Delaying, Sending, Receiving, Going
<1>2. StopOnTxTimeout(a) = a /\ RepeatOrFinish(a, off1) = a
  BY <1>1 DEF StopOnTxTimeout, RepeatOrFinish, TimedOut
<1>3. Look(a, off1, off2) = Checked(a)
  BY <1>1, <1>2 DEF Look
<1> QED BY <1>1, <1>3, WaitOn

\* A frame that was cut off is given up.
LEMMA LookFailed ==
  ASSUME NEW a \in MacShape, NEW b, Frame(a, b), Failed(a, b), a.mcpsReq,
         a.timer["check"] = Off, NEW off1, NEW off2
  PROVE  Concluded(a, Look(a, off1, off2), b)
<1> DEFINE s == [a EXCEPT !.txRunning = FALSE, !.ackReceived = FALSE]
<1>1. TimedOut(a)
  BY DEF TimedOut, Failed
<1>2. StopOnTxTimeout(a) = s
  BY <1>1 DEF StopOnTxTimeout
<1>3. /\ s \in MacShape /\ ~s.txRunning /\ s.txDelayed = a.txDelayed
      /\ s.macDone = a.macDone /\ s.mcpsReq = a.mcpsReq /\ s.mcpsInd = a.mcpsInd
      /\ s.ackTimeoutRetry = a.ackTimeoutRetry /\ s.status = a.status
      /\ s.radio = a.radio /\ s.timer = a.timer /\ s.nbRepCounter = a.nbRepCounter
      /\ s.trials = a.trials /\ ~s.ackReceived
  BY DEF MacShape
<1> HIDE DEF s
<1>4. RepeatOrFinish(s, off1) = s /\ FinishOnIndication(s) = s /\ RetryOrGiveUp(s, off2) = s
  BY <1>3 DEF RepeatOrFinish, FinishOnIndication, RetryOrGiveUp, TimedOut, Failed
<1>5. Look(a, off1, off2) = Checked(s)
  BY <1>2, <1>4 DEF Look
<1>6. AllOff(s, Timers)
  BY <1>3 DEF Failed, AllOff
<1>7. LET n == Checked(s)
      IN  /\ n \in MacShape /\ ~n.mcpsReq /\ Quiet(n)
          /\ n.trials = s.trials /\ n.upLink = s.upLink /\ n.ackReceived = s.ackReceived
  BY <1>3, <1>6, ConfirmNow DEF Failed, OnAir
<1>8. ~b.acked
  BY DEF Frame, Failed
<1> QED BY <1>1, <1>3, <1>5, <1>7, <1>8 DEF Concluded

\* CountUp moves UpLinkCounter only.
LEMMA CountUpSame ==
  ASSUME NEW m \in MacShape
  PROVE  LET n == CountUp(m)
         IN  /\ n \in MacShape
             /\ n.nodeAckRequested = m.nodeAckRequested
             /\ n.ackRetriesCounter = m.ackRetriesCounter /\ n.ackRetries = m.ackRetries
             /\ n.trials = m.trials
             /\ SameFlags(m, n) /\ SameResult(m, n)
             /\ n.radio = m.radio /\ n.timer = m.timer
             /\ MaxAhead > 0 => n.upLink > 0
<1> DEFINE k == AtMost(m.upLink + 1, MaxAhead)
           n == [m EXCEPT !.upLink = k]
<1>1. k \in 0 .. MaxAhead /\ (MaxAhead > 0 => k > 0)
  BY MacAssumption DEF MacShape, AtMost
<1>2. CountUp(m) = n
  BY DEF CountUp, MacShape
<1> HIDE DEF k
<1>3. /\ n \in MacShape
      /\ n.nodeAckRequested = m.nodeAckRequested
      /\ n.ackRetriesCounter = m.ackRetriesCounter /\ n.ackRetries = m.ackRetries
      /\ n.trials = m.trials
      /\ SameFlags(m, n) /\ SameResult(m, n)
      /\ n.radio = m.radio /\ n.timer = m.timer /\ n.upLink = k
  BY <1>1 DEF MacShape, SameFlags, SameResult
<1> QED BY <1>1, <1>2, <1>3

\* After ScheduleTx the check is started again.
LEMMA ScheduledWaits ==
  ASSUME NEW a, NEW x, NEW b, Scheduled(a, x, b)
  PROVE  Scheduled(a, Checked(x), b) /\ ~Checked(x).mcpsInd
<1> DEFINE n == Checked(x)
<1>1. /\ x \in MacShape /\ (x.txRunning \/ x.txDelayed)
      /\ ~x.ackReceived /\ ~x.macDone
  BY DEF Scheduled, Delaying, Sending, Going
<1>2. OnlyCheck(x, n) /\ ~n.mcpsInd
  BY <1>1, WaitOn
<1> HIDE DEF n
<1>3. n \in MacShape /\ SameFrame(x, n)
  BY <1>2 DEF OnlyCheck
<1>4. Frame(n, b) /\ (Delaying(x, b) => Delaying(n, b)) /\ (Sending(x, b) => Sending(n, b))
  BY <1>1, <1>2, OnlyCheckPhase DEF Scheduled
<1>5. Scheduled(a, n, b)
  BY <1>2, <1>3, <1>4 DEF Scheduled, SameFrame
<1> QED BY <1>2, <1>5 DEF n

\* A frame that was just scheduled is neither finished nor retried.
LEMMA ScheduledStays ==
  ASSUME NEW a, NEW x, NEW b, Scheduled(a, x, b), ~a.mcpsInd, NEW off
  PROVE  RetryOrGiveUp(FinishOnIndication(x), off) = x
<1>1. ~x.mcpsInd /\ ~x.ackTimeoutRetry
  BY DEF Scheduled, Delaying, Sending
<1> QED BY <1>1 DEF FinishOnIndication, RetryOrGiveUp

\* An unconfirmed frame is repeated, or was sent often enough or answered.
LEMMA LookUnconfirmed ==
  ASSUME NEW a \in MacShape, NEW b, Frame(a, b), Ended(a, b), a.mcpsReq,
         a.timer["check"] = Off, ~a.nodeAckRequested,
         NEW off1 \in TimeOffs, NEW off2 \in TimeOffs
  PROVE  LET n == Look(a, off1, off2)
         IN  Concluded(a, n, b) \/ (Scheduled(a, n, b) /\ ~n.mcpsInd)
<1>1. ~TimedOut(a) /\ StopOnTxTimeout(a) = a
  BY DEF TimedOut, Ended, StopOnTxTimeout
<1>2. AllOff(a, Timers) /\ ~a.ackTimeoutRetry
  BY DEF Ended, AskedOnce, AllOff
<1>3. CASE a.nbRepCounter >= ChannelsNbRep \/ a.mcpsInd
  <2> DEFINE e == [a EXCEPT !.nbRepCounter = 0, !.txRunning = FALSE]
             c == CountUp(e)
             g == [c EXCEPT !.ackTimeoutRetry = FALSE, !.nodeAckRequested = FALSE,
                            !.txRunning = FALSE]
             f == CountUp(g)
             x == FinishOnIndication(c)
  <2>1. RepeatOrFinish(a, off1) = c
    BY <1>1, <1>3 DEF RepeatOrFinish, Ended
  <2>2. x = IF c.mcpsInd /\ (c.ackReceived \/ c.ackRetriesCounter > c.ackRetries) THEN f ELSE c
    BY DEF FinishOnIndication
  <2>3. /\ e \in MacShape /\ e.nbRepCounter = 0 /\ ~e.txRunning
        /\ e.txDelayed = a.txDelayed /\ e.ackTimeoutRetry = a.ackTimeoutRetry
        /\ e.ackReceived = a.ackReceived /\ e.trials = a.trials
        /\ e.radio = a.radio /\ e.timer = a.timer
    <3>1. 0 \in 0 .. ChannelsNbRep
      BY MacAssumption
    <3> QED BY <3>1 DEF MacShape
  <2> HIDE DEF e
  <2>4. /\ c \in MacShape /\ c.trials = e.trials /\ SameFlags(e, c) /\ SameResult(e, c)
        /\ c.radio = e.radio /\ c.timer = e.timer
        /\ MaxAhead > 0 => c.upLink > 0
    BY <2>3, CountUpSame
  <2> HIDE DEF c
  <2>5. /\ g \in MacShape /\ g.nbRepCounter = c.nbRepCounter /\ ~g.txRunning
        /\ g.txDelayed = c.txDelayed /\ ~g.ackTimeoutRetry
        /\ g.ackReceived = c.ackReceived /\ g.trials = c.trials
        /\ g.radio = c.radio /\ g.timer = c.timer
    BY ZenonT(60), <2>4 DEF MacShape
  <2> HIDE DEF g
  <2>6. /\ f \in MacShape /\ f.trials = g.trials /\ SameFlags(g, f) /\ SameResult(g, f)
        /\ f.radio = g.radio /\ f.timer = g.timer
        /\ MaxAhead > 0 => f.upLink > 0
    BY <2>5, CountUpSame
  <2> HIDE DEF f, x
  <2>7. /\ x \in MacShape /\ x.trials = a.trials /\ x.nbRepCounter = 0
        /\ ~x.txRunning /\ ~x.txDelayed /\ ~x.ackTimeoutRetry
        /\ x.ackReceived = a.ackReceived /\ x.radio = "IDLE" /\ x.timer = a.timer
        /\ MaxAhead > 0 => x.upLink > 0
    BY <1>2, <2>2, <2>3, <2>4, <2>5, <2>6 DEF Ended, SameFlags, SameResult
  <2>8. RetryOrGiveUp(x, off2) = x
    BY <2>7 DEF RetryOrGiveUp
  <2>9. Look(a, off1, off2) = Checked(x)
    BY <1>1, <2>1, <2>8 DEF Look, x, Ended
  <2>10. AllOff(x, Timers)
    BY <1>2, <2>7 DEF AllOff
  <2>11. x.nbRepCounter < ChannelsNbRep
    BY <2>7, MacAssumption
  <2>12. LET n == Checked(x)
         IN  /\ n \in MacShape /\ ~n.mcpsReq /\ Quiet(n)
             /\ n.trials = x.trials /\ n.upLink = x.upLink /\ n.ackReceived = x.ackReceived
    BY <2>7, <2>10, <2>11, ConfirmNow
  <2>13. a.ackReceived <=> b.acked
    BY DEF Frame
  <2> QED BY <2>7, <2>9, <2>12, <2>13 DEF Concluded
<1>4. CASE ~(a.nbRepCounter >= ChannelsNbRep \/ a.mcpsInd)
  <2> DEFINE r == [a EXCEPT !.macDone = FALSE]
             x == ScheduleTx(r, off1)
  <2>1. RepeatOrFinish(a, off1) = x
    BY <1>1, <1>4 DEF RepeatOrFinish, Ended
  <2>2. /\ r \in MacShape /\ SameFrame(a, r) /\ SameResult(a, r) /\ ~r.macDone
        /\ r.txDelayed = a.txDelayed /\ r.mcpsInd = a.mcpsInd
        /\ r.ackTimeoutRetry = a.ackTimeoutRetry /\ r.radio = a.radio /\ r.timer = a.timer
    BY DEF MacShape, SameFrame, SameResult
  <2> HIDE DEF r
  <2>3. Frame(r, b)
    BY <2>2, FrameKept DEF SameResult, Frame
  <2>4. ToSend(r, b)
    <3>1. a.nbRepCounter < ChannelsNbRep
      BY <1>4, CounterTypes, MacAssumption
    <3>2. b.type # "confirmed"
      BY DEF Frame
    <3> QED BY <2>2, <3>1, <3>2 DEF Ended, Sent, ToSend, SameFrame, SameResult
  <2>5. Ready(r, b)
    BY <1>2, <1>4, <2>2, <2>3, <2>4 DEF Ready, Ended, Going, AllOff, SameResult
  <2>6. Scheduled(r, x, b)
    BY <2>2, <2>5, ScheduleTxPhase
  <2> HIDE DEF x
  <2>7. RetryOrGiveUp(FinishOnIndication(x), off2) = x
    BY <1>4, <2>2, <2>6, ScheduledStays
  <2>8. Look(a, off1, off2) = Checked(x)
    BY <1>1, <2>1, <2>7 DEF Look, Ended
  <2>9. Scheduled(a, x, b)
    BY <1>4, <2>2, <2>6 DEF Scheduled, SameFrame
  <2> QED BY <2>8, <2>9, ScheduledWaits
<1> QED BY <1>3, <1>4

\* The datarate falls at every other trial, and not below 0.
LEMMA LoweredNext ==
  ASSUME NEW d \in Nat, NEW k \in Nat \ {0}
  PROVE  LET c == Lowered(d, k)
         IN  Lowered(d, k + 1) = IF k % 2 = 0 /\ c > 0 THEN c - 1 ELSE c
<1>1. k = (2 * (k \div 2)) + (k % 2) /\ k % 2 \in 0 .. 1 /\ k \div 2 \in Nat
  BY SMTT(60)
<1> DEFINE h == k \div 2
<1>2. CASE k % 2 = 0
  <2>1. (k - 1) \div 2 = h - 1 /\ ((k + 1) - 1) \div 2 = h
    BY <1>1, <1>2
  <2> QED BY <1>1, <1>2, <2>1 DEF Lowered
<1>3. CASE k % 2 = 1
  <2>1. (k - 1) \div 2 = h /\ ((k + 1) - 1) \div 2 = h
    BY <1>1, <1>3
  <2> QED BY <1>1, <1>3, <2>1 DEF Lowered
<1> QED BY <1>1, <1>2, <1>3

\* A confirmed frame is finished by its acknowledgement, retried or given up
\* when AckTimeoutTimer has asked for it, or waits.
LEMMA LookConfirmed ==
  ASSUME NEW a \in MacShape, NEW b, b.datarate \in 0 .. MaxDatarate,
         Frame(a, b), Ended(a, b), a.mcpsReq,
         a.timer["check"] = Off, a.nodeAckRequested,
         NEW off1 \in TimeOffs, NEW off2 \in TimeOffs
  PROVE  LET n == Look(a, off1, off2)
         IN  \/ Concluded(a, n, b)
             \/ Scheduled(a, n, b) /\ ~n.mcpsInd
             \/ OnlyCheck(a, n)
<1>1. StopOnTxTimeout(a) = a /\ RepeatOrFinish(a, off1) = a
  BY DEF TimedOut, Ended, StopOnTxTimeout, RepeatOrFinish
<1>2. Look(a, off1, off2) = Checked(RetryOrGiveUp(FinishOnIndication(a), off2))
  BY <1>1 DEF Look, Ended
<1>3. /\ b.type = "confirmed" /\ a.ackRetries = NbTrials
      /\ (a.ackReceived <=> b.acked)
      /\ a.datarate = Lowered(b.datarate, a.ackRetriesCounter)
      /\ a.trials = AtMost(a.ackRetriesCounter, MaxTrials)
      /\ a.nbRepCounter < ChannelsNbRep
  BY DEF Frame, Ended, Sent
<1>4. ~(a.ackRetriesCounter > a.ackRetries)
  BY <1>3, CounterTypes, MacAssumption
<1>5. CASE a.ackReceived
  <2> DEFINE g == [a EXCEPT !.ackTimeoutRetry = FALSE, !.nodeAckRequested = FALSE,
                            !.txRunning = FALSE]
             x == CountUp(g)
  <2>1. FinishOnIndication(a) = x
    BY <1>5 DEF FinishOnIndication, Ended
  <2>2. /\ g \in MacShape /\ g.nbRepCounter = a.nbRepCounter /\ ~g.txRunning
        /\ g.txDelayed = a.txDelayed /\ ~g.ackTimeoutRetry
        /\ g.ackReceived = a.ackReceived /\ g.trials = a.trials
        /\ g.radio = a.radio /\ g.timer = a.timer
    BY ZenonT(60) DEF MacShape
  <2> HIDE DEF g
  <2>3. /\ x \in MacShape /\ x.trials = g.trials /\ SameFlags(g, x) /\ SameResult(g, x)
        /\ x.radio = g.radio /\ x.timer = g.timer
        /\ MaxAhead > 0 => x.upLink > 0
    BY <2>2, CountUpSame
  <2> HIDE DEF x
  <2>4. /\ ~x.txRunning /\ ~x.txDelayed /\ ~x.ackTimeoutRetry /\ x.radio = "IDLE"
        /\ x.trials = a.trials /\ x.ackReceived = a.ackReceived
        /\ x.nbRepCounter < ChannelsNbRep
    BY <1>3, <2>2, <2>3 DEF Ended, SameFlags, SameResult
  <2>5. AllOff(x, Timers)
    BY <1>5, <2>2, <2>3 DEF Ended, AllOff
  <2>6. RetryOrGiveUp(x, off2) = x
    BY <2>4 DEF RetryOrGiveUp
  <2>7. Look(a, off1, off2) = Checked(x)
    BY <1>2, <2>1, <2>6
  <2>8. LET n == Checked(x)
        IN  /\ n \in MacShape /\ ~n.mcpsReq /\ Quiet(n)
            /\ n.trials = x.trials /\ n.upLink = x.upLink /\ n.ackReceived = x.ackReceived
    BY <2>3, <2>4, <2>5, ConfirmNow
  <2> QED BY <1>3, <2>3, <2>4, <2>7, <2>8 DEF Concluded
<1>6. CASE ~a.ackReceived
  <2>1. FinishOnIndication(a) = a
    BY <1>4, <1>6 DEF FinishOnIndication
  <2>2. CASE ~a.ackTimeoutRetry
    <3>1. RetryOrGiveUp(a, off2) = a
      BY <2>2 DEF RetryOrGiveUp
    <3>2. Look(a, off1, off2) = Checked(a)
      BY <1>2, <2>1, <3>1
    <3>3. a.txRunning
      BY <2>2 DEF Ended
    <3> QED BY <1>6, <3>2, <3>3, WaitOn
  <2>3. CASE a.ackTimeoutRetry
    <3> DEFINE s == [a EXCEPT !.ackTimeoutRetry = FALSE]
    <3>1. /\ s \in MacShape /\ SameFrame(a, s) /\ SameResult(a, s) /\ ~s.ackTimeoutRetry
          /\ s.txDelayed = a.txDelayed /\ s.txRunning = a.txRunning /\ s.mcpsInd = a.mcpsInd
          /\ s.radio = a.radio /\ s.timer = a.timer
      BY DEF MacShape, SameFrame, SameResult
    <3>2. AllOff(a, Timers) /\ AllOff(s, Timers)
      <4>1. AllOff(a, Timers)
        BY <2>3 DEF Ended, AskedOnce, AllOff
      <4> QED BY <3>1, <4>1 DEF AllOff
    <3>3. CASE MayRetry(a)
      <4> DEFINE k == s.ackRetriesCounter + 1
                 d == NextDatarate(a)
                 r == [s EXCEPT !.ackRetriesCounter = k, !.datarate = d, !.macDone = FALSE]
                 x == ScheduleTx(r, off2)
      <4>1. RetryOrGiveUp(a, off2) = ScheduleTx([s EXCEPT !.ackRetriesCounter = @ + 1,
                                                         !.datarate = d, !.macDone = FALSE], off2)
        BY <2>3, <3>3 DEF RetryOrGiveUp, Ended
      <4>2. [s EXCEPT !.ackRetriesCounter = @ + 1, !.datarate = d, !.macDone = FALSE] = r
        BY <3>1 DEF MacShape
      <4>3. k \in 1 .. NbTrials /\ d \in 0 .. MaxDatarate /\ k = a.ackRetriesCounter + 1
        BY <3>1, <3>3, RetryBounds DEF SameFrame
      <4>4. d = Lowered(b.datarate, k)
        <5>1. a.ackRetriesCounter \in Nat \ {0} /\ b.datarate \in Nat
          BY CounterTypes
        <5> HIDE DEF k
        <5> QED BY <1>3, <4>3, <5>1, LoweredNext DEF NextDatarate
      <4>5. RetryOrGiveUp(a, off2) = x
        BY <4>1, <4>2
      <4> HIDE DEF s, k, d
      <4>6. /\ r \in MacShape /\ r.mcpsReq = s.mcpsReq /\ r.nodeAckRequested = s.nodeAckRequested
            /\ r.ackRetriesCounter = k /\ r.ackRetries = s.ackRetries /\ r.datarate = d
            /\ r.upLink = s.upLink /\ r.trials = s.trials /\ SameResult(s, r)
            /\ r.txDelayed = s.txDelayed /\ ~r.macDone /\ r.mcpsInd = s.mcpsInd
            /\ r.ackTimeoutRetry = s.ackTimeoutRetry /\ r.radio = s.radio /\ r.timer = s.timer
        BY ZenonT(60), <3>1, <4>3 DEF MacShape, SameResult
      <4> HIDE DEF r
      <4>7. Frame(r, b)
        BY <1>3, <3>1, <4>4, <4>6 DEF Frame, SameFrame, SameResult
      <4>8. ToSend(r, b)
        <5>1. k - 1 = a.ackRetriesCounter
          BY <4>3, CounterTypes
        <5> QED BY <1>3, <3>1, <4>6, <5>1 DEF ToSend, SameFrame, SameResult
      <4>9. Ready(r, b)
        BY <1>6, <3>1, <3>2, <4>6, <4>7, <4>8 DEF Ready, Ended, Going, AllOff, SameResult
      <4>10. Scheduled(r, x, b)
        BY <4>6, <4>9, ScheduleTxPhase
      <4> HIDE DEF x
      <4>11. Scheduled(a, x, b)
        BY <3>1, <4>6, <4>10 DEF Scheduled, SameFrame
      <4>12. Look(a, off1, off2) = Checked(x)
        BY <1>2, <2>1, <4>5
      <4> QED BY <4>11, <4>12, ScheduledWaits
    <3>4. CASE ~MayRetry(a)
      <4> DEFINE g == [s EXCEPT !.txRunning = FALSE, !.nodeAckRequested = FALSE,
                                !.ackReceived = FALSE]
                 x == CountUp(g)
      <4>1. RetryOrGiveUp(a, off2) = x
        BY <2>3, <3>4 DEF RetryOrGiveUp, Ended
      <4> HIDE DEF s
      <4>2. /\ g \in MacShape /\ g.nbRepCounter = s.nbRepCounter /\ ~g.txRunning
            /\ g.txDelayed = s.txDelayed /\ g.ackTimeoutRetry = s.ackTimeoutRetry
            /\ ~g.ackReceived /\ g.trials = s.trials
            /\ g.radio = s.radio /\ g.timer = s.timer
        BY ZenonT(60), <3>1 DEF MacShape
      <4> HIDE DEF g
      <4>3. /\ x \in MacShape /\ x.trials = g.trials /\ SameFlags(g, x) /\ SameResult(g, x)
            /\ x.radio = g.radio /\ x.timer = g.timer
            /\ MaxAhead > 0 => x.upLink > 0
        BY <4>2, CountUpSame
      <4> HIDE DEF x
      <4>4. /\ ~x.txRunning /\ ~x.txDelayed /\ ~x.ackTimeoutRetry /\ x.radio = "IDLE"
            /\ x.trials = a.trials /\ ~x.ackReceived
            /\ x.nbRepCounter < ChannelsNbRep
        BY <1>3, <3>1, <4>2, <4>3 DEF Ended, SameFrame, SameFlags, SameResult
      <4>5. AllOff(x, Timers)
        BY <3>2, <4>2, <4>3 DEF AllOff
      <4>6. Look(a, off1, off2) = Checked(x)
        BY <1>2, <2>1, <4>1
      <4>7. LET n == Checked(x)
            IN  /\ n \in MacShape /\ ~n.mcpsReq /\ Quiet(n)
                /\ n.trials = x.trials /\ n.upLink = x.upLink /\ n.ackReceived = x.ackReceived
        BY <4>3, <4>4, <4>5, ConfirmNow
      <4> QED BY <1>3, <1>6, <4>3, <4>4, <4>6, <4>7 DEF Concluded
    <3> QED BY <3>3, <3>4
  <2> QED BY <2>2, <2>3
<1> QED BY <1>5, <1>6

\* From m to n a request that b describes went on waiting, was sent once more
\* (or will be), or was confirmed.
WentOn(m, n, b) == n \in MacShape /\ SameFrame(m, n) /\ n.radio = m.radio /\ Active(n, b)
Resent(m, n, b) == Scheduled(m, n, b) /\ ~n.mcpsInd /\ m.radio = "IDLE"
Ends(m, n, b)   == Concluded(m, n, b) /\ m.radio = "IDLE"

LEMMA CheckPhase ==
  ASSUME NEW m \in MacShape, NEW b, b.datarate \in 0 .. MaxDatarate,
         Active(m, b), m.mcpsReq, NEW off1 \in TimeOffs, NEW off2 \in TimeOffs
  PROVE  LET n == OnMacStateCheck(Disarm(m, "check"), <<off1, off2>>)
         IN  WentOn(m, n, b) \/ Resent(m, n, b) \/ Ends(m, n, b)
<1> DEFINE d == Disarm(m, "check")
           a == Disarm(d, "check")
           n == Look(a, off1, off2)
<1>1. Same(m, d) /\ d.radio = m.radio /\ d.rxSlot = m.rxSlot /\ Stopped(m, d, {"check"})
  BY DisarmSame DEF Timers
<1>2. OnMacStateCheck(d, <<off1, off2>>) = n
  BY <1>1, CheckLooks DEF Same
<1> HIDE DEF d
<1>3. Same(d, a) /\ a.radio = d.radio /\ a.rxSlot = d.rxSlot /\ Stopped(d, a, {"check"})
  BY <1>1, DisarmSame DEF Same, Timers
<1> HIDE DEF a, n
<1>4. Same(m, a) /\ a \in MacShape
  BY <1>1, <1>3, SameTwice DEF Same
<1>5. OnlyCheck(m, a) /\ a.mcpsInd = m.mcpsInd
  BY <1>1, <1>3, <1>4 DEF OnlyCheck, Same, SameFlags, Stopped
<1>6. a.timer["check"] = Off /\ a.mcpsReq
  BY <1>3, <1>4 DEF Stopped, Timers, Same, SameFrame
<1>7. /\ Frame(a, b)
      /\ Delaying(m, b) => Delaying(a, b)
      /\ Sending(m, b) => Sending(a, b)
      /\ Receiving(m, b) => Receiving(a, b)
      /\ Failed(m, b) => Failed(a, b)
      /\ Ended(m, b) => Ended(a, b)
  BY <1>5, OnlyCheckPhase DEF Active
<1>8. Active(a, b)
  BY <1>4, <1>5, <1>7 DEF Active, Same, SameFlags
<1>9. ASSUME OnlyCheck(a, n)
      PROVE  WentOn(m, n, b)
  <2>1. n \in MacShape /\ SameFrame(m, n) /\ n.radio = m.radio
    BY <1>1, <1>3, <1>4, <1>9 DEF OnlyCheck, Same, SameFrame
  <2>2. ~n.macDone => ~n.mcpsInd
    BY <1>8, <1>9 DEF OnlyCheck, Active
  <2>3. Active(n, b)
    BY <1>4, <1>8, <1>9, <2>2, OnlyCheckPhase DEF Active
  <2> QED BY <2>1, <2>3 DEF WentOn
<1>10. ASSUME Scheduled(a, n, b), ~n.mcpsInd, m.radio = "IDLE"
       PROVE  Resent(m, n, b)
  BY <1>4, <1>5, <1>10 DEF Resent, Scheduled, Same, SameFrame
<1>11. ASSUME Concluded(a, n, b), m.radio = "IDLE"
       PROVE  Ends(m, n, b)
  <2>1. TimedOut(a) = TimedOut(m) /\ a.trials = m.trials
    BY <1>4 DEF TimedOut, Same, SameFrame, SameFlags, SameResult
  <2> QED BY <1>11, <2>1 DEF Ends, Concluded
<1>12. Delaying(m, b) \/ Sending(m, b) \/ Receiving(m, b) => WentOn(m, n, b)
  <2>1. Delaying(m, b) \/ Sending(m, b) \/ Receiving(m, b) => OnlyCheck(a, n)
    BY <1>4, <1>7, LookGoing DEF n
  <2> QED BY <1>9, <2>1
<1>13. Failed(m, b) => Ends(m, n, b)
  <2>1. Failed(m, b) => Concluded(a, n, b)
    BY <1>4, <1>6, <1>7, LookFailed DEF n
  <2> QED BY <1>11, <2>1 DEF Failed
<1>14. Ended(m, b) => WentOn(m, n, b) \/ Resent(m, n, b) \/ Ends(m, n, b)
  <2> SUFFICES ASSUME Ended(m, b)
               PROVE  WentOn(m, n, b) \/ Resent(m, n, b) \/ Ends(m, n, b)
    OBVIOUS
  <2>1. m.radio = "IDLE"
    BY DEF Ended
  <2>2. \/ Concluded(a, n, b)
        \/ Scheduled(a, n, b) /\ ~n.mcpsInd
        \/ OnlyCheck(a, n)
    BY <1>4, <1>6, <1>7, LookUnconfirmed, LookConfirmed DEF n
  <2> QED BY <1>9, <1>10, <1>11, <2>1, <2>2
<1>15. WentOn(m, n, b) \/ Resent(m, n, b) \/ Ends(m, n, b)
  BY <1>12, <1>13, <1>14 DEF Active
<1> QED BY <1>2, <1>15 DEF d

\* A second passes.
LEMMA TickPhase ==
  ASSUME NEW m \in MacShape, NEW b, Active(m, b), \A t \in Timers : m.timer[t] # 0,
         NEW n,
         n = [m EXCEPT !.timer = [t \in Timers |-> IF m.timer[t] = Off THEN Off
                                                   ELSE m.timer[t] - 1]]
  PROVE  WentOn(m, n, b)
<1> DEFINE c == [t \in Timers |-> IF m.timer[t] = Off THEN Off ELSE m.timer[t] - 1]
<1>1. \A t \in Timers : m.timer[t] \in Countdowns
  BY CounterTypes
<1>2. \A t \in Timers : c[t] \in Countdowns /\ (c[t] = Off <=> m.timer[t] = Off)
  <2>1. \A v \in Countdowns : v # 0 /\ v # Off => v - 1 \in Countdowns /\ v - 1 # Off
    BY CountdownFacts DEF Off
  <2> QED BY <1>1, <2>1, CountdownFacts
<1>3. c["rx1"] # Off /\ c["rx2"] # Off /\ m.timer["rx1"] < m.timer["rx2"] => c["rx1"] < c["rx2"]
  <2>1. {"rx1", "rx2"} \subseteq Timers
    BY DEF Timers
  <2>2. \A t \in {"rx1", "rx2"} : c[t] # Off => c[t] = m.timer[t] - 1 /\ m.timer[t] \in Nat
    BY <1>1, <1>2, <2>1, CountdownFacts
  <2> QED BY <2>2
<1>4. c \in [Timers -> Countdowns]
  BY <1>2
<1> HIDE DEF c
<1>5. Same(m, n) /\ n.radio = m.radio /\ n.rxSlot = m.rxSlot /\ n.timer = c
  <2>1. n = [m EXCEPT !.timer = c]
    BY DEF c
  <2> QED BY <1>4, <2>1 DEF Same, MacShape, SameFrame, SameFlags, SameResult
<1>6. Frame(n, b) /\ (~n.macDone => ~n.mcpsInd)
  BY <1>5, FrameKept DEF Active, Same, SameFlags, SameResult, Frame
<1>7. \A T : AllOff(m, T) /\ T \subseteq Timers => AllOff(n, T)
  BY <1>2, <1>5 DEF AllOff
<1>8. /\ ToSend(m, b) => ToSend(n, b)
      /\ OnAir(m, b) => OnAir(n, b)
      /\ Sent(m, b) => Sent(n, b)
  BY <1>5 DEF Same, SameFrame, SameResult, ToSend, OnAir, Sent
<1>9. \A t \in {"ack", "rx1", "rx2"} : n.timer[t] = Off <=> m.timer[t] = Off
  BY <1>2, <1>5 DEF Timers
<1>10. AskedOnce(m) => AskedOnce(n)
  BY <1>5, <1>9 DEF Same, SameFrame, SameFlags, AskedOnce
<1>11. Delaying(m, b) => Delaying(n, b)
  BY <1>5, <1>7, <1>8 DEF Delaying, Going, Same, SameFlags, SameResult
<1>12. Sending(m, b) => Sending(n, b)
  BY <1>5, <1>7, <1>8 DEF Sending, Going, Same, SameFlags, SameResult
<1>13. Receiving(m, b) => Receiving(n, b)
  <2>1. {"txDelayed", "txTimeout"} \subseteq Timers
    BY DEF Timers
  <2> QED BY <1>3, <1>5, <1>7, <1>8, <1>9, <1>10, <2>1
          DEF Receiving, Going, Same, SameFlags, SameResult
<1>14. Failed(m, b) => Failed(n, b)
  BY <1>5, <1>7, <1>8 DEF Failed, Same, SameFlags, SameResult
<1>15. Ended(m, b) => Ended(n, b)
  BY <1>5, <1>7, <1>8, <1>9, <1>10 DEF Ended, Same, SameFrame, SameFlags, SameResult
<1>16. Active(n, b)
  BY <1>6, <1>11, <1>12, <1>13, <1>14, <1>15 DEF Active
<1> QED BY <1>5, <1>16 DEF WentOn, Same
-----------------------------------------------------------------------------
(* What a step does, seen from the request.                                *)

ClassAInv == MacInv /\ BuiltOk /\ Phases

Busy == mac.mcpsReq \/ caller.step \in {"prepared", "scheduled"}

\* Nothing is sent or confirmed; an acknowledgement may be heard.
Stays ==
    /\ mac'.trials = mac.trials /\ mac'.upLink = mac.upLink
    /\ mac.mcpsReq => mac'.mcpsReq
    /\ Busy' <=> Busy
    /\ built'.type = built.type /\ built'.acked \in {built.acked, TRUE}
    /\ mac.radio = "TX" => \/ mac'.radio = "TX"
                           \/ \E d \in AckDelays : TxDone(d)
                           \/ Expire("txTimeout")

\* PrepareFrame: a new frame.
Begins ==
    /\ ~Busy /\ Busy'
    /\ mac.mcpsReq = FALSE
    /\ mac'.trials = 0 /\ mac'.upLink = 0 /\ mac.radio = "IDLE"
    /\ built'.type \in Types /\ built'.acked = FALSE

Sends ==
    /\ Busy /\ Busy' /\ UNCHANGED built
    /\ Scheduled(mac, mac', built) /\ mac.radio = "IDLE"

Confirms ==
    /\ mac.mcpsReq /\ Busy' = FALSE /\ mac.upLink = 0 /\ UNCHANGED built
    /\ Concluded(mac, mac', built) /\ mac.radio = "IDLE"

Outcome == Stays \/ Begins \/ Sends \/ Confirms

\* Between two requests nothing of the radio or of the timers is under way.
LEMMA Interrupted ==
  ASSUME ClassAInv, mac.radio # "IDLE" \/ \E t \in Timers : mac.timer[t] # Off,
         caller.step # "scheduled"
  PROVE  mac.mcpsReq /\ caller = Out /\ Active(mac, built)
<1>1. ~Quiet(mac)
  BY DEF Quiet, AllOff
<1>2. caller.step \in {"out", "checked", "prepared", "scheduled"}
  BY DEF ClassAInv, MacInv
<1> QED BY <1>1, <1>2 DEF ClassAInv, Phases

\* The interrupts that leave a request under way.
LEMMA GoesOn ==
  ASSUME ClassAInv, mac.mcpsReq, caller = Out, UNCHANGED caller,
         mac' \in MacShape, SameFrame(mac, mac'), Active(mac', built'),
         built'.type = built.type, built'.acked \in {built.acked, TRUE},
         mac.radio = "TX" => \/ mac'.radio = "TX"
                             \/ \E d \in AckDelays : TxDone(d)
                             \/ Expire("txTimeout")
  PROVE  Phases' /\ Stays
<1>1. mac'.mcpsReq /\ caller' = Out
  BY DEF SameFrame
<1>2. Phases'
  BY <1>1 DEF Phases, Out
<1>3. Busy /\ Busy'
  BY <1>1 DEF Busy
<1>4. Stays
  BY <1>1, <1>3 DEF Stays, SameFrame
<1> QED BY <1>2, <1>4

LEMMA TxDonePhases ==
  ASSUME PoliteClassA, ClassAInv, NEW d \in AckDelays, TxDone(d)
  PROVE  Phases' /\ Outcome
<1>1. mac.radio = "TX" /\ caller = Out /\ mac' = OnRadioTxDone(FrameSent(mac), d)
      /\ built' = [built EXCEPT !.aired = TRUE] /\ UNCHANGED caller
  BY DEF TxDone
<1>2. mac.mcpsReq /\ Active(mac, built)
  BY <1>1, Interrupted DEF Out
<1>3. Frame(mac, built) /\ Sending(mac, built) /\ ~mac.mcpsInd /\ mac \in MacShape
  BY <1>1, <1>2 DEF Active, Delaying, Sending, Receiving, Failed, Ended, Going, ClassAInv, MacInv
<1>4. built'.type = built.type /\ built'.acked = built.acked /\ built'.datarate = built.datarate
  BY <1>1 DEF ClassAInv, BuiltOk
<1>5. mac' \in MacShape /\ SameFrame(mac, mac') /\ Active(mac', built')
  BY <1>1, <1>3, <1>4, TxDonePhase DEF PoliteClassA
<1> QED BY <1>1, <1>2, <1>4, <1>5, GoesOn DEF Outcome

LEMMA RxDonePhases ==
  ASSUME PoliteClassA, ClassAInv, NEW frame \in Frames, RxDone(frame)
  PROVE  Phases' /\ Outcome
<1>1. mac.radio = "RX" /\ mac' = OnRadioRxDone(FrameReceived(mac), frame)
      /\ built' = [built EXCEPT !.acked = @ \/ frame = "ack"] /\ UNCHANGED caller
  BY DEF RxDone
<1>2. caller.step # "scheduled"
  BY <1>1 DEF ClassAInv, Phases, Delaying, Sending
<1>3. mac.mcpsReq /\ caller = Out /\ Active(mac, built)
  BY <1>1, <1>2, Interrupted
<1>4. Frame(mac, built) /\ Receiving(mac, built) /\ mac \in MacShape
  BY <1>1, <1>3 DEF Active, Delaying, Sending, Failed, Ended, ClassAInv, MacInv
<1>5. /\ built'.type = built.type /\ built'.datarate = built.datarate
      /\ built'.acked = (built.acked \/ frame = "ack")
  BY <1>1 DEF ClassAInv, BuiltOk
<1>6. built'.acked \in {built.acked, TRUE}
  BY <1>5 DEF ClassAInv, BuiltOk
<1>7. mac' \in MacShape /\ SameFrame(mac, mac') /\ Active(mac', built')
  BY <1>1, <1>4, <1>5, RxDonePhase DEF PoliteClassA
<1> QED BY <1>1, <1>3, <1>5, <1>6, <1>7, GoesOn DEF Outcome

LEMMA RxErrorPhases ==
  ASSUME PoliteClassA, ClassAInv, RxError \/ RxTimeout
  PROVE  Phases' /\ Outcome
<1>1. mac.radio = "RX" /\ UNCHANGED <<caller, built>>
      /\ mac' \in {OnRadioRxError(FrameReceived(mac)), OnRadioRxTimeout(SymbolTimeout(mac))}
  BY DEF RxError, RxTimeout
<1>2. caller.step # "scheduled"
  BY <1>1 DEF ClassAInv, Phases, Delaying, Sending
<1>3. mac.mcpsReq /\ caller = Out /\ Active(mac, built)
  BY <1>1, <1>2, Interrupted
<1>4. Frame(mac, built) /\ Receiving(mac, built) /\ mac \in MacShape
  BY <1>1, <1>3 DEF Active, Delaying, Sending, Failed, Ended, ClassAInv, MacInv
<1>5. mac' \in MacShape /\ SameFrame(mac, mac') /\ Active(mac', built)
  BY <1>1, <1>4, RxErrorPhase DEF PoliteClassA
<1> QED BY <1>1, <1>3, <1>5, GoesOn DEF Outcome

\* After ScheduleTx in an interrupt.
LEMMA SentOn ==
  ASSUME ClassAInv, mac.mcpsReq, caller = Out, UNCHANGED <<caller, built>>,
         Scheduled(mac, mac', built), ~mac'.mcpsInd, mac.radio = "IDLE"
  PROVE  Phases' /\ Sends
<1>1. mac'.mcpsReq /\ caller' = Out /\ built' = built
  BY DEF Scheduled
<1>2. Active(mac', built')
  BY <1>1 DEF Scheduled, Active
<1>3. Phases'
  BY <1>1, <1>2 DEF Phases, Out
<1> QED BY <1>1, <1>3 DEF Sends, Busy

LEMMA TickPhases ==
  ASSUME PoliteClassA, ClassAInv, Tick
  PROVE  Phases' /\ Outcome
<1>1. /\ mac' = [mac EXCEPT !.timer = [t \in Timers |-> IF mac.timer[t] = Off THEN Off
                                                        ELSE mac.timer[t] - 1]]
      /\ caller = Out /\ UNCHANGED <<caller, built>>
      /\ \A t \in Timers : mac.timer[t] # 0
      /\ \E t \in Timers : mac.timer[t] # Off
  BY DEF Tick
<1>2. mac.mcpsReq /\ Active(mac, built) /\ mac \in MacShape
  BY <1>1, Interrupted DEF Out, ClassAInv, MacInv
<1>3. WentOn(mac, mac', built)
  BY <1>1, <1>2, TickPhase
<1> QED BY <1>1, <1>2, <1>3, GoesOn DEF WentOn, Outcome

LEMMA ExpirePhases ==
  ASSUME PoliteClassA, ClassAInv, NEW t \in Timers, Expire(t)
  PROVE  Phases' /\ Outcome
<1> DEFINE m == Disarm(mac, t)
<1>1. mac.timer[t] = 0 /\ UNCHANGED <<caller, built>>
  BY DEF Expire
<1>2. PICK off1 \in TimeOffs, off2 \in TimeOffs :
        mac' = CASE t = "check"     -> OnMacStateCheck(m, <<off1, off2>>)
                 [] t = "txDelayed" -> OnTxDelayed(m, off1)
                 [] t = "rx1"       -> OnRxWindow1(m)
                 [] t = "rx2"       -> OnRxWindow2(m)
                 [] t = "ack"       -> OnAckTimeout(m)
                 [] OTHER           -> OnTimeoutIrq(m)
  BY DEF Expire
<1>3. caller.step # "scheduled" /\ 0 # Off
  BY <1>1 DEF ClassAInv, Phases, Off
<1>4. mac.mcpsReq /\ caller = Out /\ Active(mac, built)
  BY <1>1, <1>3, Interrupted
<1>5. mac \in MacShape /\ Frame(mac, built) /\ built.datarate \in 0 .. MaxDatarate
  BY <1>4 DEF ClassAInv, MacInv, BuiltOk, Active
<1>6. CASE t = "check"
  <2>1. WentOn(mac, mac', built) \/ Resent(mac, mac', built) \/ Ends(mac, mac', built)
    BY <1>2, <1>4, <1>5, <1>6, CheckPhase
  <2>2. CASE WentOn(mac, mac', built)
    BY <1>1, <1>4, <2>2, GoesOn DEF WentOn, Outcome
  <2>3. CASE Resent(mac, mac', built)
    BY <1>1, <1>4, <2>3, SentOn DEF Resent, Outcome
  <2>4. CASE Ends(mac, mac', built)
    <3>1. Concluded(mac, mac', built) /\ mac.radio = "IDLE" /\ caller' = Out
          /\ UNCHANGED built
      BY <1>1, <1>4, <2>4 DEF Ends
    <3>2. Phases'
      BY <3>1 DEF Concluded, Phases, Out
    <3>3. Busy' = FALSE
      BY <3>1 DEF Concluded, Busy, Out
    <3>4. mac.upLink = 0
      BY <1>5 DEF Frame
    <3> QED BY <1>4, <3>1, <3>2, <3>3, <3>4 DEF Confirms, Outcome
  <2> QED BY <2>1, <2>2, <2>3, <2>4
<1>7. CASE t = "txDelayed"
  <2>1. Delaying(mac, built) /\ ~mac.mcpsInd /\ mac.radio = "IDLE"
    BY <1>1, <1>3, <1>4, <1>7
       DEF Active, Delaying, Sending, Receiving, Failed, Ended, Going, AllOff, Timers
  <2>2. Scheduled(mac, mac', built)
    BY <1>2, <1>5, <1>7, <2>1, TxDelayedPhase
  <2>3. ~mac'.mcpsInd
    BY <2>1, <2>2 DEF Scheduled
  <2> QED BY <1>1, <1>4, <2>1, <2>2, <2>3, SentOn DEF Outcome
<1>8. CASE t \in {"rx1", "rx2", "rxTimeout"}
  <2>1. Receiving(mac, built)
    BY <1>1, <1>3, <1>4, <1>8
       DEF Active, Delaying, Sending, Failed, Ended, AllOff, Timers
  <2>2. mac' \in MacShape /\ SameFrame(mac, mac') /\ Active(mac', built)
    <3>1. CASE t = "rxTimeout"
      BY <1>2, <1>5, <2>1, <3>1, RxTimeoutPhase DEF PoliteClassA
    <3>2. CASE t \in {"rx1", "rx2"}
      <4>1. mac' = IF t = "rx1" THEN OnRxWindow1(m) ELSE OnRxWindow2(m)
        BY <1>2, <3>2
      <4> QED BY <1>1, <1>5, <2>1, <3>2, <4>1, WindowOpens DEF PoliteClassA
    <3> QED BY <1>8, <3>1, <3>2
  <2>3. mac.radio # "TX"
    BY <2>1 DEF Receiving
  <2> QED BY <1>1, <1>4, <2>2, <2>3, GoesOn DEF Outcome
<1>9. CASE t = "ack"
  <2>1. Receiving(mac, built) \/ Ended(mac, built)
    BY <1>1, <1>3, <1>4, <1>9 DEF Active, Delaying, Sending, Failed, AllOff, Timers
  <2>2. mac' = OnAckTimeout(Disarm(mac, "ack"))
    BY <1>2, <1>9
  <2>3. mac' \in MacShape /\ SameFrame(mac, mac') /\ Active(mac', built)
    BY <1>1, <1>5, <1>9, <2>1, <2>2, AckTimeoutPhase DEF PoliteClassA
  <2>4. mac.radio # "TX"
    BY <2>1 DEF Receiving, Ended
  <2> QED BY <1>1, <1>4, <2>3, <2>4, GoesOn DEF Outcome
<1>10. CASE t = "txTimeout"
  <2>1. Sending(mac, built) /\ ~mac.mcpsInd
    BY <1>1, <1>3, <1>4, <1>10
       DEF Active, Delaying, Sending, Receiving, Failed, Ended, Going, AllOff, Timers
  <2>2. mac' = OnTimeoutIrq(Disarm(mac, "txTimeout"))
    BY <1>2, <1>10
  <2>3. mac' \in MacShape /\ SameFrame(mac, mac') /\ Active(mac', built)
    BY <1>5, <2>1, <2>2, TxTimeoutPhase DEF PoliteClassA
  <2>4. Expire("txTimeout")
    BY <1>10
  <2> QED BY <1>1, <1>4, <2>3, <2>4, GoesOn DEF Outcome
<1> QED BY <1>6, <1>7, <1>8, <1>9, <1>10 DEF Timers
-----------------------------------------------------------------------------
(* The steps of the request itself.                                        *)

LEMMA RequestPhases ==
  ASSUME PoliteClassA, ClassAInv, NEW type \in Types, Request(type)
  PROVE  Phases' /\ Outcome
<1> DEFINE r == IF type = "confirmed" THEN NbTrials ELSE 1
           k == IF type = "confirmed" THEN 1 ELSE mac.ackRetriesCounter
<1>1. mac' = [mac EXCEPT !.status = "ERROR", !.ackReceived = FALSE,
                         !.ackRetries = r, !.ackRetriesCounter = k]
  BY DEF Request, ClassAInv, MacInv, MacShape
<1>2. caller = Out /\ ~mac.mcpsReq /\ caller' = [step |-> "checked", type |-> type]
      /\ UNCHANGED built
  BY DEF Request, PoliteClassA
<1> HIDE DEF r, k
<1>3. /\ ~mac'.ackReceived /\ mac'.ackRetries = r /\ mac'.ackRetriesCounter = k
      /\ mac'.mcpsReq = mac.mcpsReq /\ mac'.radio = mac.radio /\ mac'.timer = mac.timer
      /\ SameFlags(mac, mac') /\ mac'.nbRepCounter = mac.nbRepCounter
      /\ mac'.trials = mac.trials /\ mac'.upLink = mac.upLink
  BY <1>1 DEF ClassAInv, MacInv, MacShape, SameFlags
<1>4. Quiet(mac)
  BY <1>2 DEF ClassAInv, Phases, Out
<1>5. Quiet(mac')
  BY <1>3, <1>4 DEF Quiet, SameFlags, AllOff
<1>6. Phases'
  BY <1>2, <1>3, <1>5 DEF Phases, r, k
<1>7. ~Busy /\ ~Busy'
  BY <1>2, <1>3 DEF Busy, Out
<1>8. Stays
  BY <1>2, <1>3, <1>4, <1>7 DEF Stays, Quiet
<1> QED BY <1>6, <1>8 DEF Outcome

LEMMA PrepareFramePhases ==
  ASSUME PoliteClassA, ClassAInv, PrepareFrame
  PROVE  Phases' /\ Outcome
<1> DEFINE a == caller.type = "confirmed"
<1>1. /\ mac' = [mac EXCEPT !.nodeAckRequested = a, !.upLink = 0, !.trials = 0]
      /\ built' = [type |-> caller.type, aired |-> FALSE, acked |-> FALSE,
                   datarate |-> mac.datarate]
      /\ caller.step = "checked" /\ caller' = [caller EXCEPT !.step = "prepared"]
  BY DEF PrepareFrame
<1>2. /\ caller.type \in Types /\ ~mac.mcpsReq /\ Quiet(mac) /\ ~mac.ackReceived
      /\ caller.type = "confirmed" => mac.ackRetries = NbTrials /\ mac.ackRetriesCounter = 1
  BY <1>1 DEF ClassAInv, Phases
<1>3. caller'.step = "prepared" /\ caller'.type = caller.type
  BY <1>1 DEF ClassAInv, MacInv
<1>4. a \in BOOLEAN
  OBVIOUS
<1> HIDE DEF a
<1>5. /\ mac'.nodeAckRequested = a /\ mac'.upLink = 0 /\ mac'.trials = 0
      /\ mac'.mcpsReq = mac.mcpsReq /\ mac'.radio = mac.radio /\ mac'.timer = mac.timer
      /\ SameFlags(mac, mac') /\ SameResult(mac, mac') /\ mac'.datarate = mac.datarate
      /\ mac'.ackRetries = mac.ackRetries /\ mac'.ackRetriesCounter = mac.ackRetriesCounter
  BY <1>1, <1>4 DEF ClassAInv, MacInv, MacShape, SameFlags, SameResult
<1>6. Quiet(mac')
  BY <1>2, <1>5 DEF Quiet, SameFlags, SameResult, AllOff
<1>7. mac \in MacShape
  BY DEF ClassAInv, MacInv
<1>8. Frame(mac', built')
  <2>1. mac.datarate \in Nat
    BY <1>7, CounterTypes
  <2>2. Lowered(mac.datarate, 1) = mac.datarate
    <3> DEFINE z == (1 - 1) \div 2
    <3>1. z = 0
      OBVIOUS
    <3>2. Lowered(mac.datarate, 1) = IF mac.datarate - z < 0 THEN 0 ELSE mac.datarate - z
      BY DEF Lowered
    <3> QED BY <2>1, <3>1, <3>2
  <2>3. /\ built'.type = caller.type /\ built'.acked = FALSE /\ built'.datarate = mac.datarate
    BY <1>1
  <2>4. a <=> built'.type = "confirmed"
    BY <2>3 DEF a
  <2> QED BY <1>2, <1>5, <2>2, <2>3, <2>4 DEF Frame, SameResult
<1>9. ToSend(mac', built')
  <2>1. caller.type = "confirmed" => AtMost(mac'.ackRetriesCounter - 1, MaxTrials) = 0
    BY <1>2, <1>5, MacAssumption DEF AtMost
  <2>2. mac'.nbRepCounter \in Nat /\ mac'.nbRepCounter < ChannelsNbRep
    BY <1>2, <1>5, <1>7, CounterTypes DEF SameResult, Quiet
  <2> QED BY <1>1, <1>5, <2>1, <2>2 DEF ToSend
<1>10. Phases'
  BY <1>2, <1>3, <1>5, <1>6, <1>8, <1>9 DEF Phases, SameResult
<1>11. ~Busy /\ Busy'
  BY <1>1, <1>2, <1>3 DEF Busy
<1>12. Begins
  BY <1>1, <1>2, <1>5, <1>7, <1>11 DEF Begins, Quiet, MacShape
<1> QED BY <1>10, <1>12 DEF Outcome

LEMMA RefuseFramePhases ==
  ASSUME PoliteClassA, ClassAInv, RefuseFrame
  PROVE  Phases' /\ Outcome
<1>1. mac' = [mac EXCEPT !.nodeAckRequested = FALSE] /\ caller' = Out /\ UNCHANGED built
      /\ caller.step = "checked"
  BY DEF RefuseFrame
<1>2. ~mac.mcpsReq /\ Quiet(mac)
  BY <1>1 DEF ClassAInv, Phases
<1>3. /\ mac'.mcpsReq = mac.mcpsReq /\ mac'.radio = mac.radio /\ mac'.timer = mac.timer
      /\ SameFlags(mac, mac') /\ mac'.nbRepCounter = mac.nbRepCounter
      /\ mac'.trials = mac.trials /\ mac'.upLink = mac.upLink
  BY <1>1 DEF ClassAInv, MacInv, MacShape, SameFlags
<1>4. Quiet(mac')
  BY <1>2, <1>3 DEF Quiet, SameFlags, AllOff
<1>5. Phases'
  BY <1>1, <1>2, <1>3, <1>4 DEF Phases, Out
<1>6. ~Busy /\ ~Busy'
  BY <1>1, <1>2, <1>3 DEF Busy, Out
<1>7. Stays
  BY <1>1, <1>2, <1>3, <1>6 DEF Stays, Quiet
<1> QED BY <1>5, <1>7 DEF Outcome

LEMMA StartSendingPhases ==
  ASSUME PoliteClassA, ClassAInv, NEW off \in TimeOffs, StartSending(off)
  PROVE  Phases' /\ Outcome
<1> DEFINE s == [mac EXCEPT !.ackReceived = FALSE]
<1>1. mac' = ScheduleTx(s, off) /\ UNCHANGED built /\ caller.step = "prepared"
      /\ caller' = [caller EXCEPT !.step = "scheduled"]
  BY DEF StartSending
<1>2. /\ caller.type \in Types /\ ~mac.mcpsReq /\ Quiet(mac) /\ ~mac.ackReceived
      /\ Frame(mac, built) /\ ToSend(mac, built)
  BY <1>1 DEF ClassAInv, Phases
<1>3. caller'.step = "scheduled" /\ caller'.type = caller.type
  BY <1>1 DEF ClassAInv, MacInv
<1>4. s = mac
  BY <1>2 DEF ClassAInv, MacInv, MacShape
<1>5. mac \in MacShape /\ mac' = ScheduleTx(mac, off)
  BY <1>1, <1>4 DEF ClassAInv, MacInv
<1> HIDE DEF s
<1>6. Ready(mac, built)
  BY <1>2 DEF Ready, Quiet, Going, AllOff
<1>7. mac.timer["check"] # 0
  BY <1>2 DEF Quiet, AllOff, Timers, Off
<1>8. Scheduled(mac, mac', built) /\ \A t \in Timers : mac'.timer[t] # 0
  BY <1>5, <1>6, <1>7, ScheduleTxPhase
<1>9. Phases'
  BY <1>1, <1>2, <1>3, <1>8 DEF Phases, Scheduled, Quiet
<1>10. Busy /\ Busy'
  BY <1>1, <1>3 DEF Busy
<1>11. Sends
  BY <1>1, <1>2, <1>8, <1>10 DEF Sends, Quiet
<1> QED BY <1>9, <1>11 DEF Outcome

LEMMA RequestTakenPhases ==
  ASSUME PoliteClassA, ClassAInv, RequestTaken
  PROVE  Phases' /\ Outcome
<1>1. mac' = [mac EXCEPT !.mcpsReq = TRUE] /\ caller' = Out /\ UNCHANGED built
      /\ caller.step = "scheduled"
  BY DEF RequestTaken
<1>2. /\ ~mac.mcpsInd /\ Frame(mac, built)
      /\ Delaying(mac, built) \/ Sending(mac, built)
  BY <1>1 DEF ClassAInv, Phases
<1>3. /\ mac'.mcpsReq /\ mac'.radio = mac.radio /\ mac'.timer = mac.timer
      /\ SameFlags(mac, mac') /\ SameResult(mac, mac')
      /\ mac'.trials = mac.trials /\ mac'.upLink = mac.upLink
      /\ mac'.nodeAckRequested = mac.nodeAckRequested
      /\ mac'.ackRetries = mac.ackRetries /\ mac'.ackRetriesCounter = mac.ackRetriesCounter
      /\ mac'.datarate = mac.datarate
  BY <1>1 DEF ClassAInv, MacInv, MacShape, SameFlags, SameResult
<1>4. Frame(mac', built) /\ ~mac'.mcpsInd
  BY <1>2, <1>3 DEF Frame, SameFlags, SameResult
<1>5. Delaying(mac, built) => Delaying(mac', built)
  BY <1>3 DEF Delaying, Going, ToSend, AllOff, SameFlags, SameResult
<1>6. Sending(mac, built) => Sending(mac', built)
  BY <1>3 DEF Sending, Going, OnAir, AllOff, SameFlags, SameResult
<1>7. Active(mac', built')
  BY <1>1, <1>2, <1>4, <1>5, <1>6 DEF Active
<1>8. Phases'
  BY <1>1, <1>3, <1>7 DEF Phases, Out
<1>9. Busy /\ Busy'
  BY <1>1, <1>3 DEF Busy
<1>10. Stays
  BY <1>1, <1>3, <1>9 DEF Stays
<1> QED BY <1>8, <1>10 DEF Outcome

LEMMA ClassAStep ==
  ASSUME PoliteClassA, ClassAInv, [Next]_vars
  PROVE  ClassAInv' /\ Outcome
<1>1. MacInv' /\ BuiltOk'
  BY StepInv, BuiltStep DEF ClassAInv
<1>2. CASE UNCHANGED vars
  <2>1. Phases'
    BY <1>2 DEF ClassAInv, Phases, vars
  <2>2. Stays
    BY <1>2 DEF Stays, Busy, vars
  <2> QED BY <1>1, <2>1, <2>2 DEF ClassAInv, Outcome
<1>3. CASE Next
  <2>1. Phases' /\ Outcome
    BY <1>3, RequestPhases, PrepareFramePhases, RefuseFramePhases, RequestTakenPhases,
       StartSendingPhases, TxDonePhases, RxDonePhases, RxErrorPhases, ExpirePhases,
       TickPhases DEF Next
  <2> QED BY <1>1, <2>1 DEF ClassAInv
<1> QED BY <1>2, <1>3

LEMMA ClassAInit ==
  ASSUME PoliteClassA, Init
  PROVE  ClassAInv /\ ~mac.mcpsReq /\ mac.trials = 0
<1>1. PICK d \in 0 .. MaxDatarate :
        mac = SleepOrListen(
              [txRunning |-> FALSE, txDelayed |-> FALSE, macDone |-> FALSE,
               mcpsReq |-> FALSE, mcpsInd |-> FALSE, nodeAckRequested |-> FALSE,
               ackTimeoutRetry |-> FALSE, ackRetriesCounter |-> 1, ackRetries |-> 1,
               nbRepCounter |-> 0, upLink |-> MaxAhead, trials |-> 0, datarate |-> d,
               status |-> "ERROR", mlmeTimeout |-> FALSE, ackReceived |-> FALSE,
               rxSlot |-> 0, radio |-> "IDLE", continuous |-> FALSE,
               timer |-> [t \in Timers |-> Off]])
  BY DEF Init
<1> DEFINE z == [txRunning |-> FALSE, txDelayed |-> FALSE, macDone |-> FALSE,
               mcpsReq |-> FALSE, mcpsInd |-> FALSE, nodeAckRequested |-> FALSE,
               ackTimeoutRetry |-> FALSE, ackRetriesCounter |-> 1, ackRetries |-> 1,
               nbRepCounter |-> 0, upLink |-> MaxAhead, trials |-> 0, datarate |-> d,
               status |-> "ERROR", mlmeTimeout |-> FALSE, ackReceived |-> FALSE,
               rxSlot |-> 0, radio |-> "IDLE", continuous |-> FALSE,
               timer |-> [t \in Timers |-> Off]]
<1>2. z \in MacShape
  <2>1. /\ 1 \in 1 .. NbTrials /\ 0 \in 0 .. ChannelsNbRep
        /\ MaxAhead \in 0 .. MaxAhead /\ 0 \in 0 .. MaxTrials
    BY MacAssumption
  <2>2. [t \in Timers |-> Off] \in [Timers -> Countdowns]
    BY CountdownFacts
  <2> QED BY <2>1, <2>2 DEF MacShape, Statuses
<1>3. /\ ~z.txRunning /\ ~z.txDelayed /\ ~z.mcpsReq /\ ~z.mcpsInd
      /\ ~z.macDone /\ ~z.ackTimeoutRetry /\ z.nbRepCounter = 0 /\ z.trials = 0
      /\ \A t \in Timers : z.timer[t] = Off
  OBVIOUS
<1>4. mac = SetStby(z)
  BY <1>1 DEF PoliteClassA, SleepOrListen, SetSleep
<1> HIDE DEF z
<1>5. Same(z, mac) /\ mac.radio = "IDLE" /\ Stopped(z, mac, {"rxTimeout", "txTimeout"})
  BY <1>2, <1>4, SetStbySame
<1>6. Quiet(mac) /\ ~mac.mcpsReq /\ mac.trials = 0
  <2>1. mac.nbRepCounter < ChannelsNbRep
    BY <1>3, <1>5, MacAssumption DEF Same, SameResult
  <2>2. AllOff(mac, Timers)
    BY <1>3, <1>5 DEF AllOff, Stopped
  <2> QED BY <1>3, <1>5, <2>1, <2>2 DEF Quiet, Same, SameFrame, SameFlags
<1>7. caller = Out
  BY DEF Init
<1>8. Phases
  BY <1>6, <1>7 DEF Phases, Out
<1>9. BuiltOk
  BY DEF Init, BuiltOk
<1> QED BY <1>6, <1>8, <1>9, InitInv DEF ClassAInv

LEMMA ClassAHolds ==
  ASSUME PoliteClassA
  PROVE  Spec => []ClassAInv /\ [][ClassAInv /\ Outcome]_vars
<1>1. Init => ClassAInv
  BY ClassAInit
<1>2. ClassAInv /\ [Next]_vars => ClassAInv' /\ ClassAInv /\ Outcome
  BY ClassAStep
<1> QED BY <1>1, <1>2, PTL DEF Spec
-----------------------------------------------------------------------------
(* What the outcomes mean for the properties.                              *)

\* The k-th transmission of a confirmed frame goes out with the datarate of the
\* table in LoRaMac.h, (k - 1) / 2 below the first one and DR_0 at the least:
\* OnMacStateCheckTimerEvent lowers it once for every second trial, whatever
\* receptions, time-outs and delays come between the trials.
THEOREM DatarateFollowsTable ==
  ASSUME PoliteClassA
  PROVE  Spec => DatarateOfTrial
<1> DEFINE Rate == mac'.trials > mac.trials /\ built.type = "confirmed" =>
                     LET lower == built.datarate - (mac'.trials - 1) \div 2
                     IN  mac'.datarate = IF lower < 0 THEN 0 ELSE lower
<1>1. ClassAInv /\ Outcome => Rate
  <2> SUFFICES ASSUME ClassAInv, Outcome, mac'.trials > mac.trials,
                      built.type = "confirmed"
               PROVE  mac'.datarate = Lowered(built.datarate, mac'.trials)
    BY DEF Lowered
  <2>1. mac.trials \in Nat
    BY CounterTypes DEF ClassAInv, MacInv
  <2>2. mac'.trials # mac.trials /\ mac'.trials # 0
    BY <2>1
  <2>3. Sends
    BY <2>2 DEF Outcome, Stays, Begins, Confirms, Concluded
  <2> QED BY <2>3 DEF Sends, Scheduled, Frame
<1>2. Spec => [][Rate]_vars
  BY <1>1, ClassAHolds, PTL
<1> QED BY <1>2 DEF DatarateOfTrial

\* McpsConfirm.AckReceived, when the confirm is posted, says whether one of the
\* receptions since the request acknowledged this frame: the flag is neither
\* left from an earlier request nor lost between a reception and the check.
THEOREM ConfirmTellsTheAck ==
  ASSUME PoliteClassA
  PROVE  Spec => ConfirmTellsAck
<1> DEFINE Tells == mac.mcpsReq /\ ~mac'.mcpsReq => (mac'.ackReceived <=> built.acked)
<1>1. ClassAInv /\ Outcome => Tells
  BY DEF Outcome, Stays, Begins, Sends, Scheduled, Confirms, Concluded
<1>2. Spec => [][Tells]_vars
  BY <1>1, ClassAHolds, PTL
<1> QED BY <1>2 DEF ConfirmTellsAck

\* UpLinkCounter moves when the request of a frame is confirmed, and only then:
\* the transmissions of a frame all carry its number, and a frame that was on
\* the air leaves its number to no other, unless its transmission timed out.
\* MaxAhead is the model's bound on how far upLink counts; at 0 it hides it.
THEOREM FramesAreCounted ==
  ASSUME PoliteClassA, MaxAhead > 0
  PROVE  Spec => CountedOnConfirm
<1> DEFINE Counted ==
             /\ mac'.upLink > mac.upLink => mac.mcpsReq /\ ~mac'.mcpsReq
             /\ mac.mcpsReq /\ ~mac'.mcpsReq /\ built.aired /\ ~TimedOut(mac) =>
                  mac'.upLink > mac.upLink
<1>1. ClassAInv /\ Outcome => Counted
  <2> SUFFICES ASSUME ClassAInv, Outcome PROVE Counted
    OBVIOUS
  <2>1. mac.upLink \in Nat
    BY CounterTypes DEF ClassAInv, MacInv
  <2>2. CASE Stays \/ Begins \/ Sends
    <3>1. mac'.upLink = mac.upLink \/ mac'.upLink = 0
      BY <2>2 DEF Stays, Begins, Sends, Scheduled
    <3>2. ~(mac'.upLink > mac.upLink)
      BY <2>1, <3>1
    <3>3. mac.mcpsReq => mac'.mcpsReq
      BY <2>2 DEF Stays, Begins, Sends, Scheduled
    <3> QED BY <3>2, <3>3
  <2>3. CASE Confirms
    BY <2>3 DEF Confirms, Concluded
  <2> QED BY <2>2, <2>3 DEF Outcome
<1>2. Spec => [][Counted]_vars
  BY <1>1, ClassAHolds, PTL
<1> QED BY <1>2 DEF CountedOnConfirm

\* A transmission ends by TxDone or by the time-out of the radio, and nothing
\* sends over it: no handler of the MAC touches a radio that transmits.
THEOREM TransmissionsRunOut ==
  ASSUME PoliteClassA
  PROVE  Spec => TransmissionRunsOut
<1> DEFINE RunsOut == mac.radio = "TX" =>
                        \/ mac'.radio = "TX" /\ mac'.trials <= mac.trials
                        \/ \E d \in AckDelays : TxDone(d)
                        \/ Expire("txTimeout")
<1>1. ClassAInv /\ Outcome => RunsOut
  <2> SUFFICES ASSUME ClassAInv, Outcome, mac.radio = "TX" PROVE RunsOut
    OBVIOUS
  <2>1. Stays
    BY DEF Outcome, Begins, Sends, Confirms
  <2>2. mac'.trials <= mac.trials
    <3>1. mac.trials \in Nat
      BY CounterTypes DEF ClassAInv, MacInv
    <3> QED BY <2>1, <3>1 DEF Stays
  <2> QED BY <2>1, <2>2 DEF Stays
<1>2. Spec => [][RunsOut]_vars
  BY <1>1, ClassAHolds, PTL
<1> QED BY <1>2 DEF TransmissionRunsOut

\* The transmission cycle implements MacService: a frame is sent NbTrials or
\* ChannelsNbRep times at most, never again once its acknowledgement was heard,
\* and only between its request and its confirm.
THEOREM MacImplementsService ==
  ASSUME PoliteClassA
  PROVE  Spec => ImplementsService
<1>1. Init => Service!Init
  <2> SUFFICES ASSUME Init PROVE Service!Init
    OBVIOUS
  <2>1. ~mac.mcpsReq /\ mac.trials = 0
    BY ClassAInit
  <2> QED BY <2>1 DEF Init, Out, Service!Init
<1>2. ClassAInv /\ Outcome => [Service!Next]_Service!service
  <2> SUFFICES ASSUME ClassAInv, Outcome PROVE [Service!Next]_Service!service
    OBVIOUS
  <2>1. CASE Stays
    <3>1. mac'.trials = mac.trials /\ Busy' = Busy /\ built'.type = built.type
      BY <2>1 DEF Stays, Busy
    <3>2. CASE built'.acked = built.acked
      BY <3>1, <3>2 DEF Service!service, Busy
    <3>3. CASE built'.acked = TRUE
      <4>1. Service!Hear
        BY <3>1, <3>3 DEF Service!Hear, Busy
      <4> QED BY <4>1 DEF Service!Next
    <3> QED BY <2>1, <3>2, <3>3 DEF Stays
  <2>2. CASE Begins
    <3>1. Service!Request(built'.type)
      BY <2>2 DEF Begins, Busy, Service!Request
    <3> QED BY <2>2, <3>1 DEF Begins, Service!Next
  <2>3. CASE Sends
    <3>1. CASE mac'.trials = mac.trials
      BY <2>3, <3>1 DEF Sends, Busy, Service!service
    <3>2. CASE mac'.trials # mac.trials
      <4>1. /\ mac' \in MacShape /\ mac'.trials = AtMost(mac.trials + 1, MaxTrials)
            /\ Frame(mac', built) /\ Sending(mac', built)
        BY <2>3, <3>2 DEF Sends, Scheduled
      <4>2. /\ mac.trials \in 0 .. MaxTrials /\ MaxTrials \in Nat
            /\ mac'.ackRetriesCounter \in 1 .. NbTrials
            /\ mac'.nbRepCounter \in Nat /\ ChannelsNbRep \in Nat /\ NbTrials \in Nat
        BY <4>1, CounterTypes, MacAssumption DEF ClassAInv, MacInv
      <4>3. mac'.trials = mac.trials + 1
        BY <3>2, <4>1, <4>2 DEF AtMost
      <4>4. ~built.acked /\ built.type \in Types /\ OnAir(mac', built)
        BY <4>1 DEF Frame, Sending, Going
      <4> DEFINE limit == [t \in Types |-> IF t = "confirmed" THEN NbTrials
                                          ELSE ChannelsNbRep]
      <4>8. mac.trials < limit[built.type] => Service!Send
        <5>1. Busy /\ Busy' /\ built' = built
          BY <2>3 DEF Sends
        <5> QED BY <4>3, <4>4, <5>1 DEF Service!Send, Busy
      <4>5. CASE built.type = "confirmed"
        <5>1. mac'.trials = AtMost(mac'.ackRetriesCounter, MaxTrials)
          BY <4>4, <4>5 DEF OnAir
        <5>2. mac.trials < NbTrials
          BY <4>2, <4>3, <5>1 DEF AtMost
        <5>3. limit[built.type] = NbTrials
          BY <4>4, <4>5
        <5>4. Service!Send
          BY <4>8, <5>2, <5>3
        <5> QED BY <5>4 DEF Service!Next
      <4>6. CASE built.type # "confirmed"
        <5>1. mac'.trials <= mac'.nbRepCounter + 1 /\ mac'.nbRepCounter < ChannelsNbRep
          BY <4>4, <4>6 DEF OnAir
        <5>2. mac.trials < ChannelsNbRep
          BY <4>2, <4>3, <5>1
        <5>3. limit[built.type] = ChannelsNbRep
          BY <4>4, <4>6
        <5>4. Service!Send
          BY <4>8, <5>2, <5>3
        <5> QED BY <5>4 DEF Service!Next
      <4> QED BY <4>5, <4>6
    <3> QED BY <3>1, <3>2
  <2>4. CASE Confirms
    <3>1. Service!Confirm
      BY <2>4 DEF Confirms, Concluded, Busy, Service!Confirm
    <3> QED BY <3>1 DEF Service!Next
  <2> QED BY <2>1, <2>2, <2>3, <2>4 DEF Outcome
<1>3. UNCHANGED vars => UNCHANGED Service!service
  BY DEF vars, Service!service
<1>4. Spec => Service!Spec
  BY <1>1, <1>2, <1>3, ClassAHolds, PTL DEF Spec, Service!Spec
<1> QED BY <1>4 DEF ImplementsService
=============================================================================
