----------------------------- MODULE AppProofs -----------------------------
(***************************************************************************)
(* Proofs about App, for every queue size, class, limit and choice of      *)
(* delays: the processes send one frame for an event, are neither stranded *)
(* in their back-off nor left asleep by a confirm, and their use of the    *)
(* radio behind the back of the MAC does not stall it.                     *)
(***************************************************************************)
EXTENDS App, RadioProofs

Places == {"yield", "delay", "try", "asking", "refused", "sent", "backoff"}

\* A thread at one of these is the one that runs.
Active == {"delay", "try", "asking", "refused"}

Events == [p : Procs, ev : {"go", "timer"}]

\* What the threads and the kernel keep.
AppShape ==
    /\ at \in [Procs -> Places] /\ running \in Procs \cup {Nobody}
    /\ queue \in Seq(Events) /\ polled \in BOOLEAN
    /\ pending \subseteq Procs /\ flag \in BOOLEAN

\* One thread runs, and it is the one that called the MAC.
OneRuns ==
    /\ \A p \in Procs : at[p] \in Active <=> p = running
    /\ caller # Out => running # Nobody /\ at[running] = "asking"

\* The frame of a turn is counted while its process waits for the confirm.
Counted ==
    /\ frames \in [Procs -> 0 .. 1]
    /\ \A p \in Procs : at[p] # "sent" => frames[p] = 0

\* Only a process that waits has had a confirm.
Woken ==
    /\ confirmed \subseteq {p \in Procs : at[p] = "sent"}
    /\ WokenByConfirm

AppInv == AppShape /\ OneRuns /\ Counted /\ NotStranded /\ Woken

LEMMA ProcsAre == "wakeup" \in Procs /\ "send" \in Procs /\ Nobody \notin Procs
BY DEF Procs, Nobody
-----------------------------------------------------------------------------
(* The queue.                                                              *)

\* A post keeps what was in the queue.
LEMMA PostedOk ==
  ASSUME queue \in Seq(Events), NEW p \in Procs, NEW ev \in {"go", "timer"}
  PROVE  /\ Posted(p, ev) \in Seq(Events)
         /\ \A i \in DOMAIN queue :
              i \in DOMAIN Posted(p, ev) /\ Posted(p, ev)[i] = queue[i]
         /\ Len(queue) < NumEvents =>
              \E i \in DOMAIN Posted(p, ev) : Posted(p, ev)[i].p = p
<1> DEFINE e == [p |-> p, ev |-> ev]
<1>1. e \in Events /\ e.p = p
  BY DEF Events
<1> HIDE DEF e
<1>2. /\ Append(queue, e) \in Seq(Events)
      /\ Len(queue) + 1 \in DOMAIN Append(queue, e)
      /\ Append(queue, e)[Len(queue) + 1] = e
      /\ \A i \in DOMAIN queue : i \in DOMAIN Append(queue, e) /\ Append(queue, e)[i] = queue[i]
  BY <1>1
<1>3. Posted(p, ev) = IF Len(queue) < NumEvents THEN Append(queue, e) ELSE queue
  BY DEF Posted, e
<1> QED BY <1>1, <1>2, <1>3

\* The events behind the first one stay.
LEMMA TailOk ==
  ASSUME queue \in Seq(Events), queue # <<>>
  PROVE  /\ Head(queue) \in Events
         /\ Tail(queue) \in Seq(Events)
         /\ \A i \in DOMAIN queue :
              queue[i] # Head(queue) =>
                \E j \in DOMAIN Tail(queue) : Tail(queue)[j] = queue[i]
<1>1. Head(queue) \in Events /\ Tail(queue) \in Seq(Events)
  OBVIOUS
<1>2. ASSUME NEW i \in DOMAIN queue, queue[i] # Head(queue)
      PROVE  \E j \in DOMAIN Tail(queue) : Tail(queue)[j] = queue[i]
  <2>1. i \in 1 .. Len(queue) /\ i # 1
    BY <1>2
  <2>2. i - 1 \in 1 .. Len(Tail(queue)) /\ Tail(queue)[i - 1] = queue[i]
    BY <2>1
  <2> QED BY <1>1, <2>2
<1> QED BY <1>1, <1>2
-----------------------------------------------------------------------------
(* The steps of the kernel and of the threads.                             *)

\* What a call of the thread of p may do.
Turned(p) ==
    /\ at' = [at EXCEPT ![p] = at'[p]] /\ at'[p] \in Places
    /\ running' = IF at'[p] \in Active THEN p ELSE Nobody
    /\ pending \subseteq pending' /\ pending' \subseteq pending \cup {p}
    /\ at'[p] = "backoff" => p \in pending'
    /\ flag' \in BOOLEAN /\ (flag' => flag)
    /\ frames' = [frames EXCEPT ![p] = frames'[p]]
    /\ confirmed' = IF at'[p] = "sent" THEN confirmed ELSE confirmed \ {p}
    /\ \/ at'[p] # "sent" /\ frames'[p] = 0
       \/ at'[p] = "sent" /\ at[p] = "sent" /\ frames'[p] = frames[p] /\ flag = FALSE

LEMMA ResumeOk ==
  ASSUME AppInv, running = Nobody, NEW p \in Procs, NEW ev, Resume(p, ev)
  PROVE  Turned(p)
<1>1. at[p] \in {"sent", "backoff", "yield"}
  BY ProcsAre DEF AppInv, AppShape, OneRuns, Places, Active
<1>2. at \in [Procs -> Places] /\ frames \in [Procs -> 0 .. 1] /\ flag \in BOOLEAN
  BY DEF AppInv, AppShape, Counted
<1>3. frames' = [frames EXCEPT ![p] = IF at'[p] = "yield" THEN 0 ELSE @]
      /\ confirmed' = IF at'[p] = "sent" THEN confirmed ELSE confirmed \ {p}
  BY DEF Resume
<1>4. CASE at[p] = "sent"
  <2>1. Sent(p)
    BY <1>4 DEF Resume
  <2> QED BY <1>2, <1>3, <1>4, <2>1
          DEF Sent, TurnOver, KeepWaiting, shared, Turned, Places, Active
<1>5. CASE at[p] = "backoff"
  <2>1. BackOff(p) /\ UNCHANGED flag /\ frames[p] = 0
    BY <1>5 DEF Resume, shared, AppInv, Counted
  <2> QED BY <1>2, <1>3, <1>5, <2>1
          DEF BackOff, TurnOver, GoOn, KeepWaiting, Turned, Places, Active
<1>6. CASE at[p] = "yield"
  <2>1. Yield(p, ev) /\ UNCHANGED flag /\ frames[p] = 0
    BY <1>6 DEF Resume, shared, AppInv, Counted
  <2> QED BY <1>2, <1>3, <1>6, <2>1
          DEF Yield, TurnOver, GoOn, Turned, Places, Active
<1> QED BY <1>1, <1>4, <1>5, <1>6

\* Nothing but a call of a thread, which nobody was running, is left to show.
LEMMA TurnedInv ==
  ASSUME AppInv, running = Nobody, NEW p \in Procs, Turned(p), caller' = caller,
         queue' \in Seq(Events), polled' \in BOOLEAN,
         \A i \in DOMAIN queue :
           queue[i].p # p => \E j \in DOMAIN queue' : queue'[j] = queue[i],
         p # "wakeup" => polled' = polled
  PROVE  AppInv'
<1>1. at \in [Procs -> Places] /\ frames \in [Procs -> 0 .. 1]
  BY DEF AppInv, AppShape, Counted
<1>2. AppShape'
  BY <1>1, ProcsAre DEF AppInv, AppShape, Turned
<1>3. OneRuns'
  BY <1>1, ProcsAre DEF AppInv, OneRuns, Turned
<1>4. Counted'
  BY <1>1 DEF AppInv, Counted, Turned
<1>5. NotStranded'
  <2> SUFFICES ASSUME NEW q \in Procs, at'[q] = "backoff"
               PROVE  q \in pending' \/ \E i \in DOMAIN queue' : queue'[i].p = q
    BY DEF NotStranded
  <2>1. CASE q = p
    BY <2>1 DEF Turned
  <2>2. CASE q # p
    <3>1. at[q] = "backoff"
      BY <1>1, <2>2 DEF Turned
    <3>2. q \in pending \/ \E i \in DOMAIN queue : queue[i].p = q
      BY <3>1 DEF AppInv, NotStranded
    <3> QED BY <2>2, <3>2 DEF Turned
  <2> QED BY <2>1, <2>2
<1>6. Woken'
  <2>1. confirmed' \subseteq {q \in Procs : at'[q] = "sent"}
    BY <1>1 DEF AppInv, Woken, Turned
  <2>2. WokenByConfirm'
    <3>1. CASE p = "wakeup"
      BY <1>1, <3>1 DEF AppInv, AppShape, Woken, WokenByConfirm, Turned
    <3>2. CASE p # "wakeup"
      BY <1>1, <3>2, ProcsAre DEF AppInv, AppShape, Woken, WokenByConfirm, Turned
    <3> QED BY <3>1, <3>2
  <2> QED BY <2>1, <2>2 DEF Woken
<1> QED BY <1>2, <1>3, <1>4, <1>5, <1>6 DEF AppInv
-----------------------------------------------------------------------------
(* The actions.                                                            *)

LEMMA AppInitInv == AppInit => AppInv
<1> SUFFICES ASSUME AppInit PROVE AppInv
  OBVIOUS
<1>1. AppShape
  <2>1. queue \in Seq(Events)
    BY DEF AppInit
  <2>2. at \in [Procs -> Places]
    BY DEF AppInit, Places
  <2> QED BY <2>1, <2>2, ProcsAre DEF AppInit, AppShape
<1>2. OneRuns
  BY ProcsAre DEF AppInit, Init, OneRuns, Active
<1>3. Counted /\ NotStranded /\ Woken
  BY ProcsAre DEF AppInit, Counted, NotStranded, Woken, WokenByConfirm
<1> QED BY <1>1, <1>2, <1>3 DEF AppInv

LEMMA DoPollInv ==
  ASSUME AppInv, DoPoll
  PROVE  AppInv'
<1>1. running = Nobody /\ caller' = caller /\ queue' = queue
  BY DEF DoPoll, vars
<1>2. CASE polled
  <2>1. Turned("wakeup") /\ polled' = FALSE
    BY <1>1, <1>2, ProcsAre, ResumeOk DEF DoPoll
  <2> QED BY <1>1, <2>1, ProcsAre, TurnedInv DEF AppInv, AppShape
<1>3. CASE ~polled
  <2>1. UNCHANGED <<at, running, polled, pending, flag, frames, confirmed>>
    BY <1>3 DEF DoPoll, shared
  <2> QED BY <1>1, <2>1
          DEF AppInv, AppShape, OneRuns, Counted, NotStranded, Woken, WokenByConfirm
<1> QED BY <1>2, <1>3

LEMMA DoEventInv ==
  ASSUME AppInv, DoEvent
  PROVE  AppInv'
<1>1. running = Nobody /\ caller' = caller /\ polled' = polled
  BY DEF DoEvent, vars
<1>2. CASE queue # <<>>
  <2> DEFINE p == Head(queue).p
  <2>1. /\ Head(queue) \in Events /\ Tail(queue) \in Seq(Events)
        /\ \A i \in DOMAIN queue :
             queue[i] # Head(queue) => \E j \in DOMAIN Tail(queue) : Tail(queue)[j] = queue[i]
    BY <1>2, TailOk DEF AppInv, AppShape
  <2>2. p \in Procs
    BY <2>1 DEF Events
  <2>3. Resume(p, Head(queue).ev) /\ queue' = Tail(queue)
    BY <1>2 DEF DoEvent
  <2>4. \A i \in DOMAIN queue :
          queue[i].p # p => \E j \in DOMAIN queue' : queue'[j] = queue[i]
    BY <2>1, <2>3
  <2>5. Turned(p)
    BY <1>1, <2>2, <2>3, ResumeOk
  <2>6. queue' \in Seq(Events) /\ polled' \in BOOLEAN
    BY <1>1, <2>1, <2>3 DEF AppInv, AppShape
  <2> HIDE DEF p
  <2> QED BY <1>1, <2>2, <2>4, <2>5, <2>6, TurnedInv
<1>3. CASE queue = <<>>
  <2>1. UNCHANGED <<at, running, queue, pending, flag, frames, confirmed>>
    BY <1>3 DEF DoEvent, shared
  <2> QED BY <1>1, <2>1
          DEF AppInv, AppShape, OneRuns, Counted, NotStranded, Woken, WokenByConfirm
<1> QED BY <1>2, <1>3

\* A post that leaves the threads where they are.
LEMMA PostInv ==
  ASSUME AppInv, NEW p \in Procs, NEW ev \in {"go", "timer"}, queue' = Posted(p, ev),
         UNCHANGED <<caller, at, running, flag, frames, confirmed>>,
         polled' \in BOOLEAN, polled => polled',
         pending' \subseteq pending,
         \A q \in pending \ pending' : q = p /\ Len(queue) < NumEvents
  PROVE  AppInv'
<1>1. /\ queue' \in Seq(Events)
      /\ \A i \in DOMAIN queue : i \in DOMAIN queue' /\ queue'[i] = queue[i]
      /\ Len(queue) < NumEvents => \E i \in DOMAIN queue' : queue'[i].p = p
  BY ZenonT(60), PostedOk DEF AppInv, AppShape
<1>2. AppShape' /\ OneRuns' /\ Counted' /\ Woken'
  BY <1>1 DEF AppInv, AppShape, OneRuns, Counted, Woken, WokenByConfirm
<1>3. NotStranded'
  BY <1>1 DEF AppInv, NotStranded
<1> QED BY <1>2, <1>3 DEF AppInv

LEMMA EtimerExpiresInv ==
  ASSUME AppInv, NEW p \in Procs, EtimerExpires(p)
  PROVE  AppInv'
BY PostInv DEF EtimerExpires, vars, shared, history, AppInv, AppShape

LEMMA LineInv ==
  ASSUME AppInv, Line
  PROVE  AppInv'
BY PostInv, ProcsAre DEF Line, vars, shared, history

\* The state check: it confirms for the process that waits, and then polls.
LEMMA StateCheckInv ==
  ASSUME AppInv, StateCheck
  PROVE  AppInv'
<1> DEFINE confirm == mac.mcpsReq /\ ~mac'.mcpsReq
<1>1. /\ UNCHANGED <<caller, at, running, pending, frames>>
      /\ queue' \in {queue, Posted("send", "go")}
      /\ flag' = (flag \/ confirm) /\ polled' = (polled \/ confirm)
      /\ confirmed' = IF confirm THEN confirmed \cup Awaiting ELSE confirmed
  BY DEF StateCheck, Expire
<1> HIDE DEF confirm
<1>2. /\ queue' \in Seq(Events)
      /\ \A i \in DOMAIN queue : i \in DOMAIN queue' /\ queue'[i] = queue[i]
  BY <1>1, ProcsAre, PostedOk DEF AppInv, AppShape
<1>3. AppShape' /\ OneRuns' /\ Counted'
  BY <1>1, <1>2 DEF AppInv, AppShape, OneRuns, Counted
<1>4. NotStranded'
  BY <1>1, <1>2 DEF AppInv, NotStranded
<1>5. Woken'
  BY <1>1 DEF AppInv, Woken, WokenByConfirm, Awaiting
<1> QED BY <1>3, <1>4, <1>5 DEF AppInv

\* Steps of the thread that runs, from one active place to another.
LEMMA WorkInv ==
  ASSUME AppInv, running \in Procs, at[running] \in Active,
         NEW place \in Active, at' = [at EXCEPT ![running] = place],
         caller' # Out => place = "asking",
         UNCHANGED <<running, queue, polled, pending, flag, frames, confirmed>>
  PROVE  AppInv'
<1>1. at \in [Procs -> Places]
  BY DEF AppInv, AppShape
<1>2. AppShape' /\ OneRuns'
  BY <1>1, ProcsAre DEF AppInv, AppShape, OneRuns, Places, Active
<1>3. Counted' /\ NotStranded' /\ Woken'
  BY <1>1, ProcsAre DEF AppInv, Counted, NotStranded, Woken, WokenByConfirm, Active
<1> QED BY <1>2, <1>3 DEF AppInv

LEMMA WorkingIs ==
  ASSUME AppInv, NEW place, Working(place)
  PROVE  running \in Procs /\ at[running] = place
BY DEF AppInv, AppShape, Working

LEMMA SendFrameInv ==
  ASSUME AppInv, SendFrame
  PROVE  AppInv'
BY WorkingIs, WorkInv DEF SendFrame, kernel, shared, history, Active

LEMMA RefusedInv ==
  ASSUME AppInv, Refused
  PROVE  AppInv'
BY WorkingIs, WorkInv DEF Refused, vars, kernel, shared, history, Active, AppInv, OneRuns

LEMMA DelayInv ==
  ASSUME AppInv, Delay
  PROVE  AppInv'
<1>1. caller' = caller
  BY DEF Delay, Tick, vars
<1> QED BY <1>1, WorkingIs, WorkInv DEF Delay, kernel, shared, history, Active, AppInv, OneRuns

\* Steps of the MAC alone.
LEMMA MacOnlyInv ==
  ASSUME AppInv, caller' # Out => caller # Out,
         UNCHANGED <<at, running, queue, polled, pending, flag, frames, confirmed>>
  PROVE  AppInv'
BY DEF AppInv, AppShape, OneRuns, Counted, NotStranded, Woken, WokenByConfirm

LEMMA RequestingInv ==
  ASSUME AppInv, Requesting
  PROVE  AppInv'
<1>1. caller # Out
  BY DEF Requesting, PrepareFrame, StartSending, Out
<1> QED BY <1>1, MacOnlyInv DEF Requesting, kernel, shared, history

LEMMA OtherInterruptInv ==
  ASSUME AppInv, OtherInterrupt \/ Second
  PROVE  AppInv'
<1>1. caller' = caller
  BY DEF OtherInterrupt, Second, TxDone, RxError, RxTimeout, Expire, Tick
<1> QED BY <1>1, MacOnlyInv DEF OtherInterrupt, Second, kernel, shared, history

LEMMA FrameHeardInv ==
  ASSUME AppInv, NEW frame, NEW asks, FrameHeard(frame, asks)
  PROVE  AppInv'
BY MacOnlyInv DEF FrameHeard, RxDone, kernel, history

\* The frame is on its way: the turn of the process is over, and no earlier
\* confirm counts.
LEMMA FrameTakenInv ==
  ASSUME AppInv, FrameTaken
  PROVE  AppInv'
<1> DEFINE p == running
<1>1. caller # Out /\ caller' = Out
  BY DEF FrameTaken, RequestTaken, Out
<1>2. p \in Procs /\ at[p] = "asking" /\ frames[p] = 0 /\ p \notin confirmed
  BY <1>1 DEF AppInv, AppShape, OneRuns, Counted, Woken
<1>3. /\ at' = [at EXCEPT ![p] = "sent"] /\ running' = Nobody
      /\ frames' = [frames EXCEPT ![p] = AtMost(@ + 1, 2)]
      /\ UNCHANGED <<queue, polled, pending, flag, confirmed>>
  BY DEF FrameTaken, shared
<1>4. frames' = [frames EXCEPT ![p] = 1]
  BY <1>2, <1>3 DEF AtMost, AppInv, Counted
<1>5. at \in [Procs -> Places]
  BY DEF AppInv, AppShape
<1> HIDE DEF p
<1>6. AppShape'
  BY <1>2, <1>3, <1>5 DEF AppInv, AppShape, Places
<1>7. OneRuns'
  BY <1>1, <1>2, <1>3, <1>5, ProcsAre DEF AppInv, OneRuns, Active, p
<1>8. Counted'
  BY <1>2, <1>3, <1>4, <1>5 DEF AppInv, Counted
<1>9. NotStranded' /\ Woken'
  BY <1>2, <1>3, <1>5, ProcsAre DEF AppInv, NotStranded, Woken, WokenByConfirm
<1> QED BY <1>6, <1>7, <1>8, <1>9 DEF AppInv

LEMMA StandbyInv ==
  ASSUME AppInv, Standby
  PROVE  AppInv'
<1> DEFINE p == running
<1>1. p \in Procs /\ at[p] = "refused" /\ frames[p] = 0 /\ p \notin confirmed
  BY WorkingIs DEF Standby, AppInv, Counted, Woken
<1>2. /\ at' = [at EXCEPT ![p] = "backoff"] /\ running' = Nobody
      /\ pending' = pending \cup {p}
      /\ UNCHANGED <<caller, queue, polled, flag, frames, confirmed>>
  BY DEF Standby, shared, history
<1>3. at \in [Procs -> Places]
  BY DEF AppInv, AppShape
<1>4. caller = Out
  BY <1>1 DEF AppInv, OneRuns
<1> HIDE DEF p
<1>5. AppShape'
  BY <1>1, <1>2, <1>3 DEF AppInv, AppShape, Places
<1>6. OneRuns'
  BY <1>1, <1>2, <1>3, <1>4, ProcsAre DEF AppInv, OneRuns, Active, p
<1>7. Counted' /\ NotStranded' /\ Woken'
  BY <1>1, <1>2, <1>3, ProcsAre DEF AppInv, Counted, NotStranded, Woken, WokenByConfirm
<1> QED BY <1>5, <1>6, <1>7 DEF AppInv
-----------------------------------------------------------------------------
(* What the MAC keeps, with two processes that put its radio into standby. *)

LEMMA MacAppInitInv == AppInit => MacInv
BY InitInv DEF AppInit

LEMMA MacAppStepInv == MacInv /\ [AppNext]_appVars => MacInv'
<1> SUFFICES ASSUME MacInv, [AppNext]_appVars PROVE MacInv'
  OBVIOUS
<1>1. CASE UNCHANGED vars
  BY <1>1, StepInv
<1>2. CASE Standby
  <2>1. mac' = SetStby(mac) /\ caller' = caller
    BY <1>2 DEF Standby
  <2> QED BY <2>1, SetStbyRadio, RadioInv DEF MacInv
<1>3. CASE SendFrame \/ Requesting \/ FrameTaken
  BY <1>3, AppAssumption, RequestInv, PrepareFrameInv, StartSendingInv, RequestTakenInv
     DEF SendFrame, Requesting, FrameTaken
<1>4. CASE StateCheck \/ OtherInterrupt
  BY <1>4, ExpireInv, TxDoneInv, RxErrorInv DEF StateCheck, OtherInterrupt, Timers
<1>5. CASE Second \/ Delay
  BY <1>1, <1>5, TickInv DEF Second, Delay
<1>6. ASSUME NEW frame \in Frames, NEW asks \in Asking, FrameHeard(frame, asks)
      PROVE  MacInv'
  BY <1>6, RxDoneInv DEF FrameHeard
<1>7. CASE Kernel \/ Refused \/ Line \/ (\E p \in Procs : EtimerExpires(p))
  BY <1>1, <1>7 DEF Kernel, DoPoll, DoEvent, Refused, Line, EtimerExpires
<1>8. CASE UNCHANGED appVars
  BY <1>1, <1>8 DEF appVars
<1> QED BY <1>2, <1>3, <1>4, <1>5, <1>6, <1>7, <1>8 DEF AppNext, Thread

LEMMA AppStepInv == AppInv /\ [AppNext]_appVars => AppInv'
<1> SUFFICES ASSUME AppInv, [AppNext]_appVars PROVE AppInv'
  OBVIOUS
<1>1. CASE UNCHANGED appVars
  BY <1>1, MacOnlyInv DEF appVars, vars, kernel, shared, history
<1> QED BY <1>1, DoPollInv, DoEventInv, SendFrameInv, RequestingInv, FrameTakenInv,
           RefusedInv, StandbyInv, DelayInv, EtimerExpiresInv, LineInv, StateCheckInv,
           OtherInterruptInv, FrameHeardInv DEF AppNext, Kernel, Thread

LEMMA AppInvAlways == AppSpec => []AppInv
BY AppInitInv, AppStepInv, PTL DEF AppSpec

\* A standby behind the back of the MAC aborts a transmission, but does not
\* stall the cycle: the state check is still to come.
THEOREM StandbyDoesNotStall == AppSpec => []NoStall
<1>1. MacInv => NoStall
  BY DEF MacInv, Cycle, Delayed, NoStall
<1> QED BY <1>1, MacAppInitInv, MacAppStepInv, PTL DEF AppSpec

LEMMA CutStep ==
  ASSUME MacInv, [AppNext]_appVars, mac.radio = "TX", mac'.radio # "TX"
  PROVE  \/ \E d \in AckDelays : TxDone(d)
         \/ Expire("txTimeout") \/ Expire("rxTimeout") \/ Expire("rx1")
         \/ Standby
<1>1. mac' # mac /\ ~GoesOn(mac, mac')
  BY DEF GoesOn
<1>2. ~SendFrame /\ ~FrameTaken /\ ~Requesting /\ ~Second
  BY <1>1, AppAssumption, RequestGoesOn DEF SendFrame, FrameTaken, Requesting, Second
<1>3. ~Delay
  BY <1>1, RequestGoesOn DEF Delay, vars
<1>4. ~StateCheck
  BY <1>1, ExpireGoesOn DEF StateCheck
<1>5. \A frame \in Frames, asks \in Asking : ~FrameHeard(frame, asks)
  BY DEF FrameHeard, RxDone
<1>6. ~Kernel /\ ~Refused /\ ~Line /\ (\A p \in Procs : ~EtimerExpires(p)) /\ ~(UNCHANGED appVars)
  BY <1>1 DEF Kernel, DoPoll, DoEvent, Refused, Line, EtimerExpires, vars, appVars
<1>7. Standby \/ OtherInterrupt
  BY <1>2, <1>3, <1>4, <1>5, <1>6 DEF AppNext, Thread
<1>8. ASSUME OtherInterrupt
      PROVE  \/ \E d \in AckDelays : TxDone(d)
             \/ Expire("txTimeout") \/ Expire("rxTimeout") \/ Expire("rx1")
  <2>1. ~RxError /\ ~RxTimeout
    BY DEF RxError, RxTimeout
  <2>2. \A t \in {"txDelayed", "rx2", "ack"} : ~Expire(t)
    BY <1>1, ExpireGoesOn
  <2> QED BY <1>8, <2>1, <2>2 DEF OtherInterrupt, Timers
<1> QED BY <1>7, <1>8

\* Only the end of a frame, a time-out, the first window and the Standby of a
\* refused process end a transmission, in either class.
THEOREM OnlyTheseCut == AppSpec => CutBy
<1>1. MacInv /\ [AppNext]_appVars =>
        [mac.radio = "TX" /\ mac'.radio # "TX" =>
           \/ \E d \in AckDelays : TxDone(d)
           \/ Expire("txTimeout") \/ Expire("rxTimeout") \/ Expire("rx1")
           \/ Standby]_appVars
  BY CutStep
<1> QED BY <1>1, MacAppInitInv, MacAppStepInv, PTL DEF AppSpec, CutBy

\* A process sends one frame at most for an event.
THEOREM FramesFollowEvents == AppSpec => []OneFramePerEvent
<1>1. AppInv => OneFramePerEvent
  BY DEF AppInv, Counted, OneFramePerEvent
<1> QED BY <1>1, AppInvAlways, PTL

\* A process in its back-off is not forgotten, whatever fills the queue.
THEOREM BackOffEnds == AppSpec => []NotStranded
<1>1. AppInv => NotStranded
  BY DEF AppInv
<1> QED BY <1>1, AppInvAlways, PTL

\* Wakeup_process is polled while a confirm for it is not looked at.
THEOREM ConfirmsWake == AppSpec => []WokenByConfirm
<1>1. AppInv => WokenByConfirm
  BY DEF AppInv, Woken
<1> QED BY <1>1, AppInvAlways, PTL
=============================================================================
