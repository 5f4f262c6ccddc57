-------------------------------- MODULE App --------------------------------
(***************************************************************************)
(* The two processes of USER/main.c on top of the MAC: Wakeup_process      *)
(* sends a frame for every line of USART1, SX1278Send_process answers a    *)
(* confirmed downlink.  Both use the one MAC of LoRaMac, wait for the one  *)
(* flag Loramac_evt_flag that OnMacEvent (user-app.c) sets at a confirm,   *)
(* and put the radio into standby when the MAC refuses them.               *)
(*                                                                         *)
(* The kernel is the one of ProcessKernel, with a post or a poll of an     *)
(* interrupt as one step: process_run polls, then delivers one event.  An  *)
(* event timer is on the list (`pending') or not, and expires at any time  *)
(* (see Etimer).  Interrupts come between any two steps of a thread.       *)
(***************************************************************************)
EXTENDS LoRaMac, Sequences

CONSTANTS NumEvents,     \* PROCESS_CONF_NUMEVENTS
          Asking         \* may a received frame be a confirmed one (0x80)?

ASSUME AppAssumption == /\ NumEvents \in Nat \ {0} /\ Asking \subseteq BOOLEAN
                        /\ "unconfirmed" \in Types

Procs == {"send", "wakeup"}
Nobody == "nobody"

VARIABLES at,            \* where each process waits or works
          running,       \* the process whose thread runs, or Nobody
          turn,          \* what process_run does next, "poll" or "event"
          queue,         \* the events that wait
          polled,        \* is Wakeup_process to be polled?
          pending,       \* the processes whose etimer has not expired
          flag,          \* LoRapp_Handle.Loramac_evt_flag
          mhdrAck,       \* LoRapp_Handle.MhdrAck
          frames,        \* history: frames accepted from a process in its turn
          owner,         \* history: whose frame the MAC is to confirm
          confirmed      \* history: processes that wait for a confirm they had

kernel  == <<running, turn, queue, polled, pending>>
shared  == <<flag, mhdrAck>>
history == <<frames, owner, confirmed>>
appVars == <<vars, at, kernel, shared, history>>
-----------------------------------------------------------------------------
(* The threads.                                                            *)

\* The turn is over.  Wakeup_process resets its timer after every turn.
TurnOver(p) ==
    /\ at' = [at EXCEPT ![p] = "yield"]
    /\ running' = Nobody
    /\ pending' = IF p = "wakeup" THEN pending \cup {p} ELSE pending

GoOn(p, where) ==
    /\ at' = [at EXCEPT ![p] = where]
    /\ running' = p
    /\ UNCHANGED pending

KeepWaiting == running' = Nobody /\ UNCHANGED <<at, pending>>

\* Mutation: no break after a frame that was sent.
SentAnother(p) ==
    IF flag THEN /\ flag' = FALSE /\ mhdrAck' = FALSE
                 /\ GoOn(p, "try") \/ TurnOver(p)
    ELSE KeepWaiting /\ UNCHANGED shared

\* PROCESS_YIELD_UNTIL( Loramac_evt_flag == 1 ) and what follows it.
Sent(p) ==
    IF flag THEN flag' = FALSE /\ mhdrAck' = FALSE /\ TurnOver(p)
    ELSE KeepWaiting /\ UNCHANGED shared

\* The back-off after a refusal.  The loop counter i is an automatic variable
\* of a thread that has returned: whether the loop goes on is left open.
BackOff(p) ==
    IF p \in pending THEN KeepWaiting
    ELSE GoOn(p, "try") \/ TurnOver(p)

\* PROCESS_YIELD at the head of the loop: only its own event begins a turn.
Yield(p, ev) ==
    IF ev = "go" THEN GoOn(p, IF p = "send" THEN "delay" ELSE "try")
    ELSE TurnOver(p)

\* The thread of p is called with ev.
Resume(p, ev) ==
    /\ CASE at[p] = "sent"    -> Sent(p)
         [] at[p] = "backoff" -> BackOff(p) /\ UNCHANGED shared
         [] at[p] = "yield"   -> Yield(p, ev) /\ UNCHANGED shared
    /\ frames' = [frames EXCEPT ![p] = IF at'[p] = "yield" THEN 0 ELSE @]
    /\ confirmed' = IF at'[p] = "sent" THEN confirmed ELSE confirmed \ {p}
-----------------------------------------------------------------------------
(* process_run.                                                            *)

DoPoll ==
    /\ running = Nobody /\ turn = "poll"
    /\ turn' = "event"
    /\ IF polled THEN polled' = FALSE /\ Resume("wakeup", "poll")
       ELSE UNCHANGED <<at, running, polled, pending, shared, frames, confirmed>>
    /\ UNCHANGED <<vars, queue, owner>>

DoEvent ==
    /\ running = Nobody /\ turn = "event"
    /\ turn' = "poll"
    /\ IF queue # <<>>
       THEN Resume(Head(queue).p, Head(queue).ev) /\ queue' = Tail(queue)
       ELSE UNCHANGED <<at, running, queue, pending, shared, frames, confirmed>>
    /\ UNCHANGED <<vars, polled, owner>>

\* process_post, whose result nobody looks at.
Posted(p, ev) ==
    IF Len(queue) < NumEvents THEN Append(queue, [p |-> p, ev |-> ev]) ELSE queue

\* Mutation: a timer event that finds the queue full is forgotten.
EtimerForgets(p) ==
    /\ p \in pending /\ running = Nobody
    /\ pending' = pending \ {p}
    /\ queue' = Posted(p, "timer")
    /\ UNCHANGED <<vars, at, running, turn, polled, shared, history>>

\* etimer_process finds the timer expired and there is room for its event.
EtimerExpires(p) ==
    /\ p \in pending /\ running = Nobody
    /\ Len(queue) < NumEvents
    /\ pending' = pending \ {p}
    /\ queue' = Posted(p, "timer")
    /\ UNCHANGED <<vars, at, running, turn, polled, shared, history>>
-----------------------------------------------------------------------------
(* UserAppSend: LoRaMacSendFrame and LoRaMacMcpsRequest.                   *)

Working(where) == running # Nobody /\ at[running] = where

SendFrame ==
    /\ Working("try")
    /\ Request("unconfirmed")
    /\ at' = [at EXCEPT ![running] = "asking"]
    /\ UNCHANGED <<kernel, shared, history>>

\* The steps of the request in between.  Payloads of 1 and 16 bytes fit every
\* datarate: RefuseFrame does not happen.
Requesting ==
    /\ PrepareFrame \/ \E off \in TimeOffs : StartSending(off)
    /\ UNCHANGED <<at, kernel, shared, history>>

\* UserAppSend returns 0; the thread returns to the kernel.
FrameTaken ==
    /\ RequestTaken
    /\ at' = [at EXCEPT ![running] = "sent"]
    /\ frames' = [frames EXCEPT ![running] = AtMost(@ + 1, 2)]
    /\ owner' = running
    /\ running' = Nobody
    /\ UNCHANGED <<turn, queue, polled, pending, shared, confirmed>>

\* UserAppSend returns -1, the MAC is busy ...
Refused ==
    /\ Working("try")
    /\ mac.txRunning \/ mac.txDelayed
    /\ at' = [at EXCEPT ![running] = "refused"]
    /\ UNCHANGED <<vars, kernel, shared, history>>

\* ... so the radio goes to standby, and the process waits for its timer.
Standby ==
    /\ Working("refused")
    /\ mac' = SetStby(mac)
    /\ at' = [at EXCEPT ![running] = "backoff"]
    /\ pending' = pending \cup {running}
    /\ running' = Nobody
    /\ UNCHANGED <<caller, built, turn, queue, polled, shared, history>>
-----------------------------------------------------------------------------
(* Interrupts.                                                             *)

\* The last character of a line comes in on USART1: Wakeup_post and RFTXDONE.
Line ==
    /\ queue' = Posted("wakeup", "go")
    /\ polled' = TRUE
    /\ UNCHANGED <<vars, at, running, turn, pending, shared, history>>

\* A frame comes in.  MhdrAck is set from its header, whatever its MIC.
FrameHeard(frame, asks) ==
    /\ RxDone(frame)
    /\ mhdrAck' = (mhdrAck \/ asks)
    /\ UNCHANGED <<at, kernel, flag, history>>

\* The process whose frame is confirmed, if it still waits for it.
Awaiting == {p \in Procs : p = owner /\ at[p] = "sent"}

\* Mutation: OnMacEvent does not call RFTXDONE.
StateCheckUnpolled ==
    /\ Expire("check")
    /\ LET confirm == mac.mcpsReq /\ ~mac'.mcpsReq
       IN  /\ queue' = IF mac.mcpsInd /\ mhdrAck THEN Posted("send", "go") ELSE queue
           /\ flag' = (flag \/ confirm)
           /\ confirmed' = IF confirm THEN confirmed \cup Awaiting ELSE confirmed
           /\ owner' = IF confirm THEN Nobody ELSE owner
    /\ UNCHANGED <<at, running, turn, pending, mhdrAck, frames, polled>>

\* The state check and the OnMacEvent it calls: a received frame posts to
\* SX1278Send_process, a confirm sets the flag and polls Wakeup_process.
StateCheck ==
    /\ Expire("check")
    /\ LET confirm == mac.mcpsReq /\ ~mac'.mcpsReq
       IN  /\ queue' = IF mac.mcpsInd /\ mhdrAck THEN Posted("send", "go") ELSE queue
           /\ flag' = (flag \/ confirm)
           /\ polled' = (polled \/ confirm)
           /\ confirmed' = IF confirm THEN confirmed \cup Awaiting ELSE confirmed
           /\ owner' = IF confirm THEN Nobody ELSE owner
    /\ UNCHANGED <<at, running, turn, pending, mhdrAck, frames>>

OtherInterrupt ==
    /\ \/ \E d \in AckDelays : TxDone(d)
       \/ RxError \/ RxTimeout
       \/ \E t \in Timers \ {"check"} : Expire(t)
    /\ UNCHANGED <<at, kernel, shared, history>>

\* A second passes; the threads need none, but for HAL_Delay( 1000 ).
Second ==
    /\ running = Nobody
    /\ Tick
    /\ UNCHANGED <<at, kernel, shared, history>>

\* Mutation: the radio goes to standby before the first attempt already.
DelayInStandby ==
    /\ Working("delay")
    /\ mac' = SetStby(mac)
    /\ at' = [at EXCEPT ![running] = "try"]
    /\ UNCHANGED <<caller, built, kernel, shared, history>>

Delay ==
    /\ Working("delay")
    /\ IF \E t \in Timers : mac.timer[t] # Off THEN Tick ELSE UNCHANGED vars
    /\ at' = [at EXCEPT ![running] = "try"]
    /\ UNCHANGED <<kernel, shared, history>>
-----------------------------------------------------------------------------
\* Both processes have yielded; Wakeup_process has set its timer.
AppInit ==
    /\ Init
    /\ at = [p \in Procs |-> "yield"]
    /\ running = Nobody /\ turn = "poll"
    /\ queue = <<>> /\ polled = FALSE /\ pending = {"wakeup"}
    /\ flag = FALSE /\ mhdrAck = FALSE
    /\ frames = [p \in Procs |-> 0]
    /\ owner = Nobody /\ confirmed = {}

Kernel == DoPoll \/ DoEvent
Thread == SendFrame \/ Requesting \/ FrameTaken \/ Refused \/ Standby

AppNext ==
    \/ Kernel \/ Thread \/ Delay
    \/ \E p \in Procs : EtimerExpires(p)
    \/ Line \/ StateCheck \/ OtherInterrupt \/ Second
    \/ \E frame \in Frames, asks \in Asking : FrameHeard(frame, asks)

AppSpec == AppInit /\ [][AppNext]_appVars

-----------------------------------------------------------------------------
\* A process sends one frame at most for an event, however often it was
\* refused, woken up by something else, or confirmed for somebody else.
OneFramePerEvent == \A p \in Procs : frames[p] <= 1

\* A transmission that does not run out is cut by three things only: the first
\* window of an earlier frame, RxTimeoutTimer of an earlier single reception,
\* which SX1276SetTx leaves running, and the Standby of a refused process.
CutBy ==
    [][mac.radio = "TX" /\ mac'.radio # "TX" =>
         \/ \E d \in AckDelays : TxDone(d)
         \/ Expire("txTimeout") \/ Expire("rxTimeout") \/ Expire("rx1")
         \/ Standby]_appVars

\* A process that was refused is not forgotten in its back-off: its timer is on
\* the list, or an event that will make it look at the timer is on its way,
\* also when the queue was full of other events.
NotStranded ==
    \A p \in Procs : at[p] = "backoff" =>
        p \in pending \/ \E i \in DOMAIN queue : queue[i].p = p

\* Wakeup_process is woken by the confirm it waits for, whatever came in
\* between: while the flag is up for it, a poll is under way.
WokenByConfirm ==
    at["wakeup"] = "sent" /\ "wakeup" \in confirmed /\ flag => polled
=============================================================================
