------------------------------- MODULE SX1276 -------------------------------
(***************************************************************************)
(* The driver of the LoRa transceiver, radio/sx1276/sx1276.c, with the     *)
(* LoRa modem: the part of its state the MAC layer depends on.  Time is    *)
(* counted in seconds; every software timer of the driver and of the MAC   *)
(* is a countdown in one table, m.timer (see TimerServer for the timers    *)
(* themselves).                                                            *)
(*                                                                         *)
(* The state is a record m so that a handler that calls another one is the *)
(* composition of two operators: m.radio is SX1276.Settings.State,         *)
(* m.continuous is Settings.LoRa.RxContinuous.                             *)
(***************************************************************************)
EXTENDS Integers

CONSTANTS TxLimit,      \* TxTimeout given to SetTxConfig (3e3 ms)
          RxLimit       \* MaxRxWindow, the time-out of a single reception

ASSUME RadioAssumption == /\ TxLimit \in Nat \ {0}
                          /\ RxLimit \in Nat \ {0}

Off == -1               \* a timer that is not started

\* TimerStop( ), and TimerSetValue( ) (which stops the timer) with
\* TimerStart( ).
Disarm(m, t)  == [m EXCEPT !.timer[t] = Off]
Arm(m, t, v)  == [m EXCEPT !.timer[t] = v]

\* SX1276SetStby and SX1276SetSleep: both radio timers are stopped.
SetStby(m) == [m EXCEPT !.radio = "IDLE",
                        !.timer["rxTimeout"] = Off,
                        !.timer["txTimeout"] = Off]

SetSleep(m) == SetStby(m)

\* SX1276SetRxConfig and SX1276SetRx: a single reception is limited by
\* RxTimeoutTimer, a continuous one (timeout 0) leaves that timer alone.
SetRx(m, continuous) ==
    LET s == [m EXCEPT !.radio = "RX", !.continuous = continuous]
    IN  IF continuous THEN s ELSE Arm(s, "rxTimeout", RxLimit)

\* Mutation: TxTimeoutTimer is not started.
SendBufferUnlimited(m) == [m EXCEPT !.radio = "TX"]

\* SX1276Send and SX1276SetTx.  RxTimeoutTimer keeps running if it was.
SendBuffer(m) == [Arm(m, "txTimeout", TxLimit) EXCEPT !.radio = "TX"]

\* The radio half of SX1276OnDio0Irq: a frame is complete (RxDone or a CRC
\* error), or sent.
FrameReceived(m) ==
    [Disarm(m, "rxTimeout") EXCEPT !.radio = IF m.continuous THEN @ ELSE "IDLE"]

FrameSent(m) == [Disarm(m, "txTimeout") EXCEPT !.radio = "IDLE"]

\* The radio half of SX1276OnDio1Irq: no preamble in a single reception.
SymbolTimeout(m) == [Disarm(m, "rxTimeout") EXCEPT !.radio = "IDLE"]
=============================================================================
