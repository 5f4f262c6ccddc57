----------------------------- MODULE MCLoRaMac -----------------------------
(***************************************************************************)
(* Instances of LoRaMac for TLC: the delays of LoRaMac.c in seconds.       *)
(***************************************************************************)
EXTENDS LoRaMac

Both      == {"unconfirmed", "confirmed"}
Confirmed == {"confirmed"}
AllFrames == {"data", "ack", "bad", "repeated"}
AckTimeouts == {3, 5}    \* RxWindow2Delay 2 + ACK_TIMEOUT 2 +- 1
NoTimeOff == {0}         \* the application switches the duty cycle off
TimeOff   == {0, 1}
=============================================================================
