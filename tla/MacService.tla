----------------------------- MODULE MacService -----------------------------
(***************************************************************************)
(* What the MAC promises to its user, one request after the other          *)
(* (LoRaMac.h, "MCPS-Request" to "MCPS-Confirm"): a frame that was         *)
(* requested is sent a limited number of times, never again once its       *)
(* acknowledgement was heard, and nothing is sent that was not requested   *)
(* or that was already confirmed.  LoRaMac implements it.                  *)
(***************************************************************************)
EXTENDS Naturals

CONSTANTS Types,         \* the kinds of requests
          Limit          \* how often a frame of each kind may be sent

VARIABLES busy,          \* from the request to its confirm
          type,          \* the request served, or the last one
          sent,          \* transmissions of its frame
          acked          \* was an acknowledgement heard?

service == <<busy, type, sent, acked>>

Init == busy = FALSE /\ type = "none" /\ sent = 0 /\ acked = FALSE

Request(t) ==
    /\ ~busy
    /\ busy' = TRUE /\ type' = t /\ sent' = 0 /\ acked' = FALSE

Send ==
    /\ busy /\ ~acked /\ sent < Limit[type]
    /\ sent' = sent + 1
    /\ UNCHANGED <<busy, type, acked>>

Hear ==
    /\ acked' = TRUE
    /\ UNCHANGED <<busy, type, sent>>

Confirm ==
    /\ busy
    /\ busy' = FALSE
    /\ UNCHANGED <<type, sent, acked>>

Next == (\E t \in Types : Request(t)) \/ Send \/ Hear \/ Confirm

Spec == Init /\ [][Next]_service
=============================================================================
