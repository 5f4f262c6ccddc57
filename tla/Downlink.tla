------------------------------ MODULE Downlink ------------------------------
(***************************************************************************)
(* Which frames the device takes: the data frame branch of OnRadioRxDone   *)
(* (mac/LoRaMac.c), as this project changed it for several senders.  The   *)
(* device takes over the address of whatever it hears; the first frame of  *)
(* another address is counted by the multicast channel, the next ones by   *)
(* DownLinkCounter.  LoRaMacInitialization allocates four bytes for the    *)
(* multicast channel and sets none: its counter starts as whatever the     *)
(* heap holds there.                                                       *)
(*                                                                         *)
(* A sender numbers its frames with a 32-bit counter, of which the frame   *)
(* carries the low 16 bits; the MIC is computed over all 32, with keys all *)
(* senders share, so a frame passes when the receiver restores the         *)
(* counter.  Frames are lost, or repeated any number of times, but a       *)
(* sender is heard in its own order.                                       *)
(***************************************************************************)
EXTENDS Integers

CONSTANTS Senders,       \* addresses of the nodes and gateways with the keys
          Strangers,     \* addresses of senders with other keys
          Own,           \* the address read from flash
          Garbage,       \* what the heap may hold at power-on
          Modulus,       \* 2^16, the range of the counter in a frame
          MaxCounter     \* bound: frames numbered by a sender

ASSUME DownlinkAssumption ==
    /\ Modulus \in Nat \ {0}
    /\ MaxCounter \in Nat
    /\ Garbage \subseteq Nat
    /\ Own \notin Strangers /\ Senders \cap Strangers = {}

VARIABLES addr,          \* LoRaMacDevAddr
          down,          \* DownLinkCounter
          mcDown,        \* MulticastChannels->DownLinkCounter
          sent,          \* the counter of each sender's last frame
          row            \* history: the last frame delivered, and how often

counters == <<addr, down, mcDown, sent, row>>
-----------------------------------------------------------------------------
(* The 32-bit counter of a frame.                                          *)

Signed(d) == IF d < Modulus \div 2 THEN d ELSE d - Modulus

\* Mutation: the counter is not restarted for a smaller sequence number.
ExtendOneSender(counter, seq) ==
    LET diff == (seq - (counter % Modulus)) % Modulus
    IN  IF diff < Modulus \div 2 THEN counter + diff
        ELSE counter + Modulus + Signed(diff)

\* downLinkCounter from the one before and the sequence number of the frame: a
\* smaller number restarts it, a gap of 2^15 is taken for a roll-over.
Extend(counter, seq) ==
    LET restart == seq < counter % Modulus
        base    == IF restart THEN 0 ELSE counter
        diff    == (seq - (base % Modulus)) % Modulus
    IN  IF diff < Modulus \div 2 THEN base + diff
        ELSE base + Modulus + Signed(diff)

\* The counter a frame of address s is compared with.
CounterFor(s) == IF s = addr THEN down ELSE mcDown

Restored(s) == Extend(CounterFor(s), sent[s] % Modulus)

MicOk(s) == Restored(s) = sent[s]

Repeated(s) == Restored(s) = CounterFor(s) /\ CounterFor(s) # 0

Taken(s) == MicOk(s) /\ ~Repeated(s)

\* Is this the frame delivered last?
Again(s) == row.from = s /\ row.number = sent[s]
-----------------------------------------------------------------------------
Init ==
    /\ addr = Own /\ down = 0 /\ mcDown \in Garbage
    /\ sent = [s \in Senders |-> 0]
    /\ row = [from |-> Own, number |-> 0, times |-> 0]

\* Sender s numbers a new frame.
NewFrame(s) ==
    /\ sent[s] < MaxCounter
    /\ sent' = [sent EXCEPT ![s] = @ + 1]
    /\ UNCHANGED <<addr, down, mcDown, row>>

\* Mutation: the counter of the new sender is not kept.
HearUnkept(s) ==
    /\ addr' = s
    /\ IF Taken(s)
       THEN /\ down' = IF s = addr THEN Restored(s) ELSE down
            /\ row' = [from |-> s, number |-> sent[s],
                       times |-> IF ~Again(s) THEN 1 ELSE IF row.times < 3 THEN row.times + 1 ELSE 3]
            /\ UNCHANGED mcDown
       ELSE UNCHANGED <<down, mcDown, row>>
    /\ UNCHANGED sent

\* The last frame of s comes in, for the first time or once more.
Hear(s) ==
    /\ addr' = s
    /\ IF Taken(s)
       THEN /\ down' = IF s = addr THEN Restored(s) ELSE down
            /\ mcDown' = IF s = addr THEN mcDown ELSE Restored(s)
            /\ row' = [from |-> s, number |-> sent[s],
                       times |-> IF ~Again(s) THEN 1 ELSE IF row.times < 3 THEN row.times + 1 ELSE 3]
       ELSE UNCHANGED <<down, mcDown, row>>
    /\ UNCHANGED sent

\* A frame of another network: its MIC fails, its address stays.
HearStranger(x) ==
    /\ addr' = x
    /\ UNCHANGED <<down, mcDown, sent, row>>

Next ==
    \/ \E s \in Senders : NewFrame(s) \/ Hear(s)
    \/ \E x \in Strangers : HearStranger(x)

Spec == Init /\ [][Next]_counters
-----------------------------------------------------------------------------
\* DownLinkCounter never leaves 16 bits, for all the 32-bit arithmetic: a
\* sender that has passed 2^16 is not heard through it any more.
WithinModulus == down \in 0 .. Modulus - 1 /\ mcDown \in Nat

\* Whatever the order in which several senders are heard, and whatever was lost
\* of each, the MIC of a frame whose counter is below 2^16 is found correct, and
\* the frame is refused only if its number is the one counted last, for its own
\* address or for another.  The one exception is the first use of the multicast
\* counter, when the heap held a number above 2^16.
EveryFrameHeard ==
    [][\A s \in Senders :
         Hear(s) /\ sent[s] < Modulus /\ sent[s] \notin {down, mcDown}
           => \/ row'.from = s /\ row'.number = sent[s]
              \/ s # addr /\ mcDown >= Modulus]_counters

\* A frame that is repeated reaches the application twice in a row at most,
\* once for each counter, unless its number is 0.
TwiceInARow == row.number # 0 => row.times <= 2
=============================================================================
