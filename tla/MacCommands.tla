---------------------------- MODULE MacCommands ----------------------------
(***************************************************************************)
(* The MAC commands of the network: ProcessMacCommands, AddMacCommand,     *)
(* LoRaMacChannelAdd and LoRaMacChannelRemove of mac/LoRaMac.c, built for  *)
(* the 433 MHz band with ADR off, as operators on the parameters m of the  *)
(* link.  A command is a record; what its fields abstract is said at each. *)
(***************************************************************************)
EXTENDS Integers, SequencesExt

CONSTANTS Defaults,      \* the channels LC1, LC2 and LC3
          Wide,          \* the channels 16 .. 31, without a bit in ChannelsMask
          Ids,           \* all channels, 0 .. LORA_MAX_NB_CHANNELS - 1
          MaxDr,         \* DR_5 = LORAMAC_MAX_DATARATE
          MaxLength      \* LORA_MAC_COMMAND_MAX_LENGTH

ASSUME CommandAssumption ==
    /\ Defaults # {} /\ Defaults \subseteq Ids /\ Wide \subseteq Ids \ Defaults
    /\ MaxDr \in Nat /\ MaxLength \in Nat

\* The commands of the network.  A channel beyond the table is not among them.
Command ==
    [cmd : {"newChannel"}, id : Ids, freq : {"zero", "same", "other"}, lo : Int, hi : Int]
      \cup [cmd : {"linkAdr"}, same : BOOLEAN, cntl : 0 .. 7, mask : SUBSET (Ids \ Wide), nbRep : Nat]
      \cup [cmd : {"rxParam"}, ok : BOOLEAN, rx2 : Nat]
      \cup [cmd : {"dutyCycle"}, max : Nat]
      \cup [cmd : {"rxTiming"}, delay : Nat]
      \cup [cmd : {"devStatus", "linkCheckAns", "unknown"}]

Answers ==
    [to : {"linkAdr", "rxParam", "newChannel", "devStatus", "dutyCycle", "rxTiming"},
     ok : BOOLEAN]

\* A channel with frequency 0 is not defined; DrRange is lo .. hi.
Channel == [defined : BOOLEAN, lo : Int, hi : Int]

\* The parameters of the link; ChannelsMask[ 0 ] has 16 bits.
Settings ==
    [channel : [Ids -> Channel], mask : SUBSET (Ids \ Wide), nbRep : Nat, dutyCycle : Nat,
     rx2 : Nat, delay : Nat, answers : Seq(Answers)]

Undefined == [defined |-> FALSE, lo |-> 0, hi |-> 0]

\* The parameters LoRaMacInitialization sets.
Factory ==
    [channel |-> [i \in Ids |-> IF i \in Defaults
                                THEN [defined |-> TRUE, lo |-> 0, hi |-> MaxDr]
                                ELSE Undefined],
     mask |-> Defaults,          \* ChannelsMask[ 0 ]
     nbRep |-> 1, dutyCycle |-> 0, rx2 |-> 0, delay |-> 1,
     answers |-> <<>>]           \* MacCommandsBuffer

\* UserChannelAddFun, which main calls before the kernel runs, adds all the other
\* channels of the table with DR_0 .. DR_5.
UserChannelAddFun(m) ==
    [m EXCEPT !.channel = [i \in Ids |-> IF i \in Defaults THEN @[i]
                                         ELSE [defined |-> TRUE, lo |-> 0, hi |-> MaxDr]],
              !.mask = @ \cup (Ids \ Wide)]

Size(answer) ==
    CASE answer.to \in {"linkAdr", "rxParam", "newChannel"} -> 2
      [] answer.to = "devStatus" -> 3
      [] answer.to \in {"dutyCycle", "rxTiming"} -> 1

\* MacCommandsBufferIndex: the bytes used.
Length(answers) ==
    LET used[i \in 0 .. Len(answers)] == IF i = 0 THEN 0 ELSE used[i - 1] + Size(answers[i])
    IN  used[Len(answers)]

\* Mutation: a last byte beyond the buffer.
FitsUnguarded(m, answer) == Length(m.answers) < MaxLength

Fits(m, answer) == Length(m.answers) + Size(answer) <= MaxLength

\* AddMacCommand, whose status ProcessMacCommands does not look at.
Answer(m, to, ok) ==
    LET answer == [to |-> to, ok |-> ok]
    IN  IF Fits(m, answer) THEN [m EXCEPT !.answers = Append(@, answer)] ELSE m
-----------------------------------------------------------------------------
(* Channels.                                                               *)

\* LoRaMacChannelAdd with a frequency: for a default channel only its own
\* frequency, and a range that ends with DR_5.  The lower end of its range is
\* compared with LORAMAC_DEFAULT_DATARATE, here the address of the datarate in
\* the flash (user-app.h), which no datarate exceeds.
MayAdd(c) ==
    /\ c.id \in Ids
    /\ 0 <= c.lo /\ c.lo <= c.hi /\ c.hi <= MaxDr
    /\ c.id \in Defaults => c.freq = "same" /\ c.hi = MaxDr

\* ChannelsMask[ 0 ] |= 1 << id keeps 16 bits.
ChannelAdd(m, c) ==
    [m EXCEPT !.channel[c.id] = [defined |-> TRUE, lo |-> c.lo, hi |-> c.hi],
              !.mask = @ \cup ({c.id} \ Wide)]

\* Mutation: default channels can be removed.
MayRemoveAny(c) == c.id \in Ids

MayRemove(c) == c.id \in Ids \ Defaults

ChannelRemove(m, c) ==
    [m EXCEPT !.channel[c.id] = Undefined, !.mask = @ \ {c.id}]

\* SRV_MAC_NEW_CHANNEL_REQ; c.freq is "zero", the channel's "same", or "other".
NewChannelOk(c) == IF c.freq = "zero" THEN MayRemove(c) ELSE MayAdd(c)

NewChannel(m, c) ==
    IF ~NewChannelOk(c) THEN m
    ELSE IF c.freq = "zero" THEN ChannelRemove(m, c) ELSE ChannelAdd(m, c)
-----------------------------------------------------------------------------
(* SRV_MAC_LINK_ADR_REQ.  With ADR off a request for another datarate or   *)
(* power (~c.same) is refused as a whole.                                  *)

Defined(m) == {i \in Ids : m.channel[i].defined}

\* c.cntl is ChMaskCntl; 6 adds all defined channels to the mask given.
LinkAdrOk(m, c) ==
    /\ c.same
    /\ \/ c.cntl = 6
       \/ c.cntl = 0 /\ c.mask # {} /\ c.mask \subseteq Defined(m)

\* Mutation: the mask is set before the request is judged.
LinkAdrHalf(m, c) ==
    IF ~LinkAdrOk(m, c) THEN [m EXCEPT !.mask = IF c.cntl = 0 THEN c.mask ELSE @]
    ELSE [m EXCEPT !.mask = IF c.cntl = 6 THEN c.mask \cup (Defined(m) \ Wide) ELSE c.mask,
                   !.nbRep = IF c.nbRep = 0 THEN 1 ELSE c.nbRep]

LinkAdr(m, c) ==
    IF ~LinkAdrOk(m, c) THEN m
    ELSE [m EXCEPT !.mask = IF c.cntl = 6 THEN c.mask \cup (Defined(m) \ Wide) ELSE c.mask,
                   !.nbRep = IF c.nbRep = 0 THEN 1 ELSE c.nbRep]
-----------------------------------------------------------------------------
(* ProcessMacCommands.                                                     *)

\* SRV_MAC_RX_PARAM_SETUP_REQ: c.ok, are the datarate and the offset in range?
\* c.rx2 stands for the three parameters.  The frequency is never refused.
Good(m, c) ==
    CASE c.cmd = "linkAdr"    -> LinkAdrOk(m, c)
      [] c.cmd = "newChannel" -> NewChannelOk(c)
      [] c.cmd = "rxParam"    -> c.ok
      [] OTHER                -> TRUE

Applied(m, c) ==
    CASE c.cmd = "linkAdr"    -> LinkAdr(m, c)
      [] c.cmd = "newChannel" -> NewChannel(m, c)
      [] c.cmd = "rxParam"    -> IF c.ok THEN [m EXCEPT !.rx2 = c.rx2] ELSE m
      [] c.cmd = "dutyCycle"  -> [m EXCEPT !.dutyCycle = c.max]
      [] c.cmd = "rxTiming"   -> [m EXCEPT !.delay = IF c.delay = 0 THEN 1 ELSE c.delay]
      [] OTHER                -> m

\* One command: applied, then answered with its status (an answer without a
\* status says TRUE).  LinkCheckAns has no answer.
Handle(m, c) ==
    IF c.cmd = "linkCheckAns" THEN m ELSE Answer(Applied(m, c), c.cmd, Good(m, c))

\* The commands of a frame up to the first unknown one.
Known(cmds) ==
    LET Unknown(c) == c.cmd = "unknown"
        first == SelectInSeq(cmds, Unknown)
    IN  IF first = 0 THEN cmds ELSE SubSeq(cmds, 1, first - 1)

\* The parameters after each of the commands, and before the first at 0.
Obeyed(m, cmds) ==
    LET after[i \in 0 .. Len(cmds)] == IF i = 0 THEN m ELSE Handle(after[i - 1], cmds[i])
    IN  after

ProcessMacCommands(m, cmds) == Obeyed(m, Known(cmds))[Len(Known(cmds))]
=============================================================================
