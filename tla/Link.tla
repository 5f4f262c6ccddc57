-------------------------------- MODULE Link --------------------------------
(***************************************************************************)
(* The link as its senders and the network see it: frames that are taken   *)
(* (Downlink) carry MAC commands (MacCommands), which change the channels  *)
(* the next frame of the device can use, and leave answers to be sent with *)
(* it: PrepareFrame, ScheduleTx and SetNextChannel of mac/LoRaMac.c.       *)
(*                                                                         *)
(* Commands in FOpts and in the payload of port 0 are one list.  The duty  *)
(* cycle only delays a transmission and is left out, except for 255.       *)
(***************************************************************************)
EXTENDS Downlink, MacCommands

CONSTANTS Commands,      \* the commands of the network, records
          DefaultDr,     \* ChannelsDefaultDatarate
          MaxWork        \* bound: frames numbered, a command counts for three

ASSUME LinkAssumption ==
    Commands \subseteq Command /\ DefaultDr \in 0 .. MaxDr /\ MaxWork \in Nat

VARIABLES link,          \* the parameters of the link
          carried,       \* the commands in the last frame of each sender
          owed,          \* history: the answers due since a frame last emptied the
                         \* buffer, up to the first that has no room
          work           \* frames and commands so far

linkVars == <<link, carried, owed, work>>
-----------------------------------------------------------------------------
(* Uplink.                                                                 *)

\* The channels SetNextChannel finds; an empty mask gets the default channels.
Enabled(m) == IF m.mask = {} THEN Defaults ELSE m.mask

Usable(m, mask, dr) ==
    {i \in mask : m.channel[i].defined /\ dr \in m.channel[i].lo .. m.channel[i].hi}

\* ScheduleTx repeats the search with the default datarate and channels.  If
\* this finds nothing either, nothing changes any more and the loop never ends.
MaskFound(m, dr) ==
    IF Usable(m, Enabled(m), dr) # {} THEN Enabled(m) ELSE Enabled(m) \cup Defaults

SearchFinds(m, dr) ==
    \/ Usable(m, Enabled(m), dr) # {}
    \/ Usable(m, Enabled(m) \cup Defaults, DefaultDr) # {}

\* LORAMAC_STATUS_DEVICE_OFF: nothing is transmitted.
DeviceOff(m) == m.dutyCycle = 255

ScheduleTx(m, dr) ==
    IF DeviceOff(m) THEN m
    ELSE [m EXCEPT !.mask = MaskFound(m, dr)]

CanSchedule(dr) == DeviceOff(link) \/ SearchFinds(link, dr)
-----------------------------------------------------------------------------
LinkInit ==
    /\ Init
    /\ link = UserChannelAddFun(Factory)
    /\ carried = [s \in Senders |-> <<>>]
    /\ owed = <<>> /\ work = 0

\* Sender s numbers a frame with at most two commands.
NewFrameWith(s, cmds) ==
    /\ NewFrame(s)
    /\ work + 1 + 3 * Len(cmds) <= MaxWork
    /\ work' = work + 1 + 3 * Len(cmds)
    /\ carried' = [carried EXCEPT ![s] = cmds]
    /\ UNCHANGED <<link, owed>>

\* The answers that cmds call for, were there room for all.
AnswersTo(m, cmds) ==
    LET known == Known(cmds)
        Reply(i) == [to |-> known[i].cmd, ok |-> Good(Obeyed(m, known)[i - 1], known[i])]
        told[i \in 0 .. Len(known)] ==
            IF i = 0 THEN <<>>
            ELSE IF known[i].cmd = "linkCheckAns" THEN told[i - 1]
            ELSE Append(told[i - 1], Reply(i))
    IN  told[Len(known)]

HearFrame(s) ==
    /\ Hear(s)
    /\ IF Taken(s)
       THEN /\ link' = ProcessMacCommands(link, carried[s])
            /\ owed' = IF Length(owed) > MaxLength THEN owed
                       ELSE owed \o AnswersTo(link, carried[s])
       ELSE UNCHANGED <<link, owed>>
    /\ UNCHANGED <<carried, work>>

HearOther(x) == HearStranger(x) /\ UNCHANGED linkVars

\* Mutation: the buffer of answers is emptied before the length is checked.
UplinkClearsFirst(dr, fits) ==
    /\ fits => CanSchedule(dr)
    /\ link' = IF fits THEN ScheduleTx([link EXCEPT !.answers = <<>>], dr)
               ELSE [link EXCEPT !.answers = <<>>]
    /\ owed' = IF fits THEN <<>> ELSE owed
    /\ UNCHANGED <<carried, work, counters>>

\* A request of the application: its frame takes the answers along, unless they
\* do not fit together at this datarate (LORAMAC_STATUS_LENGTH_ERROR).  When
\* ScheduleTx refuses the frame the buffer is empty already.
Uplink(dr, fits) ==
    /\ fits => CanSchedule(dr)
    /\ link' = IF fits THEN ScheduleTx([link EXCEPT !.answers = <<>>], dr) ELSE link
    /\ owed' = IF fits THEN <<>> ELSE owed
    /\ UNCHANGED <<carried, work, counters>>

\* A further trial sends the same frame: the answers since then stay.
Retransmit(dr) ==
    /\ CanSchedule(dr)
    /\ link' = ScheduleTx(link, dr)
    /\ UNCHANGED <<carried, owed, work, counters>>

\* A confirmed frame is given up: the default channels are enabled again.
GiveUp ==
    /\ link' = [link EXCEPT !.mask = @ \cup Defaults]
    /\ UNCHANGED <<carried, owed, work, counters>>

\* The commands a frame may carry.
Frames == {<<>>} \cup {<<c>> : c \in Commands} \cup (Commands \X Commands)

LinkNext ==
    \/ \E s \in Senders : HearFrame(s) \/ \E cmds \in Frames : NewFrameWith(s, cmds)
    \/ \E x \in Strangers : HearOther(x)
    \/ GiveUp
    \/ \E dr \in 0 .. DefaultDr : Retransmit(dr) \/ \E fits \in BOOLEAN : Uplink(dr, fits)

LinkSpec == LinkInit /\ [][LinkNext]_<<counters, linkVars>>
-----------------------------------------------------------------------------
\* ChannelsMask[ 0 ] has 16 bits: it never holds a channel beyond them, and the
\* channels of the commands are those of the table.
TypeOK ==
    /\ link \in Settings
    /\ carried \in [Senders -> Seq(Commands)]
    /\ owed \in Seq(Answers) /\ work \in 0 .. MaxWork

\* MacCommandsBuffer has 15 bytes, and FOptsLen four bits: no sequence of
\* commands between two frames of the device makes the answers longer.
AnswersFit == Length(link.answers) <= MaxLength

\* As long as the answers to all commands since a frame last emptied the buffer
\* have room, the next frame finds all of them in the order of the commands,
\* however often the application's frames were too long or repeated in between.
\* (A frame refused with LORAMAC_STATUS_DEVICE_OFF empties the buffer too, and
\* what was in it is never sent.)
AnswersComplete == Length(owed) <= MaxLength => link.answers = owed

\* Whatever a frame with commands changes is told to the network: one of the
\* answers it left accepts something, unless the answers did not all fit.
Parameters(m) == [m EXCEPT !.answers = <<>>]

ChangesAreTold ==
    [][(\E s \in Senders : HearFrame(s)) /\ Parameters(link') # Parameters(link)
         => \/ \E i \in Len(link.answers) + 1 .. Len(link'.answers) : link'.answers[i].ok
            \/ Length(owed') > MaxLength]_<<counters, linkVars>>

\* The loop of ScheduleTx ends, whatever commands were obeyed before, when the
\* default datarate is DR_5: the default channels stay, with ranges up to DR_5.
SearchEnds == \A dr \in 0 .. DefaultDr : SearchFinds(link, dr)
=============================================================================
