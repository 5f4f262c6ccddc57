------------------------------- MODULE MCLink -------------------------------
(* The link for TLC: one default channel, one further channel in the mask   *)
(* and one beyond it, and every kind of command that differs for them.      *)
EXTENDS Link

Defines(id, freq, lo, hi) == [cmd |-> "newChannel", id |-> id, freq |-> freq, lo |-> lo, hi |-> hi]
Adr(same, cntl, mask, nbRep) ==
    [cmd |-> "linkAdr", same |-> same, cntl |-> cntl, mask |-> mask, nbRep |-> nbRep]

SomeCommands ==
    {Defines(0, "zero", 0, 0), Defines(0, "same", 1, 1), Defines(0, "same", 0, 0),
     Defines(3, "zero", 0, 0), Defines(3, "other", 0, 1), Defines(16, "other", 0, 1),
     Adr(TRUE, 0, {3}, 2), Adr(TRUE, 0, {0}, 1),
     Adr(TRUE, 6, {}, 0), Adr(FALSE, 0, {0}, 1),
     [cmd |-> "rxParam", ok |-> FALSE, rx2 |-> 1], [cmd |-> "rxParam", ok |-> TRUE, rx2 |-> 1],
     [cmd |-> "dutyCycle", max |-> 255], [cmd |-> "rxTiming", delay |-> 2],
     [cmd |-> "devStatus"], [cmd |-> "linkCheckAns"], [cmd |-> "unknown"]}

Same == Permutations(Senders)
=============================================================================
