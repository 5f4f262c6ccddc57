------------------------------ MODULE MCEtimer ------------------------------
(* Etimer with two timers on a clock of six values, which wraps after a    *)
(* few intervals, and a queue of one place, so that it is often full.      *)
EXTENDS Etimer

CONSTANTS t1, t2

TheTimers == {t1, t2}
TheIntervals == {0, 2}
TheAdjustments == {-1}

=============================================================================
