---------------------------- MODULE MCTimerRace ----------------------------
(* TimerRace on two timers with the delays the MAC uses most: 1 ms, for the *)
(* state check, and a longer one.                                          *)
EXTENDS TimerRace, TLC

CONSTANTS t1, t2

TheTimers == {t1, t2}
TheValues == {1, 3}

=============================================================================
