--------------------------- MODULE MCTimerServer ---------------------------
(* TimerServer on three timers.  A delay of 1 and one of 2 take the special *)
(* branch of TimerHwStart, a delay of 3 and more does not.                 *)
EXTENDS TimerServer, TLC

CONSTANTS t1, t2, t3

TheTimers == {t1, t2, t3}
TheValues == {1, 3}
Symmetry == Permutations(TheTimers)

=============================================================================
