----------------------------- MODULE TimerRace -----------------------------
(***************************************************************************)
(* TimerServer with the tick interrupt landing inside a call made by the   *)
(* main loop.  TimerStart and TimerStop mask interrupts, but the read of   *)
(* the tick counter at the heart of both, TimerHwGetTimerValue, ends with  *)
(* an unconditional __enable_irq: a tick that became pending meanwhile is  *)
(* served there.  In TimerHwStart that is between the read of the counter  *)
(* and the writes of the two registers computed from it.                   *)
(***************************************************************************)
EXTENDS TimerServer

VARIABLE latch   \* the register values a call has computed and not written

raceVars == <<mem, tick, walk, calls, due, owed, touched, latch>>

NoLatch == [context |-> 0, timeout |-> 0]

RaceInit == Init /\ latch = NoLatch

\* A call by the main loop up to the read of the counter in TimerHwStart:
\* the list is rewritten, the registers still hold the old values.
Interruptible(op) ==
  /\ walk = NULL /\ latch = NoLatch
  /\ <<op.context, op.timeout>> /= <<mem.context, mem.timeout>>
  /\ mem' = [op EXCEPT !.context = mem.context, !.timeout = mem.timeout]
  /\ latch' = [context |-> op.context, timeout |-> op.timeout]
  /\ owed' = {} /\ touched' = FALSE
  /\ UNCHANGED <<tick, walk, calls>>

ThreadStart(t) ==
  /\ mem.reload[t] > 0 /\ t \notin Armed(mem)
  /\ Interruptible(Start(mem, t, tick))
  /\ due' = [due EXCEPT ![t] = tick + mem.reload[t]]

ThreadStop(t) ==
  /\ Interruptible(Stop(mem, t, tick))
  /\ due' = [due EXCEPT ![t] = 0]

\* The interrupted call writes the registers and returns.
ThreadResume ==
  /\ latch /= NoLatch /\ walk = NULL
  /\ mem' = [mem EXCEPT !.context = latch.context, !.timeout = latch.timeout]
  /\ latch' = NoLatch
  /\ UNCHANGED <<tick, walk, calls, due, owed, touched>>

\* At most one tick falls into the window, which is a few instructions long.
RaceTick == Tick /\ latch.context \in {0, tick} /\ UNCHANGED latch

\* While a call is suspended only the handler's callbacks run.
Undivided(A) == (walk = NULL => latch = NoLatch) /\ A /\ UNCHANGED latch

RaceNext ==
  \/ \E t \in Timers : ThreadStart(t) \/ ThreadStop(t)
  \/ ThreadResume
  \/ RaceTick
  \/ Undivided(\E t \in Timers : TimerStart(t))
  \/ Undivided(\E t \in Timers : TimerStop(t))
  \/ Undivided(\E t \in Timers, v \in Values : TimerSetValue(t, v))
  \/ CallbackReturn /\ UNCHANGED latch

RaceSpec == RaceInit /\ [][RaceNext]_raceVars

\* A timer's callback is called at the end of its timeout: no timer stays
\* armed past its due tick by more than the number of the other timers.
CalledAtTheEnd ==
  latch = NoLatch /\ walk = NULL =>
    \A t \in Armed(mem) : tick < due[t] + Cardinality(Timers)

=============================================================================
