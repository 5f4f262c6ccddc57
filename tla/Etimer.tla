------------------------------- MODULE Etimer -------------------------------
(***************************************************************************)
(* The event timers of Contiki as the firmware links them:                 *)
(* contiki-3.0/core/sys/etimer.c on core/sys/timer.c and the clock of      *)
(* cpu/arm/stm32f103/clock.c, whose SysTick interrupt polls etimer_process *)
(* at every tick.                                                          *)
(*                                                                         *)
(* clock_time_t wraps: all times are modulo Wrap.  The process queue is    *)
(* the FIFO of EventQueue, of NumEvents places; the events it holds that   *)
(* are no timer events come from interrupt handlers.  A thread is not      *)
(* interrupted by another thread, so its call of an etimer function is one *)
(* step; the scan of etimer_process is one step per event it posts.        *)
(***************************************************************************)
EXTENDS Integers, FiniteSets, SequencesExt

CONSTANTS
  Timers,      \* the struct etimer objects
  Wrap,        \* the number of values of clock_time_t, 2^32 in the code
  Intervals,   \* the intervals passed to etimer_set
  Adjustments, \* the differences passed to etimer_adjust
  NumEvents,   \* PROCESS_CONF_NUMEVENTS
  OTHEREV,       \* an event that is no timer event
  MaxLag,      \* bound: ticks an expired timer may wait for its event
  MaxPosts     \* bound: events posted by interrupt handlers

Far == Wrap - 1      \* the age of a timer that is not counted any more

ASSUME EtimerAssumption ==
  /\ IsFiniteSet(Timers) /\ OTHEREV \notin Timers
  /\ Wrap \in Nat \ {0} /\ MaxLag \in Nat \ {0} /\ NumEvents \in Nat \ {0}
  /\ \A v \in Intervals : v \in Nat /\ v + MaxLag < Far
  /\ Adjustments \subseteq Int
  /\ MaxPosts \in Nat

VARIABLES
  clock,            \* current_clock
  timerlist,        \* the timers of the list, in its order
  start, interval,  \* the struct timer of each timer
  pending,          \* et->p /= PROCESS_NONE
  next_expiration,
  polled,           \* etimer_process is marked for a poll
  scanning,         \* etimer_process is inside its loop
  queue,            \* the event queue of the kernel
  posts,            \* events interrupt handlers may still post
  age               \* history: ticks since the start time, negative when
                    \* it is ahead of the clock, and Far when too far away

vars == <<clock, timerlist, start, interval, pending, next_expiration, polled,
          scanning, queue, posts, age>>
timers == <<timerlist, start, interval, pending, next_expiration>>

Mod(x) == x % Wrap

\* Bound: no timer that is counted waits MaxLag ticks after its expiry.
InTime(t, a) == a = Far \/ a < interval[t] + MaxLag

\* Mutation: the comparison of absolute times, which the wrap breaks.
TimerExpiredAbsolute(t) == start[t] + interval[t] <= clock

\* timer_expired, in the unsigned arithmetic of clock_time_t.
TimerExpired(t) == interval[t] < Mod(clock - start[t] + 1)

\* update_time: the nearest of the distances that are left, again unsigned.
UpdateTime(list, st, iv) ==
  IF list = <<>> THEN 0
  ELSE LET dist == {Mod(st[t] + iv[t] - clock) : t \in ToSet(list)}
       IN Mod(clock + Min(dist))

Init ==
  /\ clock = 0
  /\ timerlist = <<>>
  /\ start = [t \in Timers |-> 0] /\ interval = [t \in Timers |-> 0]
  /\ pending = [t \in Timers |-> FALSE]
  /\ next_expiration = 0
  /\ polled = FALSE /\ scanning = FALSE
  /\ queue = <<>>
  /\ posts = MaxPosts
  /\ age = [t \in Timers |-> 0]

-----------------------------------------------------------------------------
(* Calls by the threads.                                                   *)

\* Mutation: the list is not searched, a pending timer is linked again.
AddTimerTwice(t) ==
  /\ polled' = TRUE
  /\ timerlist' = <<t>> \o timerlist
  /\ pending' = [pending EXCEPT ![t] = TRUE]
  /\ next_expiration' = UpdateTime(timerlist', start', interval')

\* Mutation: update_time is called before the timer is on the list.
AddTimerUpdatedEarly(t) ==
  /\ polled' = TRUE
  /\ timerlist' = IF pending[t] /\ t \in ToSet(timerlist) THEN timerlist
                  ELSE <<t>> \o timerlist
  /\ pending' = [pending EXCEPT ![t] = TRUE]
  /\ next_expiration' = UpdateTime(timerlist, start', interval')

\* add_timer: a timer on the list keeps its place, another one goes in front.
AddTimer(t) ==
  /\ polled' = TRUE
  /\ timerlist' = IF pending[t] /\ t \in ToSet(timerlist) THEN timerlist
                  ELSE <<t>> \o timerlist
  /\ pending' = [pending EXCEPT ![t] = TRUE]
  /\ next_expiration' = UpdateTime(timerlist', start', interval')

EtimerSet(t, v) ==
  /\ ~scanning
  /\ interval' = [interval EXCEPT ![t] = v]
  /\ start' = [start EXCEPT ![t] = clock]
  /\ age' = [age EXCEPT ![t] = 0]
  /\ AddTimer(t)
  /\ UNCHANGED <<clock, scanning, queue, posts>>

\* The age of a timer whose start time moves on by d.  It is counted while the
\* start time is less than a wrap of the clock behind, and the time of expiry
\* less than a wrap ahead.
Moved(t, d) ==
  IF age[t] = Far \/ age[t] - d >= Far \/ interval[t] - (age[t] - d) >= Wrap
  THEN Far ELSE age[t] - d

\* Mutation: the start time is kept in a type wider than clock_time_t.
ResetUnwrapped(t) ==
  /\ start' = [start EXCEPT ![t] = @ + interval[t]]
  /\ age' = [age EXCEPT ![t] = Moved(t, interval[t])]
  /\ UNCHANGED interval
  /\ AddTimer(t)

\* timer_reset moves the start time on by the interval, past the clock when
\* the timer has not expired: main.c resets its timer after every event.
Reset(t) ==
  /\ start' = [start EXCEPT ![t] = Mod(@ + interval[t])]
  /\ age' = [age EXCEPT ![t] = Moved(t, interval[t])]
  /\ UNCHANGED interval
  /\ AddTimer(t)

EtimerReset(t) ==
  /\ ~scanning
  /\ Reset(t)
  /\ UNCHANGED <<clock, scanning, queue, posts>>

EtimerRestart(t) ==
  /\ ~scanning
  /\ start' = [start EXCEPT ![t] = clock]
  /\ age' = [age EXCEPT ![t] = 0]
  /\ UNCHANGED <<interval, clock, scanning, queue, posts>>
  /\ AddTimer(t)

EtimerAdjust(t, d) ==
  /\ ~scanning /\ InTime(t, Moved(t, d))
  /\ start' = [start EXCEPT ![t] = Mod(@ + d)]
  /\ age' = [age EXCEPT ![t] = Moved(t, d)]
  /\ next_expiration' = UpdateTime(timerlist, start', interval)
  /\ UNCHANGED <<clock, timerlist, interval, pending, polled, scanning, queue, posts>>

EtimerStop(t) ==
  /\ ~scanning
  /\ timerlist' = RemoveFirst(timerlist, t)
  /\ pending' = [pending EXCEPT ![t] = FALSE]
  /\ next_expiration' = IF t \in ToSet(timerlist)
                        THEN UpdateTime(timerlist', start, interval)
                        ELSE next_expiration
  /\ UNCHANGED <<clock, start, interval, polled, scanning, queue, posts, age>>

-----------------------------------------------------------------------------
(* etimer_process.                                                         *)

Poll ==
  /\ polled /\ ~scanning
  /\ polled' = FALSE
  /\ scanning' = TRUE
  /\ UNCHANGED <<clock, timers, queue, posts, age>>

ExpiredOnList == {t \in ToSet(timerlist) : TimerExpired(t)}

\* Mutation: the result of process_post is ignored.
ScanPostUnchecked ==
  /\ scanning
  /\ ExpiredOnList /= {}
  /\ LET i == SelectInSeq(timerlist, TimerExpired)
         t == timerlist[i]
     IN /\ queue' = IF Len(queue) < NumEvents THEN Append(queue, t) ELSE queue
        /\ pending' = [pending EXCEPT ![t] = FALSE]
        /\ timerlist' = RemoveAt(timerlist, i)
        /\ next_expiration' = UpdateTime(timerlist', start, interval)
  /\ UNCHANGED <<clock, start, interval, polled, scanning, posts, age>>

\* One pass of the loop from `again': the first expired timer is posted and
\* unlinked, or, when the queue is full, the process polls itself.
ScanPost ==
  /\ scanning
  /\ ExpiredOnList /= {} /\ Len(queue) < NumEvents
  /\ LET i == SelectInSeq(timerlist, TimerExpired)
         t == timerlist[i]
     IN /\ queue' = Append(queue, t)
        /\ pending' = [pending EXCEPT ![t] = FALSE]
        /\ timerlist' = RemoveAt(timerlist, i)
        /\ next_expiration' = UpdateTime(timerlist', start, interval)
  /\ UNCHANGED <<clock, start, interval, polled, scanning, posts, age>>

ScanEnd ==
  /\ scanning
  /\ ExpiredOnList = {} \/ Len(queue) = NumEvents
  /\ scanning' = FALSE
  /\ polled' = (polled \/ ExpiredOnList /= {})
  /\ UNCHANGED <<clock, timers, queue, posts, age>>

\* The kernel delivers the oldest event.
Deliver ==
  /\ ~scanning
  /\ queue /= <<>>
  /\ queue' = Tail(queue)
  /\ UNCHANGED <<clock, timers, polled, scanning, posts, age>>

-----------------------------------------------------------------------------
(* Interrupts.                                                             *)

\* Mutation: the interrupt does not poll etimer_process.
TickWithoutPoll ==
  /\ \A t \in ToSet(timerlist) : InTime(t, age[t])
  /\ clock' = Mod(clock + 1)
  /\ age' = [t \in Timers |-> IF age[t] < Far THEN age[t] + 1 ELSE Far]
  /\ UNCHANGED <<timers, polled, scanning, queue, posts>>

\* SysTick_Handler.
Tick ==
  /\ \A t \in ToSet(timerlist) : InTime(t, age[t])
  /\ clock' = Mod(clock + 1)
  /\ polled' = (polled \/ timerlist /= <<>>)
  /\ age' = [t \in Timers |-> IF age[t] < Far THEN age[t] + 1 ELSE Far]
  /\ UNCHANGED <<timers, scanning, queue, posts>>

IsrPost ==
  /\ posts > 0 /\ Len(queue) < NumEvents
  /\ queue' = Append(queue, OTHEREV)
  /\ posts' = posts - 1
  /\ UNCHANGED <<clock, timers, polled, scanning, age>>

Kernel == Poll \/ ScanPost \/ ScanEnd \/ Deliver

Next ==
  \/ \E t \in Timers, v \in Intervals : EtimerSet(t, v)
  \/ \E t \in Timers : EtimerReset(t)
  \/ \E t \in Timers : EtimerRestart(t)
  \/ \E t \in Timers, d \in Adjustments : EtimerAdjust(t, d)
  \/ \E t \in Timers : EtimerStop(t)
  \/ Kernel
  \/ Tick
  \/ IsrPost

Spec == Init /\ [][Next]_vars

\* SysTick never stops, and process_run goes on for ever, alternating a poll
\* with an event: a delivery is not put off for ever by the polls.
FairSpec ==
  /\ Spec
  /\ WF_vars(Tick)
  /\ WF_vars(Poll) /\ WF_vars(ScanPost \/ ScanEnd) /\ SF_vars(Deliver)

-----------------------------------------------------------------------------
(* Properties.                                                             *)

\* Every variable keeps its shape.
TypeOK ==
  /\ clock \in 0 .. Far
  /\ timerlist \in Seq(Timers)
  /\ start \in [Timers -> 0 .. Far] /\ interval \in [Timers -> Nat]
  /\ pending \in [Timers -> BOOLEAN]
  /\ next_expiration \in 0 .. Far
  /\ polled \in BOOLEAN /\ scanning \in BOOLEAN
  /\ queue \in Seq(Timers \cup {OTHEREV}) /\ Len(queue) <= NumEvents
  /\ posts \in 0 .. MaxPosts
  /\ age \in [Timers -> Int]

\* A timer is linked once, and exactly while its process field is set: that
\* field is all that add_timer and etimer_expired look at.
PendingIsListed ==
  /\ IsInjective(timerlist)
  /\ \A t \in Timers : pending[t] <=> t \in ToSet(timerlist)

\* The unsigned comparison of timer_expired, across wraps of the clock, says
\* of a timer on the list what the ticks that really passed say, except of one
\* whose start time is more than a tick ahead of the clock: that one counts as
\* expired at once.
ExpiryIsExact ==
  \A t \in ToSet(timerlist) : age[t] < Far =>
    (TimerExpired(t) <=> age[t] >= interval[t] \/ age[t] < -1)

\* While no timer is overdue, next_expiration is the time of the first one to
\* expire, whatever was set, reset, stopped or removed since it was computed.
NextExpirationIsFirst ==
  (\A t \in ToSet(timerlist) : age[t] < interval[t]) /\ timerlist /= <<>> =>
    /\ \E t \in ToSet(timerlist) : next_expiration = Mod(start[t] + interval[t])
    /\ \A t \in ToSet(timerlist) :
         Mod(next_expiration - clock) <= interval[t] - age[t]

\* etimer_process takes a timer off its list only with its event in the queue,
\* so that a full queue loses no timer event, and only when the interval has
\* passed or the start time was moved ahead of the clock.
PostedWhenExpired ==
  [][\A t \in Timers : scanning /\ pending[t] /\ ~pending'[t] =>
       /\ age[t] >= interval[t] \/ age[t] < -1
       /\ queue' = Append(queue, t)]_vars

\* An expired timer that is left alone is served: a full queue, or timers set
\* later and scanned first, only delay its event, as etimer_process polls
\* itself until the event is accepted.  (Calls that go on making other timers
\* expire at once can keep a queue of one place full.)
ExpiredIsPosted ==
  \A t \in Timers :
    <>[][/\ start'[t] = start[t]
         /\ clock' = clock =>
              \A u \in Timers : pending'[u] /\ TimerExpired(u)' =>
                                  pending[u] /\ TimerExpired(u)]_vars =>
      (pending[t] /\ age[t] >= interval[t] ~> ~pending[t] \/ age[t] = Far)

=============================================================================
