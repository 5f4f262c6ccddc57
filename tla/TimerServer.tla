---------------------------- MODULE TimerServer ----------------------------
(***************************************************************************)
(* The software timers of the gateway: HAL/src/timerserver.c on the tick   *)
(* counter of HAL/src/timer-board.c, driven by the 1 ms TIM2 interrupt of  *)
(* USER/stm32l0xx_it.c.                                                    *)
(*                                                                         *)
(* Armed timers form a linked list whose Timestamp fields are DELTAS: the  *)
(* head's counts from the moment it was loaded into the hardware           *)
(* (`context'), every other one from the expiry of its predecessor.  The   *)
(* pointers are kept as the code keeps them, because TimerIrqHandler walks *)
(* the expired timers through their Next fields while their callbacks      *)
(* re-arm timers and overwrite those very fields.                          *)
(*                                                                         *)
(* A call of TimerStart, TimerStop or TimerSetValue is one step here: it   *)
(* takes effect between two ticks.  The interrupt that can land inside a   *)
(* call is the subject of TimerRace.                                       *)
(***************************************************************************)
EXTENDS Integers, FiniteSets, SequencesExt

CONSTANTS
  Timers,     \* the TimerEvent_t objects
  NULL,       \* the null pointer
  Values,     \* the delays, in ms, callers pass to TimerSetValue
  MaxTick,    \* bound: ticks explored
  MaxCalls    \* bound: timer calls explored inside one callback

ASSUME TimerAssumption ==
  /\ IsFiniteSet(Timers)
  /\ NULL \notin Timers
  /\ Values \subseteq Nat
  /\ MaxTick \in Nat \ {0} /\ MaxCalls \in Nat

VARIABLES
  mem,        \* the list, its timers and the hardware registers
  tick,       \* TimerTickCounter
  walk,       \* elapsedTimer of a running TimerIrqHandler, NULL outside one
  calls,      \* timer calls the running callback may still make
  due,        \* history: the tick at which an armed timer's delay ends, or 0
  owed,       \* history: timers this run of the handler has yet to call
  touched     \* history: has a callback broken the walk to those?

vars == <<mem, tick, walk, calls, due, owed, touched>>

Pointers == Timers \cup {NULL}

Shape == [head : Pointers, next : [Timers -> Pointers],
          ts : [Timers -> Nat], reload : [Timers -> Nat],
          running : [Timers -> BOOLEAN], context : Nat, timeout : Nat]

-----------------------------------------------------------------------------
(* The linked list.                                                        *)

\* The orders in which timers can be linked.
Chains == UNION {Injection(1 .. n, Timers) : n \in 0 .. Cardinality(Timers)}

\* What TimerExists walks: from TimerListHead through the Next fields to NULL.
IsList(m, l) ==
  /\ m.head = IF l = <<>> THEN NULL ELSE l[1]
  /\ \A i \in 1 .. Len(l) : m.next[l[i]] = IF i = Len(l) THEN NULL ELSE l[i + 1]

\* The timers reached from TimerListHead, in order.
List(m) == CHOOSE l \in Chains : IsList(m, l)

Armed(m) == ToSet(List(m))

-----------------------------------------------------------------------------
(* The hardware counter, timer-board.c.                                    *)

\* Mutation: the short delays are not rounded up to the next tick.
SetTimeoutUnrounded(m, now) ==
  [m EXCEPT !.context = now, !.timeout = now + m.ts[m.head] - 1]

\* TimerHwStart: a delay of 1 or 2 ends at the next tick, a longer one is
\* shortened by one because TimerHwGetElapsedTime counts the current tick.
SetTimeout(m, now) ==
  [m EXCEPT !.context = now,
            !.timeout = IF m.ts[m.head] <= 2 THEN now + 1
                        ELSE now + m.ts[m.head] - 1]

Elapsed(m, now) == now - m.context + 1

\* What is left of the head's delay (TimerStart and TimerStop).
Remaining(m, now) ==
  LET h == m.head
  IN IF m.running[h]
     THEN IF Elapsed(m, now) > m.ts[h] THEN 0 ELSE m.ts[h] - Elapsed(m, now)
     ELSE m.ts[h]

-----------------------------------------------------------------------------
(* The operations on the list.                                             *)

\* Mutation: the timer that loses the head keeps its IsRunning flag.
InsertNewHeadLeftRunning(m, t, remaining, now) ==
  LET old   == m.head
      moved == IF old = NULL THEN m
               ELSE [m EXCEPT !.ts[old] = remaining - m.ts[t]]
  IN SetTimeout([moved EXCEPT !.next[t] = old, !.running[t] = TRUE,
                              !.head = t], now)

InsertNewHead(m, t, remaining, now) ==
  LET old   == m.head
      moved == IF old = NULL THEN m
               ELSE [m EXCEPT !.ts[old] = remaining - m.ts[t],
                              !.running[old] = FALSE]
  IN SetTimeout([moved EXCEPT !.next[t] = old, !.running[t] = TRUE,
                              !.head = t], now)

\* The running totals of the numbers d, the first of which counts as first.
Totals(first, d) ==
  LET sum[i \in DOMAIN d] == IF i = 1 THEN first ELSE sum[i - 1] + d[i]
  IN sum

\* Mutation: the timer behind the new one keeps its whole delta.
InsertTimerUncharged(m, t, remaining) ==
  LET l == List(m)
      sum == Totals(remaining, [i \in 1 .. Len(l) |-> m.ts[l[i]]])
      pos == CHOOSE i \in 1 .. Len(l) :
               /\ i = Len(l) \/ sum[i + 1] > m.ts[t]
               /\ \A j \in 1 .. i - 1 : sum[j + 1] <= m.ts[t]
  IN [m EXCEPT !.ts[t] = @ - sum[pos], !.next[l[pos]] = t,
               !.next[t] = IF pos = Len(l) THEN NULL ELSE l[pos + 1]]

\* TimerInsertTimer: after the last timer that ends no later than t does.
InsertTimer(m, t, remaining) ==
  LET l == List(m)
      sum == Totals(remaining, [i \in 1 .. Len(l) |-> m.ts[l[i]]])
      pos == CHOOSE i \in 1 .. Len(l) :
               /\ i = Len(l) \/ sum[i + 1] > m.ts[t]
               /\ \A j \in 1 .. i - 1 : sum[j + 1] <= m.ts[t]
      delta == m.ts[t] - sum[pos]
      cur   == IF pos = Len(l) THEN NULL ELSE l[pos + 1]
      linked == [m EXCEPT !.ts[t] = delta, !.next[l[pos]] = t, !.next[t] = cur]
  IN IF cur = NULL THEN linked ELSE [linked EXCEPT !.ts[cur] = @ - delta]

\* Mutation: no TimerExists test, a listed timer is linked a second time.
StartTwice(m, t, now) ==
  LET fresh == [m EXCEPT !.ts[t] = m.reload[t], !.running[t] = FALSE]
      left  == Remaining(fresh, now)
  IN IF m.head = NULL THEN InsertNewHead(fresh, t, fresh.ts[t], now)
     ELSE IF fresh.ts[t] < left THEN InsertNewHead(fresh, t, left, now)
     ELSE InsertTimer(fresh, t, left)

Start(m, t, now) ==
  IF t \in Armed(m) THEN m
  ELSE LET fresh == [m EXCEPT !.ts[t] = m.reload[t], !.running[t] = FALSE]
           left  == Remaining(fresh, now)
       IN IF m.head = NULL THEN InsertNewHead(fresh, t, fresh.ts[t], now)
          ELSE IF fresh.ts[t] < left THEN InsertNewHead(fresh, t, left, now)
          ELSE InsertTimer(fresh, t, left)

\* Stopping a timer leaves its delay to its successor.
StopHead(m, now) ==
  LET h == m.head
      n == m.next[h]
      on == [m EXCEPT !.head = n, !.ts[n] = @ + Remaining(m, now)]
  IN IF n = NULL THEN [m EXCEPT !.head = NULL]
     ELSE IF ~m.running[h] THEN on
     ELSE SetTimeout([on EXCEPT !.running[h] = FALSE, !.running[n] = TRUE], now)

StopWithin(m, t) ==
  LET prev == CHOOSE p \in Armed(m) : m.next[p] = t
      n    == m.next[t]
      cut  == [m EXCEPT !.next[prev] = n]
  IN IF n = NULL THEN cut ELSE [cut EXCEPT !.ts[n] = @ + m.ts[t]]

Stop(m, t, now) ==
  IF t \notin Armed(m) THEN m
  ELSE IF m.head = t THEN StopHead(m, now)
  ELSE StopWithin(m, t)

\* TimerSetValue stops the timer first; the shortest delay is one tick.
SetValue(m, t, v, now) ==
  LET value == IF v < 1 THEN 1 ELSE v
  IN [Stop(m, t, now) EXCEPT !.ts[t] = value, !.reload[t] = value]

-----------------------------------------------------------------------------
(* TimerIrqHandler up to the callbacks: charge the elapsed time to the     *)
(* head and unlink the timers that are due.                                *)

\* Mutation: the elapsed time is not clamped to the delay.
ChargeUnclamped(m, now) == [m EXCEPT !.ts[m.head] = @ - Elapsed(m, now)]

\* Mutation: the head is not charged for the time that has passed.
ChargeNothing(m, now) == m

Charge(m, now) ==
  [m EXCEPT !.ts[m.head] = IF Elapsed(m, now) > @ THEN 0 ELSE @ - Elapsed(m, now)]

\* The leading timers of the list whose delta is spent.
Expired(m) ==
  LET l == List(m)
  IN {l[i] : i \in {k \in 1 .. Len(l) : \A j \in 1 .. k : m.ts[l[j]] = 0}}

\* The head is the first timer whose delta is not spent.
Unlink(m) ==
  LET l    == List(m)
      live == {i \in 1 .. Len(l) : m.ts[l[i]] /= 0}
  IN [m EXCEPT !.head = IF live = {} THEN NULL ELSE l[Min(live)]]

\* The last lines of the handler: load the next timer.
Reload(m, now) ==
  IF m.head = NULL THEN m
  ELSE SetTimeout([m EXCEPT !.running[m.head] = TRUE], now)

\* Mutation: only a timer that is marked running is called.
WalkRunning(m, p) == IF p /= NULL /\ m.ts[p] = 0 /\ m.running[p] THEN p ELSE NULL

\* The callback to run next, if the handler's loop goes on at p.
WalkFrom(m, p) == IF p /= NULL /\ m.ts[p] = 0 THEN p ELSE NULL

-----------------------------------------------------------------------------
Init ==
  /\ mem = [head |-> NULL, next |-> [t \in Timers |-> NULL],
            ts |-> [t \in Timers |-> 0], reload |-> [t \in Timers |-> 0],
            running |-> [t \in Timers |-> FALSE], context |-> 0, timeout |-> 0]
  /\ tick = 1
  /\ walk = NULL
  /\ calls = 0
  /\ due = [t \in Timers |-> 0]
  /\ owed = {}
  /\ touched = FALSE

\* A call on t may come from the main loop or a radio interrupt (outside the
\* handler), or from the callback that the handler is running.  Does it break
\* the handler's walk to the timers that wait to be called?
MayCall(t, breaks) ==
  /\ walk /= NULL => calls > 0
  /\ calls' = IF walk = NULL THEN 0 ELSE calls - 1
  /\ owed' = IF walk = NULL THEN {} ELSE IF breaks THEN owed \ {t} ELSE owed
  /\ touched' = (walk /= NULL /\ (touched \/ breaks))
  /\ UNCHANGED <<tick, walk>>

Waiting == owed \ {walk}

\* TimerStart rewrites the Next field of its timer, which the walk follows.
TimerStart(t) ==
  /\ MayCall(t, Waiting /= {} /\ t \in owed \cup {walk})
  /\ mem.reload[t] > 0
  /\ mem' = Start(mem, t, tick)
  /\ due' = IF t \in Armed(mem) THEN due
            ELSE [due EXCEPT ![t] = tick + mem.reload[t]]

\* TimerStop finds only timers of the list, and those that wait are off it: it
\* is a no-op on them and they are called all the same.
TimerStop(t) ==
  /\ MayCall(t, FALSE)
  /\ mem' = Stop(mem, t, tick)
  /\ due' = [due EXCEPT ![t] = 0]

\* TimerSetValue raises the Timestamp of its timer, at which the walk ends.
TimerSetValue(t, v) ==
  /\ MayCall(t, t \in Waiting)
  /\ mem' = SetValue(mem, t, v, tick)
  /\ due' = [due EXCEPT ![t] = 0]

\* TIM2_IRQHandler.  The test on the tick counter is an equality.
Tick ==
  /\ walk = NULL
  /\ tick < MaxTick
  /\ tick' = tick + 1
  /\ IF tick' = mem.timeout /\ mem.head /= NULL
     THEN LET m == Charge(mem, tick')
          IN /\ walk' = WalkFrom(m, m.head)
             /\ owed' = Expired(m)
             /\ touched' = FALSE
             /\ due' = [t \in Timers |-> IF t \in Expired(m) THEN 0 ELSE due[t]]
             /\ calls' = IF walk' = NULL THEN 0 ELSE MaxCalls
             /\ mem' = IF walk' = NULL THEN Reload(Unlink(m), tick') ELSE Unlink(m)
     ELSE /\ owed' = {} /\ touched' = FALSE
          /\ UNCHANGED <<mem, walk, calls, due>>

\* The callback of `walk' returns and the loop follows its Next field.
CallbackReturn ==
  /\ walk /= NULL
  /\ walk' = WalkFrom(mem, mem.next[walk])
  /\ calls' = IF walk' = NULL THEN 0 ELSE MaxCalls
  /\ mem' = IF walk' = NULL THEN Reload(mem, tick) ELSE mem
  /\ owed' = owed \ {walk}
  /\ UNCHANGED <<tick, due, touched>>

Next ==
  \/ \E t \in Timers : TimerStart(t)
  \/ \E t \in Timers : TimerStop(t)
  \/ \E t \in Timers, v \in Values : TimerSetValue(t, v)
  \/ Tick
  \/ CallbackReturn

Spec == Init /\ [][Next]_vars

-----------------------------------------------------------------------------
(* Properties.                                                             *)

\* Every variable keeps its shape.  For the Timestamp fields that is a claim:
\* they are uint32_t, and no subtraction of the list code takes one below
\* zero, which would throw a timer 2^32 ms into the future.
TypeOK ==
  /\ mem \in Shape
  /\ tick \in 1 .. MaxTick
  /\ walk \in Pointers /\ calls \in 0 .. MaxCalls
  /\ due \in [Timers -> Nat] /\ owed \subseteq Timers
  /\ touched \in BOOLEAN

\* The list that TimerStart, TimerStop and the handler rewrite through raw
\* pointers stays a list: following Next from TimerListHead ends at NULL.
Acyclic == \E l \in Chains : IsList(mem, l)

\* Outside the handler the head, and only the head, is marked running: that
\* flag is what TimerStart and TimerStop use to measure the time left.
OnlyHeadRuns ==
  walk = NULL => \A t \in Armed(mem) : mem.running[t] <=> t = mem.head

\* TIM2_IRQHandler compares the tick counter with TimeoutCntValue by
\* equality: while a timer is armed that value must be still to come, or no
\* timer of the system ever fires again.
AlarmAhead == mem.head /= NULL /\ walk = NULL => mem.timeout > tick

\* The tick at which the armed timers will fire if nobody calls any more.
Plan(m) ==
  LET l  == List(m)
      at == Totals(m.timeout, [i \in 1 .. Len(l) |->
                                 IF m.ts[l[i]] = 0 THEN 0
                                 ELSE IF m.ts[l[i]] <= 2 THEN 1 ELSE m.ts[l[i]] - 1])
  IN [t \in Armed(m) |-> at[CHOOSE i \in 1 .. Len(l) : l[i] = t]]

\* A call on one timer moves the expiry of any other armed timer by no more
\* than two ticks forward and one tick back; a tick moves none.
OthersUndisturbed ==
  [][walk = NULL /\ walk' = NULL =>
       \A t \in Armed(mem) \cap Armed(mem') :
         LET move == Plan(mem')[t] - Plan(mem)[t]
         IN IF tick' = tick THEN move \in -2 .. 1 ELSE move = 0]_vars

\* A timer fires at most one tick late, whatever was started, stopped and set
\* in front of it: after the tick at which its delay ends it is not armed.
NotLate == walk = NULL => \A t \in Armed(mem) : tick <= due[t]

\* TimerIrqHandler calls every timer that has expired, while the callbacks
\* start, stop and set timers of the list it walks and stop or set their own:
\* when it is done none is left over, unless a callback started or set a timer
\* that waited to be called, or started its own while others waited.
ExpiredAreCalled == walk = NULL /\ ~touched => owed = {}

=============================================================================
