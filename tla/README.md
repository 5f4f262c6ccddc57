# A verification project for LoRaGateway

LoRaGateway is the firmware of a LoRa gateway/node on an STM32L0 (Keil project
`MDK_5.12`): a port of the Semtech LoRaWAN stack, a port of the Contiki process
kernel, and an application of two processes on top. The tree holds 3857 files;
almost all of them are the STM32 HAL, the whole Contiki distribution and other
vendored code that the build does not link. What the firmware itself consists of
is `src/USER`, `src/HAL/{src,sensor,system}`, `src/Lib/LoRawan-node/{mac,crypto,
misc,radio}` and, of Contiki, `core/sys/{process,etimer,timer,autostart}.c` and
`cpu/arm/stm32f103/clock.c`. Those parts are the subject of this project.

The build uses `USE_BAND_433` and `OVER_THE_AIR_ACTIVATION 0`, and `main.c` selects
device class C.

## 1. Inventory

| Component | State it keeps | Operations | Runs in |
|---|---|---|---|
| **Software timers** `HAL/src/timerserver.c`, `timer-board.c`, TIM2 in `USER/stm32l0xx_it.c` | a linked list of timers whose delays are deltas; tick counter, time-out value and context of the "hardware" timer | `TimerInit/Start/Stop/Reset/SetValue`, `TimerIrqHandler` at every 1 ms tick | main loop, radio interrupts, TIM2, and its own callbacks |
| **Process kernel** `core/sys/process.c`, `autostart.c` | list of processes, their states and `needspoll` flags, `poll_requested`, a ring of 32 events (`events`, `nevents`, `fevent`) | `process_init/start/post/poll/run`, `do_poll`, `do_event`, `call_process` | main loop; `process_poll` and `process_post` also from interrupts |
| **Event timers** `core/sys/etimer.c`, `timer.c`, `clock.c` | list of `struct etimer`, `next_expiration`, the wrapping clock | `etimer_set/reset/restart/adjust/stop`, `etimer_process`, SysTick | threads; SysTick polls `etimer_process` |
| **LoRaMac** `mac/LoRaMac.c` | `LoRaMacState`, `LoRaMacFlags`, confirm and indication, retry and repetition counters, frame counter, six timers | `LoRaMacMcpsRequest`; `OnRadioTxDone/RxDone/RxError/RxTimeout/TxTimeout`; `OnMacStateCheck/TxDelayed/RxWindow1/RxWindow2/AckTimeoutTimerEvent` | the request in the main loop, everything else in DIO and TIM2 interrupts |
| **Downlink and MAC commands** in `mac/LoRaMac.c` | the address and two frame counters; channels and their mask, repetitions, windows, the buffer of answers | the data branch of `OnRadioRxDone`, `ProcessMacCommands`, `AddMacCommand`, `LoRaMacChannelAdd/Remove`, `PrepareFrame`, `ScheduleTx`, `SetNextChannel` | receptions in DIO0, uplinks in the main loop and TIM2 |
| **Radio driver** `radio/sx1276/sx1276.c` | `Settings.State` (IDLE, RX, TX), `RxContinuous`, two time-out timers | `Send`, `Rx`, `Standby`, `Sleep`, `SX1276OnDio0/1/2Irq`, `SX1276OnTimeoutIrq` | main loop and interrupts |
| **MAC wrapper** `mac/LoRaMac-api-v3.c` | one `LoRaMacEventInfo` and its flags | `LoRaMac_send/sendBytes...`; confirms and indications become `app_mac_cb` | both |
| **Application** `USER/main.c`, `user-app.c` | `SX1278Send_process`, `Wakeup_process`, one event timer each, `Loramac_evt_flag`, `MhdrAck` | send a frame with up to three attempts, wait for the confirm; wake-up by RTC or UART line | threads; callbacks post from TIM2 and USART1 |
| **UART, RS485, GPS, sensors, charger, RTC, board** | line buffers, alarm times, registers | reception interrupts, request and response, register access | interrupts; only UART1 is used by this main loop |

**How they interact.** A thread calls `LoRaMac_send`, which calls
`LoRaMacMcpsRequest`, which sets up the radio and arms software timers. DIO0
(frame sent or received) and TIM2 (timer callbacks) run the rest of the cycle in
interrupts of the same priority 1; they do not interrupt each other but they do
interrupt the main loop. `OnMacStateCheckTimerEvent` ends the cycle and calls the
confirm, which sets `Loramac_evt_flag` and calls `process_poll` or `process_post`
from the interrupt. SysTick (priority 0) polls `etimer_process`; USART1 polls and
posts at the end of a line.

**What is hard.** Everything above shares plain global variables: (1) the kernel's
ring and flags between the main loop and interrupts; (2) the delta list, rewritten
by callbacks while the handler walks it, and read around an `__enable_irq` in the
middle of what was meant to be a critical section; (3) unsigned arithmetic on
wrapping clocks; (4) a MAC whose end of cycle depends on the order of a radio
interrupt, three timers and a one-millisecond state check; (5) a class C radio that
has to be put back into reception on every path.

**What makes each component correct.** *Timers*: the list stays a list, no
unsigned difference goes below zero, the next alarm lies ahead, nobody fires early
or late because of somebody else's timer. *Kernel*: no accepted event is lost or
repeated, no poll is lost, threads do not nest. *Event timers*: expiry means what
the clock says, the event of an expired timer is delivered even if the queue is
full. *MAC*: limits on transmissions, no retransmission of an acknowledged frame, a
truthful confirm for every request, a timer running in every state that is not
final. *Downlink*: a frame is delivered whatever was heard before it, and a
repeated one is not. *Commands*: what is changed is told, and nothing the network
may order stops the device from sending. *Application*: one frame for an event, no
process forgotten in a wait, and nobody cuts a transmission that has a right to end.

## 2. Modules

| Module | Models | Uses |
|---|---|---|
| `TimerServer` | timerserver.c, timer-board.c, TIM2_IRQHandler | |
| `TimerRace` | the tick that lands inside `TimerHwStart` | extends `TimerServer` |
| `EventQueue` | *abstract*: a FIFO queue with at most N events (promise of `process_post`) | |
| `ProcessKernel` | process.c, one action per step an interrupt can fall between | instance of `EventQueue` |
| `Etimer` | etimer.c, timer.c, clock.c | |
| `SX1276` | the radio driver's state, as operators on a record | |
| `MacService` | *abstract*: what a request to the MAC promises | |
| `LoRaMac` | the transmission cycle of LoRaMac.c | extends `SX1276`, instance of `MacService` |
| `App` | the two processes of main.c, OnMacEvent and the API wrapper, over the MAC | extends `LoRaMac` |
| `Downlink` | which received frames are taken: addresses, counters, MIC, repetitions | |
| `MacCommands` | the commands of the network as operators on the link's parameters | |
| `Link` | frames with commands, the answers, and the channel search of the uplink | extends `Downlink`, `MacCommands` |
| `TimerServerProofs`, `EtimerProofs`, `ProcessKernelProofs`, `LoRaMacProofs`, `RadioProofs`, `ClassAProofs`, `AppProofs`, `LinkProofs` | the theorems | extend the module they are about, and `TLAPS`; `RadioProofs` and `ClassAProofs` extend `LoRaMacProofs`, `AppProofs` extends `RadioProofs` |
| `MC*` | the constants of the instances | one each |

In every module a comment that starts with `Mutation:` introduces a faulty variant
of the definition below it. The variants are not used by the specifications; each
run is repeated with one of them in place of the definition, to see that the
property of the run notices.

### TimerServer
`mem` is the list as the C code keeps it: `head`, `next`, `ts` (Timestamp),
`reload`, `running`, plus `context` and `timeout` (TimerTickCounterContext and
TimeoutCntValue). The pointers are modelled as pointers because
`TimerIrqHandler` follows `elapsedTimer->Next` *after* the callback, which may have
rewritten it. `List` is the sequence of timers those pointers go through, the one
chain for which `IsList` holds. `Start`, `Stop`, `SetValue`, `SetTimeout`, `Charge`, `Unlink`,
`Reload` are the functions as operators on `mem`; `TimerStart`, `TimerStop`,
`TimerSetValue`, `Tick` and `CallbackReturn` are the actions. A callback is the
interval between `Tick` (or the previous `CallbackReturn`) and `CallbackReturn`,
during which up to `MaxCalls` timer calls can be made. `TimerReset` is a stop
followed by a start. `due`, `owed` and `touched` are history variables: `owed` is the
set of expired timers whose callback is running or still to come, `touched` says that
a callback has broken the walk to those that wait (`Waiting`). Only three calls do:
`TimerStart` and `TimerSetValue` of a timer that waits, and `TimerStart` of the
callback's own timer while others wait. A callback that stops its own timer, as all
those of the MAC do first, breaks nothing.

`TimerRace` splits the call that loads the hardware timer into its two halves
around the `__enable_irq` of `TimerHwGetTimerValue`.

### ProcessKernel
The main loop is a program counter `pc` with the place to return to, the
interrupts are `IsrPoll` and `IsrPost`, which can happen between any two steps.
`process_post` is three steps (store the event, load `nevents`, write it back), and
so is the removal in `do_event`: `++nevents` is a load and a store on this CPU.
`do_poll` clears `poll_requested`, then visits one process per step. Interrupts of
different priority do not nest in the model: an interrupt's post is one step.
`EventQueue` is instantiated with the ring's content as the queue.

### Etimer
Times are taken modulo `Wrap` (2^32 in the firmware). `age` is a history variable that
counts the ticks that have really passed since the start time of a timer. It is
negative while the start time lies ahead of the clock: `etimer_reset` moves the start
time on by the interval whenever it is called, and `Wakeup_process` calls it after
every event, expired or not (main.c:210). `Far` is the age of a timer that is no longer
counted, because its start or its expiry is a whole wrap away. A thread's call is one step (threads do not preempt each other);
`etimer_process` posts one event per step so that SysTick can come between. The
kernel's queue is abstracted to the FIFO that `ProcessKernel` implements.

### SX1276, LoRaMac and MacService
The state of MAC and driver is one record `mac`; a handler is an operator from
record to record, so a handler that calls another is a composition, in the order
of the code. `OnMacStateCheck` is the composition of the parts of
`OnMacStateCheckTimerEvent` in their order. `caller` is the position of
`LoRaMacMcpsRequest` in the main loop, which interrupts can follow between its
steps; `built` is a history variable of the frame in `LoRaMacBuffer`. Time advances
in units of one second (the windows are 1 s and 2 s, the acknowledgement time-out 3
to 5 s); the 1 ms timer that runs the state check "as soon as possible" is a
countdown of 0. `StartSending` is ScheduleTx, SendFrameOnChannel and Radio.Send in one
step, though interrupts can fall inside (section 6). Received frames are `data`, `ack`, `bad` (MIC failure or wrong type)
and `repeated` (counter seen before).

`MacService` is what `LoRaMac.h` promises of a request: sent at most `Limit` times,
not after its acknowledgement, not after its confirm, one request after the other.
`ImplementsService` maps `busy` to `McpsReq` or a request that has passed
`PrepareFrame`, and `sent`, `acked` to the histories.

### App
`App` adds to the MAC the two threads (`at` is where each stands: waiting for an
event, in the delay before an answer, about to call `UserAppSend`, inside it,
waiting for the confirm, in its back-off), the kernel (`turn`, `queue`, `polled`)
and the event timers (`pending`: on the list). A kernel step delivers one poll or
one event; the thread it calls then runs step by step, and interrupts (the MAC's
handlers, a line on USART1) come between. The kernel's ring and the event timers
are those that `ProcessKernel` and `Etimer` establish, with a post as one step. The
`for` loop of the attempts counts in an automatic variable that does not survive
the thread's return, so whether it goes on after a back-off is left open.

### Downlink, MacCommands and Link
`Downlink` keeps the address, `DownLinkCounter` and the counter of the one multicast
channel. A sender numbers frames with 32 bits and sends the low part; frames are
lost (a `NewFrame` before the last was heard) or repeated, never reordered. The MIC
is over the whole counter and all keys are the same in this firmware
(LoRaMac.c:882, user-app.c:47), so a frame passes exactly if `Extend` restores its
counter. `Garbage` is what the heap may hold where LoRaMac.c:2988 leaves the
multicast counter uninitialised.

`MacCommands` has `ProcessMacCommands` as a recursive function: `Obeyed` gives the
parameters after each command, by `Handle` from those before it. A
command is a record whose fields are what the code distinguishes (a mask of
channels, a frequency that is zero, the channel's own or another, a datarate range).
`Wide` are the channels 16 and up, for which `1 << id` has no bit in the mask.
`Link` joins the two: `HearFrame` is `Hear` with the commands of the frame, `Uplink`
is PrepareFrame and ScheduleTx, `Retransmit` a further trial, `GiveUp` the end of the
last one. `owed` is the history of answers due since a frame last emptied the buffer,
which PrepareFrame does before ScheduleTx may refuse the frame. The link starts as
`main` leaves it: the default channels of LoRaMacInitialization (`Factory`) and all the
others, added by `UserChannelAddFun` with DR_0 to DR_5.

## 3. Runs

| Run | Instance | What it shows |
|---|---|---|
| `timer_server` | 3 symmetric timers, delays 1 and 3, 6 ticks, 2 calls per callback (a callback can set and start a timer again, as the MAC's state check does with its own) | list, callbacks, running flag, alarm, lateness and independence of timers. Delays 1 and 3 are on the two sides of the `<= 2` in TimerHwStart; three timers give a head, a middle and an end of the list |
| `kernel` | 2 processes, ring of 2, no posts from interrupts (they poll) | the ring *is* the FIFO queue. A ring of two fills up and wraps in a few steps |
| `kernel_isr` | the same with posts from interrupts | memory safety of the ring, polls and threads do not depend on who posts |
| `etimer` | 2 timers, 6 clock values, intervals 0 and 2, an adjustment by -1, a queue of one place and one event of an interrupt | what timer_expired says over wraps of the clock and early resets, no event lost on a full queue, every expired timer served. Two early resets put a start time beyond half of the clock's range |
| `mac_class_a` | both requests, 8 trials, 3 repetitions, 5 datarates, a duty-cycle delay, all frames | refinement of `MacService`, the datarate table to its end, acknowledgements, counter, confirm for every request |
| `mac_class_c` | class C as in main.c, requests at any moment the code accepts them | no state without a timer that looks at it again; no transmission without its time-out; the two ways the radio is left in standby |
| `app` | class C, unconfirmed frames (the only ones main.c sends), a queue of two events, downlinks that ask for an answer or not | one frame for an event; nobody stranded in a back-off; the confirm wakes its process; what can cut a transmission |
| `link` | 2 symmetric senders, a stranger, numbers 0 to 5 with a modulus of 4 (so that they pass it), 3 channels (default, further, beyond the mask), every kind of command, two in a frame, a buffer of 4 bytes, at most 7 units of work (a command counts three) | counters, answers, channel search with the default datarate at DR_5, from the channels of `main` |
| `timer_race` | 2 timers, 7 ticks, no calls by callbacks | **violated**, finding 1 |
| `kernel_isr_post` | ring of 8, posts from interrupts | **violated**, finding 2: the ring is larger than the number of posts, so it is not the full ring that loses the event |
| `mac_unanswered` | class C, confirmed requests only | **violated**, finding 3 |
| `link_search` | as `link`, a default datarate below DR_5 | **violated**, finding 4 |

The bounds: `MaxTick`, `MaxCalls` (TimerServer), `MaxBacklog` (ProcessKernel:
accepted events that wait, more than the ring has slots when an interrupt corrupts
the count), `MaxLag` and `MaxPosts` (Etimer: how overdue a timer on the list may get before the
scan, `InTime`, and events posted by others), `MaxAhead` and `MaxTrials` (LoRaMac: how far
histories count; 0 where a run does not look at them), `MaxCounter` and `MaxWork`
(Downlink, Link). The buffer of 4 bytes in `link` stands for one of 15: answers have
1, 2 or 3 bytes, so four commands overrun it in every way. Deadlock is checked in
every run: the main loop and the interrupts of this firmware never stop.

**Fairness.** `ProcessKernel`: the main loop is an endless `while (1)`, each of its
steps is weakly fair; interrupts are not. `Etimer`: SysTick never stops, the
process kernel serves polls and events in alternation (`process_run` calls
`do_poll` and then `do_event`), hence strong fairness of a delivery that polls could
otherwise put off. `LoRaMac`: time passes (strongly, since a due timer comes first),
a due timer fires, the request in the main loop completes, and a duty-cycle delay
does not repeat for ever (the delay returned by `SetNextChannel` is the time until
a channel is free). There is *no* fairness on TxDone, RxDone, RxError and RxTimeout:
a radio that never answers is a case the time-outs are for. `App` and `Link` have
safety properties only: `Answered` fails for class C already (finding 3, for
confirmed frames), and lines or frames may come without end.

## 4. Findings

1. **A tick inside TimerHwStart stops all timers** (`timer_race`, timer-board.c:171).
   TimerHwGetTimerValue ends with an unconditional `__enable_irq`; a pending TIM2
   interrupt is served between the read of the counter and the write of
   TimeoutCntValue. If the value was the next tick it has passed, and
   TIM2_IRQHandler compares by equality.
2. **The event ring is not safe for posts from interrupts** (`kernel_isr_post`,
   process.c:350), though `Netsend_post` and `Wakeup_post` do that.
3. **Class C can leave a request without a confirm** (`mac_unanswered`,
   LoRaMac.c:1642): the first window of an earlier trial puts the radio into standby
   while a later trial is on the air.
4. **The network can stop the device for good** (`link_search`, LoRaMac.c:3425):
   LORAMAC_DEFAULT_DATARATE was redefined as a flash address, so the check that
   keeps the default channels usable at the default datarate checks nothing.
   NewChannelReq commands can limit the three default channels to DR_5. The channels
   that `main` adds at the start still have DR_0 to DR_5; once a LinkADRReq has
   disabled those too, and the default datarate is lower, the `while` of ScheduleTx
   never ends. The instance has one default channel, so both commands fit one frame.

Other limits of the code are written into the properties, as the exceptions without
which they would not hold:

* `ExpiredAreCalled`: `TimerIrqHandler` reads `Next` after the callback
  (timerserver.c:258). A callback that starts its own timer while others wait has put
  it back on the list with another `Next`, so those that expired at the same tick are
  never called, though timerserver.c:250 speaks of "all the expired objects"; the MAC's
  state check re-arms its timer that way (LoRaMac.c:1590). One that starts a waiting
  timer rewrites the `Next` of that one, and one that sets a waiting timer raises the
  Timestamp at which the walk ends. Nothing else breaks the walk. A waiting timer is
  off the list, so to stop it has no effect and its callback comes all the same.
* `ExpiryIsExact`, `PostedWhenExpired`: a timer whose start time is more than a tick
  ahead of the clock counts as expired. `timer.c:79` forbids to reset a timer before it
  has expired; `Wakeup_process` resets its own after every event (main.c:210). The
  first event between two expiries puts the start time ahead, the difference in
  `timer_expired` is then close to 2^32, the timer event comes at once, and the process
  answers it with the next reset, further ahead: the main loop is kept busy with timer
  events.
* `AnswersComplete`: the answers due are counted from the last frame that emptied the
  buffer, transmitted or not. PrepareFrame empties it (LoRaMac.c:2741) before ScheduleTx
  may refuse the frame with LORAMAC_STATUS_DEVICE_OFF (LoRaMac.c:2592), so the answer to
  the command that switched the device off is dropped, with any that waited.
* `OthersUndisturbed`: a call on one timer can bring another forward by two ticks or
  put it back by one, and these errors add up.
* `CountedOnConfirm`: the branch for a transmission time-out confirms a frame without
  counting it, so the next frame has the same number.
* `DeafOnlyAfterRefusal`: a frame with a bad MIC outside the first window leaves a
  class C radio in standby until the next transmission (LoRaMac.c:860); and a single
  reception that RxTimeoutTimer has reported stays one (sx1276.c:1366).
* `CutBy`: a class C transmission is cut by the first window of an earlier frame, by
  RxTimeoutTimer of an earlier reception (sx1276.c:1087), or by a process that the
  MAC has refused *because* it is transmitting (main.c:145).
* `EveryFrameHeard`: a multicast counter above 2^16 in the heap makes the device miss
  the first frames of other senders, and from number 2^16 on a sender is not heard
  through `DownLinkCounter`, which is restarted at every roll-over.
* `TwiceInARow`: a repeated frame is delivered a second time when the sender's
  address has become the device's own, since the other counter is then compared; a
  frame with number 0 is never taken for a repetition.
* `ChangesAreTold`: not when the answers overrun the buffer (AddMacCommand's result is
  not looked at).

The model also has these two, which contradict no text of the repository: a process can
take the confirm of the other's frame, since both wait for one flag; class C does
not implement `MacService`, because MacDone may be left over from a reception
between two requests.

## 5. Proofs

All are for every value of the constants, from the named assumptions alone.

**`TimerServerProofs`.** `TypeCorrect`, `StaysAList`, `HeadAloneRuns`, `AlarmComes`,
`NoneLate`, `AllExpiredCalled` and `OthersStay`: `Spec => []TypeOK`, `[]Acyclic`,
`[]OnlyHeadRuns`, `[]AlarmAhead`, `[]NotLate`, `[]ExpiredAreCalled` and
`OthersUndisturbed`, for any number of timers, any
delays and any calls of the callbacks. The proof follows the deltas through absolute
times: `Sound` says that there are a chain `l` and a function `at` such that `l` is the
list, each timer is promised (`at`) its predecessor's time and its own delta, the head
the present tick and what is left of its delay, and nobody a time after it is due. The
promises of the head's delay are exact only while it is loaded; each load may bring
all of them forward by a tick (`Rebase`), which is why timers can be early and never
late. The invariant adds that a head marked running is the one the hardware was loaded
for (`Loaded`), that it is loaded and its alarm ahead outside the handler (`Awake`),
that inside it nothing is loaded but by this run (`Fresh`), and that the timers still
to be called form a chain of spent timers through their `Next` fields, off the list
(`Waits`), unless a callback has broken it. For `AllExpiredCalled` each call is shown to
leave the chain behind the running callback as it is, unless it is one of the three
that `touched` records: a stop finds no timer of the chain, a set of the callback's own
timer changes only a field the walk is past, and a start of a further timer writes to
timers of the list. Each operation on the list has a lemma that gives the new chain and the new
promises (`NewHead`, `Behind`, `HeadStopped`, `WithinStopped`, `Fires`, `Reloaded`).
Totals along the list are a recursive function; what it computes is proved from
the least place at which it could differ (`Least`, `TotalsUnique`).
`OthersStay` follows the deltas a second time, through the ticks at which the timers
will fire if nobody calls: a plan (`Planned`) starts at the alarm of the head and adds
to each further timer what its delta costs once it is the head (`Cost`: one tick less
than a delta above one). `Near` says how far such a plan may move, each lemma about
the list also concludes it, and `PlanFacts` shows that the plan is unique, hence the
`Plan` that the property compares.

**`EtimerProofs`.** `TypeCorrect`, `ListedOnce`, `ExpiryExact`, `FirstExpiration` and
`PostedExpired`: `Spec => []TypeOK`, `[]PendingIsListed`, `[]ExpiryIsExact`,
`[]NextExpirationIsFirst` and `PostedWhenExpired`, for any timers, intervals,
adjustments, queue and any `Wrap` above the longest interval and lag, with resets at
any time. The invariant ties the clock to the ticks that have passed: a timer that is
counted has `start` `age` ticks behind the clock modulo `Wrap`, or as many ahead as
`age` is below zero, and its expiry is less than a wrap away. `ExpiredByAge` is the
consequence: timer_expired sees an age modulo `Wrap`, and so takes a start that is more
than a tick ahead for one that is nearly a wrap behind.

**`ProcessKernelProofs`.** `TypeCorrect`, `PollsAreRemembered`, `ThreadsDoNotNest`:
`Spec => []TypeOK`, `[]PollRemembered`, `[]OneThread`. None of them is inductive. The
invariant `LoopInv` adds where the cursors of `do_poll` and of the broadcast loop can
be at each `pc`, that a process not yet started is neither on the list nor marked for
a poll, that a count about to be decremented is positive (so `nevents` stays a
natural number) and that an event being posted is one.
With the further assumption `IsrPosts = {}`: `CountStaysBounded`,
`RingImplementsQueue`: `Spec => []CountBounded` and `Spec => RingIsFifo`, that is, the
kernel implements `EventQueue`. The invariant is `LoopInv /\ RingInv`; `RingInv` says
that the slots from `fevent` on hold `accepted`, that `nevents` is its length (one
more while `do_event` has moved `fevent` and not yet decremented), that a register
loaded with `nevents` is still current, and that the event being posted lies in the
first free slot. The last two are what a post from an interrupt breaks, and
`kernel_isr_post` shows that the assumption is needed. Four lemmas about the indices
of the ring carry the arithmetic modulo its size.

**`LoRaMacProofs`.** `CycleNeverStalls`, `TransmissionIsLimited` and
`CountersStayInLimits`: `Spec => []NoStall`, `[]TxIsLimited` and `[]TypeOK`, for both
classes. `NoStall` is not inductive: between `StartSending` and `RequestTaken` the
frame is already scheduled while McpsReq is not set, and the request is then taken
over by whatever timer is left. The invariant `MacInv` adds that case (`Pending`), the
ranges of the fields the handlers branch on, and `TxIsLimited`. The handlers are
compositions, so the proof goes by two relations between records, one of what a radio
operation may do to the timers and one of what a handler may do to the flags, which
compose; each handler is shown to be in them, and each action preserves the invariant
because its handler is. The ranges come along: `RetryBounds` says that a trial is
added only below AckRetries, and `CountdownFacts` what a countdown may be.

**`RadioProofs`.** `ClassCListensOn`: `Spec => DeafOnlyAfterRefusal` under the
assumption `Class = "C"` (in class A the radio sleeps between its windows). A third
relation, `GoesOn`, holds of the handlers that leave a transmission and a reception
alone, the state check among them; the radio's callbacks end in
`OnRxWindow2TimerEvent`, which leaves no radio idle, and only `OnRadioRxDone` remains.

**`ClassAProofs`.** The action properties of `mac_class_a` and its refinement:
`DatarateFollowsTable`, `ConfirmTellsTheAck`, `TransmissionsRunOut` and
`MacImplementsService` (`Spec => DatarateOfTrial`, `ConfirmTellsAck`,
`TransmissionRunsOut`, `ImplementsService`), and `FramesAreCounted` (`CountedOnConfirm`;
it asks for `MaxAhead > 0`, since with the bound 0 the counter of the model stands
still). Their assumption is `PoliteClassA`: class A, RECEIVE_DELAY2 after
RECEIVE_DELAY1, and an application that asks for a frame only after the confirm of
the last. Each part is needed: in class C a reception between two requests leaves
MacDone behind (section 4), with the windows in the wrong order a second window ends
a cycle whose first is still to come, and a request over a cycle that has not ended
inherits its timers. TLC finds each of the five violated if the windows of
`mac_class_a` are exchanged or coincide. For the rest, limits, delays, datarates, trials and frames are
any that the assumptions of `LoRaMac` allow, the acknowledgement time-out included:
it may pass before the windows, in them or after.

The invariant `ClassAInv` says that between two requests the radio is idle and all
timers are off (`Quiet`), and that a request is in one of five phases (`Phases`): it
waits for the duty cycle, is on the air, is listening, was cut off by TxTimeoutTimer, or has
heard all it will and waits for the check or the acknowledgement time-out. Each phase
names the timers that may run in it and ties the transmissions so far (`trials`) to
the two counters of the code: `ackRetriesCounter` for confirmed frames, `nbRepCounter`
for the others. Each handler has a lemma that says where it leads from which phase;
the state check, which is a composition of five parts, has one for every phase. What a step then can do
(`Outcome`) is one of four things, and the theorems follow from them: nothing is sent or
confirmed (`Stays`), a frame is built (`Begins`), it is given to the radio or
the duty cycle (`Sends`), or it is confirmed (`Confirms`).

**`AppProofs`.** About `App`, for every queue size, class, limit and delay, from the
further assumption that the processes' requests are among `Types`:
`FramesFollowEvents`, `BackOffEnds`, `ConfirmsWake` (`AppSpec => []OneFramePerEvent`,
`[]NotStranded`, `[]WokenByConfirm`) and `OnlyTheseCut` (`AppSpec => CutBy`), and
`StandbyDoesNotStall` (`AppSpec => []NoStall`): every step of `App` preserves `MacInv`,
the `Standby` of a refused process too, because it leaves the state check running.
The invariant `AppInv` of the processes says that the thread that runs is the one whose
place in the program is an active one and that the request in the MAC is its own, that
a frame is counted only while its process waits for a confirm, and that only such a
process has had one. `BackOffEnds` rests on two lemmas about the queue: a post keeps
what is there, and a dispatch takes the first event only.

**`LinkProofs`.** Of `Downlink`: `CountersStayBelowModulus` (DownLinkCounter never
leaves 16 bits), `RepetitionsAreRefused` (`[]TwiceInARow`) and `FramesAreHeard`
(`EveryFrameHeard`), for any number of senders, any modulus and any content of the
heap. They rest on `ExtendSmall`: from a counter below the modulus, `Extend` arrives
at the number in the frame. For repetitions the invariant `RowInv` says which of the
two counters holds the number of the frame delivered last: after one delivery one
of them, after two both. Every step of `Link` is a step of `Downlink` or leaves its
variables alone, so both theorems hold of the link (`LinkRefusesRepetitions`,
`LinkHearsFrames`).

It also proves every property of the link itself, for any set of commands in
frames of any senders and any length of the buffer: `LinkTypeCorrect`,
`AnswersAlwaysFit`, `NoAnswerMissing` (`AnswersComplete`), `ChangesTold`
(`ChangesAreTold`), and `SearchesEnd` (`SearchEnds`), whose hypothesis is that the
default datarate is DR_5: `link_search` shows that it is needed. The invariant
`LinkInv` adds to the properties that the default channels stay defined with ranges
that end with DR_5 (`Kept`). A frame is many steps of one: `Obeyed`, `Length` and the
answers due are functions on the places of a list, whose existence `StepsExist` shows
and whose values `Climb` follows from place to place, by the least place that would be
an exception. What holds after every command (`Progress`): the answers fit; while the
answers due have room, they are the ones there; and if a parameter is another than at
the start, one of them accepts something. `ProgressKept` is the step of one command,
from `AppliedFacts`: a command that is refused changes nothing.

So every property of the passing runs that is an invariant or an action property, and
every refinement, is a theorem. Those of `mac_class_a` assume `PoliteClassA`, except
its type invariant. Only model-checked: liveness (`PollServed`, `ExpiredIsPosted`,
`Answered`), which the prover cannot reason about: it has no rules for fairness and
ENABLED.

## 6. Not modelled

* *The vendored tree*: STM32 HAL, CMSIS, the rest of Contiki and the example code are
  almost all of the repository's lines and are not part of the firmware's logic; most
  of them are not linked.
* *Radio*: FSK, CAD, registers, SPI (a sequence of register accesses is one step).
* *MAC*: join and other MLME requests, proprietary frames, ADR (off), the bands of the
  duty cycle (a delay is a choice), cryptography (a failed MIC is the frame `bad`).
  From ScheduleTx to Radio.Send the model has no interrupt (`StartSending`), so a
  handler that runs while the transmission is being set up is not covered.
  The flags of `LoRaMacFlags` are written one at a time: the lost update of the
  bit-field, which main loop and interrupts write, is not covered. A channel number
  beyond the table (LORA_MAX_NB_CHANNELS) is not among the inputs.
* *Kernel*: `exit_process` and the EXITED event (no process exits), nested interrupt
  posts.
* *Timers*: the busy wait. The tick counter has 64 bits and does not wrap.
* *Application*: the settings read from the flash, the LED that waits half a second in
  an interrupt, stop mode and the RTC alarm (no code of this version uses them).
* *CSMA*: the random back-off timer and CAD of LoRa-cad.c, which the main loop does not
  use; the channel table of the same file is where `Link` starts.
* GPS, RS485, sensors, charger: linked but not used by this main loop. Of UART
  reception only the end of a line on USART1 is modelled; its bytes are thrown away.

## 7. Plan

Done: timers, kernel, event timers, transmission cycle, abstract service,
application, downlink counters, commands and channel search, and the proofs above.
What is left, most useful first:

1. The composition of `Link` with `LoRaMac`: a retry that changes the channels of its
   own frame, DEVICE_OFF in the middle of a cycle, the duty cycle as numbers.
2. The lost update of `LoRaMacFlags`, with the reads and writes of the bit-field as
   steps.
3. RS485 and GPS, should the main loop use them again.
