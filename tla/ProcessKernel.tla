--------------------------- MODULE ProcessKernel ---------------------------
(***************************************************************************)
(* The Contiki process kernel the firmware runs on:                        *)
(* contiki-3.0/core/sys/process.c, the ring of waiting events, the poll    *)
(* flags and the loop of process_run, with the interrupts that call        *)
(* process_poll and process_post between any two steps of that loop.       *)
(*                                                                         *)
(* The processes of this firmware never exit and post no synchronous event *)
(* but the INIT of process_start, so no process runs inside another one    *)
(* and exit_process is left out.  What a process does with an event is any *)
(* sequence of posts and polls.                                            *)
(***************************************************************************)
EXTENDS Naturals, Sequences

CONSTANTS
  Procs,       \* the processes
  Autostart,   \* the order in which processset() starts them
  Evs,         \* the event numbers they post
  NumEvents,   \* PROCESS_CONF_NUMEVENTS
  IsrPosts,    \* the processes interrupt handlers call process_post for
  MaxBacklog,  \* bound: accepted events waiting (NumEvents of them when the
               \* count is right, more when an interrupt corrupts it)
  BROADCAST,   \* PROCESS_BROADCAST
  NULL

Event == [p : Procs \cup {BROADCAST}, ev : Evs]
NoEvent == [p |-> NULL, ev |-> NULL]

ASSUME KernelAssumption ==
  /\ NumEvents \in Nat \ {0}
  /\ MaxBacklog \in Nat /\ MaxBacklog >= NumEvents
  /\ IsrPosts \subseteq Procs
  /\ Autostart \in Seq(Procs)
  /\ \A i, j \in 1 .. Len(Autostart) : Autostart[i] = Autostart[j] => i = j
  /\ NULL \notin Procs /\ BROADCAST \notin Procs /\ NULL /= BROADCAST

VARIABLES
  started,      \* processes of Autostart started so far
  state,        \* p->state
  needspoll,    \* p->needspoll
  pollRequested,
  events, fevent, nevents,   \* the ring
  cur,          \* the event do_event is delivering (its static ev, receiver)
  pc,           \* where the loop of process_run is
  pollAt,       \* cursor of do_poll, 0 outside it
  bcastAt,      \* cursor of the broadcast loop of do_event, 0 outside it
  running,      \* the process whose thread is running, or NULL
  posting,      \* the event a process_post of the main loop is storing
  reg,          \* the register of a --nevents or ++nevents under way
  accepted      \* ghost: events accepted and not delivered, oldest first

ring == <<events, fevent, nevents, accepted>>
loop == <<pc, pollAt, bcastAt, running>>
vars == <<started, state, needspoll, pollRequested, ring, cur, loop, posting, reg>>

\* process_list: process_start puts each process in front.
List == [i \in 1 .. started |-> Autostart[started + 1 - i]]
Listed == {Autostart[i] : i \in 1 .. started}

\* Mutation: the index does not wrap around.
SlotUnwrapped(i) == i

Slot(i) == i % NumEvents

Init ==
  /\ started = 0
  /\ state = [p \in Procs |-> "none"]
  /\ needspoll = [p \in Procs |-> FALSE]
  /\ pollRequested = FALSE
  /\ events = [i \in 0 .. NumEvents - 1 |-> NoEvent]
  /\ fevent = 0 /\ nevents = 0
  /\ cur = NoEvent
  /\ pc = "boot"
  /\ pollAt = 0 /\ bcastAt = 0
  /\ running = NULL
  /\ posting = NoEvent
  /\ reg = 0
  /\ accepted = <<>>

-----------------------------------------------------------------------------
(* Running a thread.                                                       *)

\* call_process: a thread that is already running is not entered again.
Call(p, after, states) ==
  IF states[p] = "running"
  THEN /\ running' = p
       /\ state' = [states EXCEPT ![p] = "called"]
       /\ pc' = "thread"
  ELSE /\ pc' = after
       /\ state' = states
       /\ UNCHANGED running

\* Where the loop goes on when the thread it called returns.
Continuation ==
  IF pollAt > 0 THEN "poll" ELSE IF bcastAt > 0 THEN "bcast"
  ELSE IF started < Len(Autostart) THEN "boot" ELSE "top"

\* process_start, called by processset() for every process in turn.
Boot ==
  /\ pc = "boot"
  /\ IF started = Len(Autostart)
     THEN /\ pc' = "top"
          /\ UNCHANGED <<started, state, running>>
     ELSE LET p == Autostart[started + 1]
          IN /\ started' = started + 1
             /\ Call(p, "boot", [state EXCEPT ![p] = "running"])
  /\ UNCHANGED <<needspoll, pollRequested, ring, cur, pollAt, bcastAt, posting, reg>>

\* Mutation: call_process leaves the process marked called.
ReturnStillCalled ==
  /\ pc = "thread"
  /\ running' = NULL
  /\ pc' = Continuation
  /\ UNCHANGED <<started, state, needspoll, pollRequested, ring, cur, pollAt, bcastAt,
                 posting, reg>>

\* The thread yields.
Return ==
  /\ pc = "thread"
  /\ state' = [state EXCEPT ![running] = "running"]
  /\ running' = NULL
  /\ pc' = Continuation
  /\ UNCHANGED <<started, needspoll, pollRequested, ring, cur, pollAt, bcastAt,
                 posting, reg>>

\* Mutation: process_poll marks the process without raising poll_requested.
PollMarksOnly(p) ==
  /\ state[p] /= "none"
  /\ needspoll' = [needspoll EXCEPT ![p] = TRUE]
  /\ UNCHANGED pollRequested

Poll(p) ==
  /\ state[p] /= "none"
  /\ needspoll' = [needspoll EXCEPT ![p] = TRUE]
  /\ pollRequested' = TRUE

\* A thread polls a process (etimer_request_poll, for one).
ThreadPoll(p) ==
  /\ pc = "thread"
  /\ Poll(p)
  /\ UNCHANGED <<started, state, ring, cur, loop, posting, reg>>

-----------------------------------------------------------------------------
(* process_post by a thread, in the steps an interrupt can separate.       *)

\* Mutation: one event too many is accepted.
RoomForOneMore == nevents <= NumEvents /\ Len(accepted) < MaxBacklog

Room == nevents /= NumEvents /\ Len(accepted) < MaxBacklog

\* The slot is chosen and written.
PostStore(e) ==
  /\ pc = "thread"
  /\ Room
  /\ events' = [events EXCEPT ![Slot(fevent + nevents)] = e]
  /\ posting' = e
  /\ pc' = "count"
  /\ UNCHANGED <<started, state, needspoll, pollRequested, fevent, nevents, accepted,
                 cur, pollAt, bcastAt, running, reg>>

\* ++nevents: the load ...
PostLoad ==
  /\ pc = "count"
  /\ reg' = nevents
  /\ pc' = "counted"
  /\ UNCHANGED <<started, state, needspoll, pollRequested, ring, cur, pollAt, bcastAt,
                 running, posting>>

\* ... and the store, after which the post has succeeded.
PostCount ==
  /\ pc = "counted"
  /\ nevents' = reg + 1
  /\ reg' = 0
  /\ accepted' = Append(accepted, posting)
  /\ posting' = NoEvent
  /\ pc' = "thread"
  /\ UNCHANGED <<started, state, needspoll, pollRequested, events, fevent, cur,
                 pollAt, bcastAt, running>>

-----------------------------------------------------------------------------
(* process_run.                                                            *)

StartPoll ==
  /\ pollRequested' = FALSE
  /\ pollAt' = 1
  /\ pc' = "poll"

Top ==
  /\ pc = "top"
  /\ IF pollRequested THEN StartPoll
     ELSE pc' = "event" /\ UNCHANGED <<pollRequested, pollAt>>
  /\ UNCHANGED <<started, state, needspoll, ring, cur, bcastAt, running, posting, reg>>

\* Mutation: poll_requested is (also) cleared when the walk is over.
DoPollClearsLate ==
  /\ pc = "poll"
  /\ IF pollAt > started
     THEN /\ pollAt' = 0
          /\ pollRequested' = FALSE
          /\ pc' = IF bcastAt > 0 THEN "deliver" ELSE "event"
          /\ UNCHANGED <<state, needspoll, running>>
     ELSE LET p == List[pollAt]
          IN /\ pollAt' = pollAt + 1
             /\ IF needspoll[p]
                THEN /\ needspoll' = [needspoll EXCEPT ![p] = FALSE]
                     /\ Call(p, "poll", [state EXCEPT ![p] = "running"])
                ELSE UNCHANGED <<state, needspoll, running, pc>>
             /\ UNCHANGED pollRequested
  /\ UNCHANGED <<started, ring, cur, bcastAt, posting, reg>>

\* One turn of the loop of do_poll.
DoPoll ==
  /\ pc = "poll"
  /\ IF pollAt > started
     THEN /\ pollAt' = 0
          /\ pc' = IF bcastAt > 0 THEN "deliver" ELSE "event"
          /\ UNCHANGED <<state, needspoll, running>>
     ELSE LET p == List[pollAt]
          IN /\ pollAt' = pollAt + 1
             /\ IF needspoll[p]
                THEN /\ needspoll' = [needspoll EXCEPT ![p] = FALSE]
                     /\ Call(p, "poll", [state EXCEPT ![p] = "running"])
                ELSE UNCHANGED <<state, needspoll, running, pc>>
  /\ UNCHANGED <<started, pollRequested, ring, cur, bcastAt, posting, reg>>

\* Mutation: the start of the ring stays at the delivered event.
TakeEventAgain ==
  /\ pc = "event"
  /\ IF nevents > 0
     THEN /\ cur' = events[fevent]
          /\ accepted' = IF accepted = <<>> THEN <<>> ELSE Tail(accepted)
          /\ pc' = "uncount"
     ELSE pc' = "top" /\ UNCHANGED <<cur, accepted>>
  /\ UNCHANGED <<started, state, needspoll, pollRequested, events, fevent, nevents,
                 pollAt, bcastAt, running, posting, reg>>

\* do_event takes the oldest event and moves the start of the ring ...
TakeEvent ==
  /\ pc = "event"
  /\ IF nevents > 0
     THEN /\ cur' = events[fevent]
          /\ fevent' = Slot(fevent + 1)
          /\ accepted' = IF accepted = <<>> THEN <<>> ELSE Tail(accepted)
          /\ pc' = "uncount"
     ELSE pc' = "top" /\ UNCHANGED <<cur, fevent, accepted>>
  /\ UNCHANGED <<started, state, needspoll, pollRequested, events, nevents, pollAt,
                 bcastAt, running, posting, reg>>

\* ... then decrements the count: a load and a store, as in PostLoad.
TakeLoad ==
  /\ pc = "uncount"
  /\ reg' = nevents
  /\ pc' = "uncounted"
  /\ UNCHANGED <<started, state, needspoll, pollRequested, ring, cur, pollAt, bcastAt,
                 running, posting>>

TakeCount ==
  /\ pc = "uncounted"
  /\ nevents' = reg - 1
  /\ reg' = 0
  /\ IF cur.p = BROADCAST
     THEN /\ bcastAt' = 1
          /\ pc' = "bcast"
          /\ UNCHANGED <<state, running>>
     ELSE /\ IF cur.p \in Procs THEN Call(cur.p, "top", state)
             ELSE pc' = "top" /\ UNCHANGED <<state, running>>
          /\ UNCHANGED bcastAt
  /\ UNCHANGED <<started, needspoll, pollRequested, events, fevent, accepted, cur,
                 pollAt, posting>>

\* The broadcast loop: pending polls go first, then the next process.
Broadcast ==
  /\ pc = "bcast"
  /\ IF bcastAt > started
     THEN /\ bcastAt' = 0
          /\ pc' = "top"
          /\ UNCHANGED <<pollRequested, pollAt>>
     ELSE /\ IF pollRequested THEN StartPoll
             ELSE pc' = "deliver" /\ UNCHANGED <<pollRequested, pollAt>>
          /\ UNCHANGED bcastAt
  /\ UNCHANGED <<started, state, needspoll, ring, cur, running, posting, reg>>

BroadcastCall ==
  /\ pc = "deliver"
  /\ bcastAt' = bcastAt + 1
  /\ Call(List[bcastAt], "bcast", state)
  /\ UNCHANGED <<started, needspoll, pollRequested, ring, cur, pollAt, posting, reg>>

-----------------------------------------------------------------------------
(* Interrupt handlers.                                                     *)

IsrPoll(p) ==
  /\ Poll(p)
  /\ UNCHANGED <<started, state, ring, cur, loop, posting, reg>>

\* A whole process_post inside an interrupt handler.
IsrPost(e) ==
  /\ e.p \in IsrPosts
  /\ Room
  /\ events' = [events EXCEPT ![Slot(fevent + nevents)] = e]
  /\ nevents' = nevents + 1
  /\ accepted' = Append(accepted, e)
  /\ UNCHANGED <<started, state, needspoll, pollRequested, fevent, cur, loop, posting,
                 reg>>

-----------------------------------------------------------------------------
ThreadPost == \E e \in Event : PostStore(e)

\* The steps of the main loop of main.c, a posting process aside.
MainStep ==
  \/ Boot \/ Return \/ PostLoad \/ PostCount
  \/ Top \/ DoPoll \/ TakeEvent \/ TakeLoad \/ TakeCount
  \/ Broadcast \/ BroadcastCall

Next ==
  \/ MainStep
  \/ ThreadPost
  \/ \E p \in Procs : ThreadPoll(p)
  \/ \E p \in Procs : IsrPoll(p)
  \/ \E e \in Event : IsrPost(e)

Spec == Init /\ [][Next]_vars

\* main() calls process_run in an endless loop and every thread returns.
FairSpec == Spec /\ WF_vars(MainStep) /\ WF_vars(Return)

-----------------------------------------------------------------------------
(* Properties.                                                             *)

PCs == {"boot", "top", "poll", "event", "uncount", "uncounted", "bcast", "deliver",
        "thread", "count", "counted"}

\* Every variable keeps its shape; no slot outside the ring is ever written.
TypeOK ==
  /\ started \in 0 .. Len(Autostart)
  /\ state \in [Procs -> {"none", "running", "called"}]
  /\ needspoll \in [Procs -> BOOLEAN]
  /\ pollRequested \in BOOLEAN
  /\ events \in [0 .. NumEvents - 1 -> Event \cup {NoEvent}]
  /\ fevent \in 0 .. NumEvents - 1 /\ nevents \in Nat
  /\ cur \in Event \cup {NoEvent} /\ posting \in Event \cup {NoEvent}
  /\ pc \in PCs
  /\ pollAt \in 0 .. Len(Autostart) + 1 /\ bcastAt \in 0 .. Len(Autostart) + 1
  /\ running \in Procs \cup {NULL}
  /\ reg \in Nat
  /\ accepted \in Seq(Event)

\* The count of waiting events never passes the number of slots, which is what
\* makes process_post's test for a full queue, an equality, sufficient.
CountBounded == nevents <= NumEvents

\* A poll request set by an interrupt is never forgotten: while a process is
\* marked, either the global flag is up or do_poll has yet to pass it.
PollRemembered ==
  \A i \in 1 .. started :
    needspoll[List[i]] => pollRequested \/ (0 < pollAt /\ pollAt <= i)

\* Threads do not nest: a process is marked called exactly while its thread
\* runs, so that process_post and process_poll see a consistent kernel.
OneThread ==
  /\ \A p \in Procs : state[p] = "called" <=> running = p
  /\ running /= NULL <=> pc \in {"thread", "count", "counted"}

\* The ring implements the queue that process.h promises: events come out
\* once and in the order in which their posts were accepted.
Queue == INSTANCE EventQueue
           WITH Events <- Event, queue <- accepted, delivered <- cur
RingIsFifo == Queue!Spec

\* A polled process is called with the poll, however many events wait.
PollServed == \A p \in Procs : needspoll[p] ~> ~needspoll[p]

=============================================================================
