------------------------ MODULE ProcessKernelProofs ------------------------
(***************************************************************************)
(* Proofs about ProcessKernel, for any processes, any order of starting    *)
(* them, any events and any size of the ring.                              *)
(*                                                                         *)
(* The first invariant, LoopInv, says where the cursors of the loops are   *)
(* and whose thread runs; it holds whatever the interrupt handlers do.     *)
(* The second, RingInv, ties the ring to the queue of accepted events; it  *)
(* needs the interrupt handlers to leave process_post alone.               *)
(***************************************************************************)
EXTENDS ProcessKernel, TLAPS

-----------------------------------------------------------------------------
(* The indices of the ring.                                                *)

\* Below twice the ring's size the modulus is one subtraction.
LEMMA SlotValue ==
  ASSUME NEW x \in Nat, x < 2 * NumEvents
  PROVE  Slot(x) = IF x < NumEvents THEN x ELSE x - NumEvents
<1> NumEvents \in Nat \ {0}  BY KernelAssumption
<1>1. CASE x < NumEvents  BY <1>1 DEF Slot
<1>2. CASE x >= NumEvents
  <2>1. x % NumEvents = x - NumEvents BY <1>2
  <2> QED BY <2>1, <1>2 DEF Slot
<1> QED BY <1>1, <1>2

\* A slot is a place of the ring.
LEMMA SlotRange ==
  ASSUME NEW x \in Nat
  PROVE  Slot(x) \in 0 .. NumEvents - 1
BY KernelAssumption DEF Slot

\* Counting on from a slot that was itself wrapped around.
LEMMA SlotShift ==
  ASSUME NEW f \in 0 .. NumEvents - 1, NEW i \in 1 .. NumEvents
  PROVE  Slot(Slot(f + 1) + i - 1) = Slot(f + i)
<1> NumEvents \in Nat \ {0}  BY KernelAssumption
<1>1. Slot(f + 1) = IF f + 1 < NumEvents THEN f + 1 ELSE f + 1 - NumEvents
  <2>1. f + 1 \in Nat /\ f + 1 < 2 * NumEvents  OBVIOUS
  <2> QED  BY <2>1, SlotValue
<1>2. CASE f + 1 < NumEvents
  BY <1>1, <1>2
<1>3. CASE f + 1 = NumEvents
  <2>1. Slot(f + 1) + i - 1 = i - 1  BY <1>1, <1>3
  <2>2. i - 1 \in Nat /\ i - 1 < NumEvents  OBVIOUS
  <2>3. Slot(i - 1) = i - 1  BY <2>2, SlotValue
  <2>4. f + i \in Nat /\ f + i < 2 * NumEvents /\ f + i >= NumEvents  BY <1>3
  <2>5. Slot(f + i) = f + i - NumEvents  BY <2>4, SlotValue
  <2> QED  BY <2>1, <2>3, <2>5, <1>3
<1> QED  BY <1>2, <1>3

\* Two places of the ring less than a round apart are different.
LEMMA SlotInjective ==
  ASSUME NEW f \in 0 .. NumEvents - 1,
         NEW i \in 0 .. NumEvents - 1, NEW j \in 0 .. NumEvents - 1, i < j
  PROVE  Slot(f + i) /= Slot(f + j)
<1> NumEvents \in Nat \ {0}  BY KernelAssumption
<1>1. f + i \in Nat /\ f + i < 2 * NumEvents  OBVIOUS
<1>2. f + j \in Nat /\ f + j < 2 * NumEvents  OBVIOUS
<1> QED  BY <1>1, <1>2, SlotValue

-----------------------------------------------------------------------------
(* The loop of process_run.                                                *)

InThread == {"thread", "count", "counted"}

\* The cursor of do_poll is on the list while a poll round is under way and 0
\* otherwise; so is that of the broadcast loop, which waits for do_poll.
Cursors ==
  /\ pollAt > 0 => pc \in InThread \cup {"poll"}
  /\ pc = "poll" => pollAt > 0
  /\ pollAt <= started + 1
  /\ bcastAt > 0 => pc \in InThread \cup {"poll", "bcast", "deliver"}
  /\ pc \in {"bcast", "deliver"} => bcastAt > 0
  /\ bcastAt <= started + 1
  /\ pc = "deliver" \/ pollAt > 0 => bcastAt <= started
  /\ pc = "boot" => pollAt = 0 /\ bcastAt = 0
  /\ started < Len(Autostart) => pc \in InThread \cup {"boot"} /\ pollAt = 0 /\ bcastAt = 0

\* A process is off the list until it is started and nobody polls it before.
OffList ==
  \A p \in Procs : state[p] = "none" <=> p \notin Listed

NotPolledBefore ==
  \A p \in Procs : state[p] = "none" => ~needspoll[p]

\* The count is decremented only after it was seen to be positive.
CountPositive ==
  /\ pc = "uncount" => nevents > 0
  /\ pc = "uncounted" => reg > 0

\* The event of a post under way is an event.
PostingEvent == pc \in {"count", "counted"} => posting \in Event

LoopInv ==
  /\ TypeOK /\ OneThread /\ Cursors /\ OffList /\ NotPolledBefore
  /\ CountPositive /\ PostingEvent /\ PollRemembered

-----------------------------------------------------------------------------
(* The ring.                                                               *)

\* The events accepted and not taken: the count, less one while do_event has
\* moved the start of the ring and not yet decremented the count.
Backlog == IF pc \in {"uncount", "uncounted"} THEN nevents - 1 ELSE nevents

RingInv ==
  /\ nevents <= NumEvents
  /\ Len(accepted) = Backlog
  /\ \A i \in 1 .. Len(accepted) : accepted[i] = events[Slot(fevent + i - 1)]
  /\ pc \in {"count", "counted"} =>
       nevents < NumEvents /\ posting = events[Slot(fevent + nevents)]
  /\ pc \in {"counted", "uncounted"} => reg = nevents

-----------------------------------------------------------------------------
(* The first invariant.                                                    *)

LEMMA Constants ==
  /\ NumEvents \in Nat /\ NumEvents > 0
  /\ Len(Autostart) \in Nat
  /\ \A i \in 1 .. Len(Autostart) : Autostart[i] \in Procs
  /\ NULL \notin Procs /\ BROADCAST \notin Procs /\ NULL /= BROADCAST
BY KernelAssumption

\* The list is the started part of Autostart, the last one first.
LEMMA ListValue ==
  ASSUME started \in 0 .. Len(Autostart)
  PROVE  /\ \A i \in 1 .. started : /\ List[i] = Autostart[started + 1 - i]
                                    /\ List[i] \in Procs
                                    /\ List[i] \in Listed
         /\ Listed \subseteq Procs
<1> USE Constants
<1>1. ASSUME NEW i \in 1 .. started
      PROVE  started + 1 - i \in 1 .. started
  OBVIOUS
<1>2. \A i \in 1 .. started : List[i] = Autostart[started + 1 - i]
  BY DEF List
<1> QED  BY <1>1, <1>2 DEF Listed

LEMMA LoopInit == Init => LoopInv
<1> SUFFICES ASSUME Init PROVE LoopInv
  OBVIOUS
<1> USE Constants DEF Init
<1>1. TypeOK
  <2>1. pollRequested \in BOOLEAN /\ needspoll \in [Procs -> BOOLEAN]
    OBVIOUS
  <2>2. accepted \in Seq(Event) /\ events \in [0 .. NumEvents - 1 -> Event \cup {NoEvent}]
    OBVIOUS
  <2>3. fevent \in 0 .. NumEvents - 1
    OBVIOUS
  <2> QED  BY <2>1, <2>2, <2>3 DEF TypeOK, PCs
<1>2. OneThread /\ Cursors /\ CountPositive /\ PostingEvent
  BY DEF OneThread, Cursors, CountPositive, PostingEvent, InThread
<1>3. OffList /\ NotPolledBefore /\ PollRemembered
  BY DEF OffList, NotPolledBefore, PollRemembered, Listed
<1> QED  BY <1>1, <1>2, <1>3 DEF LoopInv

LEMMA LoopNext == LoopInv /\ [Next]_vars => LoopInv'
<1> SUFFICES ASSUME LoopInv, [Next]_vars PROVE LoopInv'
  OBVIOUS
<1> USE Constants DEF LoopInv, ring, loop, InThread
<1>1. CASE Boot
  <2> USE <1>1
  <2>1. TypeOK'
    BY DEF Boot, Call, TypeOK, PCs, Cursors, OneThread, CountPositive, PostingEvent, Event, NoEvent
  <2>2. OneThread'
    BY DEF Boot, Call, TypeOK, OneThread, Cursors
  <2>3. Cursors'
    BY DEF Boot, Call, TypeOK, Cursors, OneThread
  <2>4. OffList' /\ NotPolledBefore'
    BY DEF Boot, Call, TypeOK, OffList, NotPolledBefore, OneThread, Cursors, Listed
  <2>5. CountPositive' /\ PostingEvent'
    BY DEF Boot, Call, TypeOK, CountPositive, PostingEvent
  <2>6. PollRemembered'
    BY DEF Boot, Call, TypeOK, PollRemembered, Cursors, List, NotPolledBefore, OffList
  <2> QED  BY <2>1, <2>2, <2>3, <2>4, <2>5, <2>6
<1>2. CASE Return
  <2> USE <1>2
  <2>1. TypeOK'
    BY DEF Return, Continuation, TypeOK, PCs, Cursors, OneThread, CountPositive, PostingEvent, Event, NoEvent
  <2>2. OneThread'
    BY DEF Return, Continuation, TypeOK, OneThread, Cursors
  <2>3. Cursors'
    BY DEF Return, Continuation, TypeOK, Cursors, OneThread
  <2>4. OffList' /\ NotPolledBefore'
    BY DEF Return, Continuation, TypeOK, OffList, NotPolledBefore, OneThread, Cursors, Listed
  <2>5. CountPositive' /\ PostingEvent'
    BY DEF Return, Continuation, TypeOK, CountPositive, PostingEvent
  <2>6. PollRemembered'
    BY DEF Return, Continuation, TypeOK, PollRemembered, Cursors, List, NotPolledBefore, OffList
  <2> QED  BY <2>1, <2>2, <2>3, <2>4, <2>5, <2>6
<1>3. CASE PostLoad
  <2> USE <1>3
  <2>1. TypeOK'
    BY DEF PostLoad, TypeOK, PCs, Cursors, OneThread, CountPositive, PostingEvent, Event, NoEvent
  <2>2. OneThread'
    BY DEF PostLoad, TypeOK, OneThread, Cursors
  <2>3. Cursors'
    BY DEF PostLoad, TypeOK, Cursors, OneThread
  <2>4. OffList' /\ NotPolledBefore'
    BY DEF PostLoad, TypeOK, OffList, NotPolledBefore, OneThread, Cursors, Listed
  <2>5. CountPositive' /\ PostingEvent'
    BY DEF PostLoad, TypeOK, CountPositive, PostingEvent
  <2>6. PollRemembered'
    BY DEF PostLoad, TypeOK, PollRemembered, Cursors, List, NotPolledBefore, OffList
  <2> QED  BY <2>1, <2>2, <2>3, <2>4, <2>5, <2>6
<1>4. CASE PostCount
  <2> USE <1>4
  <2>1. TypeOK'
    BY DEF PostCount, TypeOK, PCs, Cursors, OneThread, CountPositive, PostingEvent, Event, NoEvent
  <2>2. OneThread'
    BY DEF PostCount, TypeOK, OneThread, Cursors
  <2>3. Cursors'
    BY DEF PostCount, TypeOK, Cursors, OneThread
  <2>4. OffList' /\ NotPolledBefore'
    BY DEF PostCount, TypeOK, OffList, NotPolledBefore, OneThread, Cursors, Listed
  <2>5. CountPositive' /\ PostingEvent'
    BY DEF PostCount, TypeOK, CountPositive, PostingEvent
  <2>6. PollRemembered'
    BY DEF PostCount, TypeOK, PollRemembered, Cursors, List, NotPolledBefore, OffList
  <2> QED  BY <2>1, <2>2, <2>3, <2>4, <2>5, <2>6
<1>5. CASE Top
  <2> USE <1>5
  <2>1. TypeOK'
    <3>1. pollRequested' \in BOOLEAN
      BY DEF Top, StartPoll, TypeOK
    <3>2. pollAt' \in 0 .. Len(Autostart) + 1 /\ pc' \in PCs
      BY DEF Top, StartPoll, TypeOK, PCs
    <3> QED  BY <3>1, <3>2 DEF Top, TypeOK
  <2>2. OneThread'
    BY DEF Top, StartPoll, TypeOK, OneThread, Cursors
  <2>3. Cursors'
    BY DEF Top, StartPoll, TypeOK, Cursors, OneThread
  <2>4. OffList' /\ NotPolledBefore'
    BY DEF Top, StartPoll, TypeOK, OffList, NotPolledBefore, OneThread, Cursors, Listed
  <2>5. CountPositive' /\ PostingEvent'
    BY DEF Top, StartPoll, TypeOK, CountPositive, PostingEvent
  <2>6. PollRemembered'
    BY DEF Top, StartPoll, TypeOK, PollRemembered, Cursors, List, NotPolledBefore, OffList
  <2> QED  BY <2>1, <2>2, <2>3, <2>4, <2>5, <2>6
<1>6. CASE DoPoll
  <2> USE <1>6
  <2>a. pollAt <= started => List[pollAt] \in Procs
    BY ListValue DEF DoPoll, TypeOK, Cursors
  <2>1. TypeOK'
    <3>1. needspoll' \in [Procs -> BOOLEAN]
      BY DEF DoPoll, TypeOK
    <3>2. /\ pollAt' \in 0 .. Len(Autostart) + 1
          /\ pc' \in PCs
      BY DEF DoPoll, Call, TypeOK, PCs
    <3>3. /\ state' \in [Procs -> {"none", "running", "called"}]
          /\ running' \in Procs \cup {NULL}
      BY <2>a DEF DoPoll, Call, TypeOK
    <3> QED  BY <3>1, <3>2, <3>3 DEF DoPoll, TypeOK
  <2>2. OneThread'
    BY <2>a DEF DoPoll, Call, StartPoll, TypeOK, OneThread, Cursors
  <2>3. Cursors'
    BY DEF DoPoll, Call, StartPoll, TypeOK, Cursors, OneThread
  <2>4. OffList' /\ NotPolledBefore'
    BY DEF DoPoll, Call, StartPoll, TypeOK, OffList, NotPolledBefore, OneThread, Cursors, Listed
  <2>5. CountPositive' /\ PostingEvent'
    BY DEF DoPoll, Call, StartPoll, TypeOK, CountPositive, PostingEvent
  <2>6. PollRemembered'
    <3> SUFFICES ASSUME NEW i \in 1 .. started', needspoll'[List'[i]]
                 PROVE  pollRequested' \/ (0 < pollAt' /\ pollAt' <= i)
      BY DEF PollRemembered
    <3>1. List' = List /\ started' = started /\ pollRequested' = pollRequested
      BY DEF DoPoll, List
    <3>2. pollAt \in Nat /\ pollAt > 0 /\ started \in Nat
      BY DEF DoPoll, TypeOK, Cursors
    <3>3. CASE pollAt > started
      <4>1. needspoll[List[i]]
        BY <3>1, <3>3 DEF DoPoll
      <4> QED  BY <3>1, <3>2, <3>3, <4>1 DEF PollRemembered
    <3>4. CASE pollAt <= started
      <4>1. needspoll' = [needspoll EXCEPT ![List[pollAt]] = FALSE]
        <5>1. CASE needspoll[List[pollAt]]
          BY <3>2, <3>4, <5>1 DEF DoPoll
        <5>2. CASE ~needspoll[List[pollAt]]
          BY <2>a, <3>2, <3>4, <5>2 DEF DoPoll, TypeOK
        <5> QED  BY <5>1, <5>2
      <4>3. needspoll[List[i]] /\ i /= pollAt
        BY <2>a, <3>1, <3>4, <4>1 DEF TypeOK
      <4>2. pollAt' = pollAt + 1
        BY <3>2, <3>4 DEF DoPoll
      <4> QED  BY <3>1, <3>2, <4>2, <4>3 DEF PollRemembered
    <3> QED  BY <3>2, <3>3, <3>4
  <2> QED  BY <2>1, <2>2, <2>3, <2>4, <2>5, <2>6
<1>7. CASE TakeEvent
  <2> USE <1>7
  <2>1. TypeOK'
    <3>1. accepted' \in Seq(Event)
      <4>1. accepted /= <<>> => Tail(accepted) \in Seq(Event)
        BY DEF TypeOK
      <4>2. accepted' \in {<<>>, accepted, Tail(accepted)}
            /\ (accepted' = Tail(accepted) => accepted' \in {<<>>, accepted} \/ accepted /= <<>>)
        BY DEF TakeEvent
      <4>3. <<>> \in Seq(Event) /\ accepted \in Seq(Event)
        BY DEF TypeOK
      <4> QED  BY <4>1, <4>2, <4>3
    <3>2. fevent' \in 0 .. NumEvents - 1
      <4>1. fevent + 1 \in Nat
        BY DEF TypeOK
      <4>2. Slot(fevent + 1) \in 0 .. NumEvents - 1
        BY <4>1, SlotRange
      <4> QED  BY <4>2 DEF TakeEvent, TypeOK
    <3>3. cur' \in Event \cup {NoEvent} /\ pc' \in PCs
      BY DEF TakeEvent, TypeOK, PCs
    <3> QED  BY <3>1, <3>2, <3>3 DEF TakeEvent, TypeOK
  <2>2. OneThread'
    BY DEF TakeEvent, TypeOK, OneThread, Cursors
  <2>3. Cursors'
    BY DEF TakeEvent, TypeOK, Cursors, OneThread
  <2>4. OffList' /\ NotPolledBefore'
    BY DEF TakeEvent, TypeOK, OffList, NotPolledBefore, OneThread, Cursors, Listed
  <2>5. CountPositive' /\ PostingEvent'
    BY DEF TakeEvent, TypeOK, CountPositive, PostingEvent
  <2>6. PollRemembered'
    BY DEF TakeEvent, TypeOK, PollRemembered, Cursors, List, NotPolledBefore, OffList
  <2> QED  BY <2>1, <2>2, <2>3, <2>4, <2>5, <2>6
<1>8. CASE TakeLoad
  <2> USE <1>8
  <2>1. TypeOK'
    BY DEF TakeLoad, TypeOK, PCs, Cursors, OneThread, CountPositive, PostingEvent, Event, NoEvent
  <2>2. OneThread'
    BY DEF TakeLoad, TypeOK, OneThread, Cursors
  <2>3. Cursors'
    BY DEF TakeLoad, TypeOK, Cursors, OneThread
  <2>4. OffList' /\ NotPolledBefore'
    BY DEF TakeLoad, TypeOK, OffList, NotPolledBefore, OneThread, Cursors, Listed
  <2>5. CountPositive' /\ PostingEvent'
    BY DEF TakeLoad, TypeOK, CountPositive, PostingEvent
  <2>6. PollRemembered'
    BY DEF TakeLoad, TypeOK, PollRemembered, Cursors, List, NotPolledBefore, OffList
  <2> QED  BY <2>1, <2>2, <2>3, <2>4, <2>5, <2>6
<1>9. CASE TakeCount
  <2> USE <1>9
  <2>1. TypeOK'
    <3>1. nevents' \in Nat /\ reg' \in Nat
      BY DEF TakeCount, TypeOK, CountPositive
    <3>2. bcastAt' \in 0 .. Len(Autostart) + 1 /\ pc' \in PCs
      BY DEF TakeCount, Call, TypeOK, PCs
    <3>3. /\ state' \in [Procs -> {"none", "running", "called"}]
          /\ running' \in Procs \cup {NULL}
      BY DEF TakeCount, Call, TypeOK
    <3> QED  BY <3>1, <3>2, <3>3 DEF TakeCount, TypeOK
  <2>2. OneThread'
    BY DEF TakeCount, Call, TypeOK, OneThread, Cursors
  <2>3. Cursors'
    BY DEF TakeCount, Call, TypeOK, Cursors, OneThread
  <2>4. OffList' /\ NotPolledBefore'
    BY DEF TakeCount, Call, TypeOK, OffList, NotPolledBefore, OneThread, Cursors, Listed
  <2>5. CountPositive' /\ PostingEvent'
    BY DEF TakeCount, Call, TypeOK, CountPositive, PostingEvent
  <2>6. PollRemembered'
    BY DEF TakeCount, Call, TypeOK, PollRemembered, Cursors, List, NotPolledBefore, OffList
  <2> QED  BY <2>1, <2>2, <2>3, <2>4, <2>5, <2>6
<1>10. CASE Broadcast
  <2> USE <1>10
  <2>1. TypeOK'
    <3>1. pollRequested' \in BOOLEAN
      BY DEF Broadcast, StartPoll, TypeOK
    <3>2. /\ pollAt' \in 0 .. Len(Autostart) + 1
          /\ bcastAt' \in 0 .. Len(Autostart) + 1
          /\ pc' \in PCs
      BY DEF Broadcast, StartPoll, TypeOK, PCs
    <3> QED  BY <3>1, <3>2 DEF Broadcast, TypeOK
  <2>2. OneThread'
    BY DEF Broadcast, StartPoll, TypeOK, OneThread, Cursors
  <2>3. Cursors'
    BY DEF Broadcast, StartPoll, TypeOK, Cursors, OneThread
  <2>4. OffList' /\ NotPolledBefore'
    BY DEF Broadcast, StartPoll, TypeOK, OffList, NotPolledBefore, OneThread, Cursors, Listed
  <2>5. CountPositive' /\ PostingEvent'
    BY DEF Broadcast, StartPoll, TypeOK, CountPositive, PostingEvent
  <2>6. PollRemembered'
    BY DEF Broadcast, StartPoll, TypeOK, PollRemembered, Cursors, List, NotPolledBefore, OffList
  <2> QED  BY <2>1, <2>2, <2>3, <2>4, <2>5, <2>6
<1>11. CASE BroadcastCall
  <2> USE <1>11
  <2>a. List[bcastAt] \in Procs
    <3>1. bcastAt \in 1 .. started /\ started \in 0 .. Len(Autostart)
      BY DEF BroadcastCall, TypeOK, Cursors
    <3> QED  BY <3>1, ListValue
  <2>1. TypeOK'
    <3>2. /\ bcastAt' \in 0 .. Len(Autostart) + 1
          /\ pc' \in PCs
      BY DEF BroadcastCall, Call, TypeOK, PCs, Cursors
    <3>3. /\ state' \in [Procs -> {"none", "running", "called"}]
          /\ running' \in Procs \cup {NULL}
      BY <2>a DEF BroadcastCall, Call, TypeOK
    <3> QED  BY <3>2, <3>3 DEF BroadcastCall, TypeOK
  <2>2. OneThread'
    BY <2>a DEF BroadcastCall, Call, TypeOK, OneThread, Cursors
  <2>3. Cursors'
    BY DEF BroadcastCall, Call, TypeOK, Cursors, OneThread
  <2>4. OffList' /\ NotPolledBefore'
    BY DEF BroadcastCall, Call, TypeOK, OffList, NotPolledBefore, OneThread, Cursors, Listed
  <2>5. CountPositive' /\ PostingEvent'
    BY DEF BroadcastCall, Call, TypeOK, CountPositive, PostingEvent
  <2>6. PollRemembered'
    BY DEF BroadcastCall, Call, TypeOK, PollRemembered, Cursors, List, NotPolledBefore, OffList
  <2> QED  BY <2>1, <2>2, <2>3, <2>4, <2>5, <2>6
<1>12. ASSUME NEW e \in Event, PostStore(e) PROVE LoopInv'
  <2> USE <1>12
  <2>1. TypeOK'
    BY DEF PostStore, Room, TypeOK, PCs, Cursors, OneThread, CountPositive, PostingEvent, Event, NoEvent
  <2>2. OneThread'
    BY DEF PostStore, Room, TypeOK, OneThread, Cursors
  <2>3. Cursors'
    BY DEF PostStore, Room, TypeOK, Cursors, OneThread
  <2>4. OffList' /\ NotPolledBefore'
    BY DEF PostStore, Room, TypeOK, OffList, NotPolledBefore, OneThread, Cursors, Listed
  <2>5. CountPositive' /\ PostingEvent'
    BY DEF PostStore, Room, TypeOK, CountPositive, PostingEvent
  <2>6. PollRemembered'
    BY DEF PostStore, Room, TypeOK, PollRemembered, Cursors, List, NotPolledBefore, OffList
  <2> QED  BY <2>1, <2>2, <2>3, <2>4, <2>5, <2>6
<1>13. ASSUME NEW p \in Procs, ThreadPoll(p) PROVE LoopInv'
  <2> USE <1>13
  <2>1. TypeOK'
    BY DEF ThreadPoll, Poll, TypeOK, PCs, Cursors, OneThread, CountPositive, PostingEvent, Event, NoEvent
  <2>2. OneThread'
    BY DEF ThreadPoll, Poll, TypeOK, OneThread, Cursors
  <2>3. Cursors'
    BY DEF ThreadPoll, Poll, TypeOK, Cursors, OneThread
  <2>4. OffList' /\ NotPolledBefore'
    BY DEF ThreadPoll, Poll, TypeOK, OffList, NotPolledBefore, OneThread, Cursors, Listed
  <2>5. CountPositive' /\ PostingEvent'
    BY DEF ThreadPoll, Poll, TypeOK, CountPositive, PostingEvent
  <2>6. PollRemembered'
    BY DEF ThreadPoll, Poll, TypeOK, PollRemembered, Cursors, List, NotPolledBefore, OffList
  <2> QED  BY <2>1, <2>2, <2>3, <2>4, <2>5, <2>6
<1>14. ASSUME NEW p \in Procs, IsrPoll(p) PROVE LoopInv'
  <2> USE <1>14
  <2>1. TypeOK'
    BY DEF IsrPoll, Poll, TypeOK, PCs, Cursors, OneThread, CountPositive, PostingEvent, Event, NoEvent
  <2>2. OneThread'
    BY DEF IsrPoll, Poll, TypeOK, OneThread, Cursors
  <2>3. Cursors'
    BY DEF IsrPoll, Poll, TypeOK, Cursors, OneThread
  <2>4. OffList' /\ NotPolledBefore'
    BY DEF IsrPoll, Poll, TypeOK, OffList, NotPolledBefore, OneThread, Cursors, Listed
  <2>5. CountPositive' /\ PostingEvent'
    BY DEF IsrPoll, Poll, TypeOK, CountPositive, PostingEvent
  <2>6. PollRemembered'
    BY DEF IsrPoll, Poll, TypeOK, PollRemembered, Cursors, List, NotPolledBefore, OffList
  <2> QED  BY <2>1, <2>2, <2>3, <2>4, <2>5, <2>6
<1>15. ASSUME NEW e \in Event, IsrPost(e) PROVE LoopInv'
  <2> USE <1>15
  <2>1. TypeOK'
    <3>1. accepted' \in Seq(Event) /\ nevents' \in Nat
      BY DEF IsrPost, TypeOK
    <3>2. events' \in [0 .. NumEvents - 1 -> Event \cup {NoEvent}]
      BY DEF IsrPost, TypeOK
    <3> QED  BY <3>1, <3>2 DEF IsrPost, TypeOK
  <2>2. OneThread'
    BY DEF IsrPost, Room, TypeOK, OneThread, Cursors
  <2>3. Cursors'
    BY DEF IsrPost, Room, TypeOK, Cursors, OneThread
  <2>4. OffList' /\ NotPolledBefore'
    BY DEF IsrPost, Room, TypeOK, OffList, NotPolledBefore, OneThread, Cursors, Listed
  <2>5. CountPositive' /\ PostingEvent'
    BY DEF IsrPost, Room, TypeOK, CountPositive, PostingEvent
  <2>6. PollRemembered'
    BY DEF IsrPost, Room, TypeOK, PollRemembered, Cursors, List, NotPolledBefore, OffList
  <2> QED  BY <2>1, <2>2, <2>3, <2>4, <2>5, <2>6
<1>16. CASE UNCHANGED vars
  BY <1>16 DEF vars, TypeOK, OneThread, Cursors, OffList, NotPolledBefore,
              CountPositive, PostingEvent, PollRemembered, Listed, List
<1> QED
  BY <1>1, <1>2, <1>3, <1>4, <1>5, <1>6, <1>7, <1>8, <1>9, <1>10, <1>11, <1>12, <1>13, <1>14, <1>15, <1>16 DEF Next, MainStep, ThreadPost

\* The variables keep their shape: no step, of a thread, of the loop or of an
\* interrupt handler, takes a cursor off the list or the ring off its slots.
THEOREM TypeCorrect == Spec => []TypeOK
<1>1. LoopInv => TypeOK
  BY DEF LoopInv
<1> QED  BY <1>1, LoopInit, LoopNext, PTL DEF Spec

\* No interrupt can make the kernel forget a poll request.
THEOREM PollsAreRemembered == Spec => []PollRemembered
<1>1. LoopInv => PollRemembered
  BY DEF LoopInv
<1> QED  BY <1>1, LoopInit, LoopNext, PTL DEF Spec

\* At most one thread runs, and it is the one marked called.
THEOREM ThreadsDoNotNest == Spec => []OneThread
<1>1. LoopInv => OneThread
  BY DEF LoopInv
<1> QED  BY <1>1, LoopInit, LoopNext, PTL DEF Spec

-----------------------------------------------------------------------------
(* The second invariant: without posting interrupt handlers the ring holds *)
(* exactly the accepted events.                                            *)

KernelInv == LoopInv /\ RingInv

LEMMA KernelInit == Init => KernelInv
<1> SUFFICES ASSUME Init PROVE KernelInv
  OBVIOUS
<1>1. LoopInv
  BY LoopInit
<1>2. RingInv
  BY Constants DEF Init, RingInv, Backlog
<1> QED  BY <1>1, <1>2 DEF KernelInv

LEMMA KernelNext ==
  ASSUME IsrPosts = {}
  PROVE  KernelInv /\ [Next]_vars => KernelInv'
<1> SUFFICES ASSUME KernelInv, [Next]_vars PROVE KernelInv'
  OBVIOUS
<1>0. LoopInv'
  BY LoopNext DEF KernelInv
<1>t. TypeOK /\ TypeOK' /\ RingInv
  BY <1>0 DEF KernelInv, LoopInv
<1> SUFFICES RingInv'
  BY <1>0 DEF KernelInv
<1> USE Constants DEF ring, loop
<1>1. CASE UNCHANGED ring /\ UNCHANGED <<posting, reg>>
           /\ pc \notin {"count", "counted", "uncount", "uncounted"}
           /\ pc' \notin {"count", "counted", "uncount", "uncounted"}
  BY <1>1, <1>t DEF RingInv, Backlog
<1>2. CASE UNCHANGED ring /\ UNCHANGED <<posting, reg, pc>>
  BY <1>2, <1>t DEF RingInv, Backlog
<1>3. ASSUME NEW e \in Event, PostStore(e) PROVE RingInv'
  <2> USE <1>3, <1>t
  <2>1. nevents < NumEvents /\ Len(accepted) = nevents
    BY DEF PostStore, Room, RingInv, Backlog, TypeOK
  <2>2. Slot(fevent + nevents) \in 0 .. NumEvents - 1
    <3>1. fevent + nevents \in Nat
      BY DEF TypeOK
    <3> QED  BY <3>1, SlotRange
  <2>3. events'[Slot(fevent + nevents)] = e
    BY <2>2 DEF PostStore, TypeOK
  <2>4. ASSUME NEW i \in 1 .. nevents
        PROVE  events'[Slot(fevent + i - 1)] = events[Slot(fevent + i - 1)]
    <3>1. i - 1 \in 0 .. NumEvents - 1 /\ nevents \in 0 .. NumEvents - 1 /\ i - 1 < nevents
      BY <2>1 DEF TypeOK
    <3>2. Slot(fevent + (i - 1)) /= Slot(fevent + nevents)
      BY <3>1, SlotInjective DEF TypeOK
    <3>3. fevent + (i - 1) = fevent + i - 1 /\ fevent + (i - 1) \in Nat
      BY <3>1 DEF TypeOK
    <3>4. Slot(fevent + i - 1) \in 0 .. NumEvents - 1
      BY <3>3, SlotRange
    <3> QED  BY <3>2, <3>3, <3>4 DEF PostStore, TypeOK
  <2>5. \A i \in 1 .. Len(accepted') : accepted'[i] = events'[Slot(fevent' + i - 1)]
    BY <2>1, <2>4 DEF PostStore, RingInv
  <2> QED  BY <2>1, <2>3, <2>5 DEF PostStore, RingInv, Backlog
<1>4. CASE PostLoad
  BY <1>4, <1>t DEF PostLoad, RingInv, Backlog
<1>5. CASE PostCount
  <2> USE <1>5, <1>t
  <2>1. /\ nevents' = nevents + 1 /\ nevents < NumEvents
        /\ Len(accepted) = nevents /\ fevent' = fevent /\ events' = events
        /\ posting = events[Slot(fevent + nevents)]
    BY DEF PostCount, RingInv, Backlog, TypeOK
  <2>2. Len(accepted') = nevents + 1
    BY <2>1 DEF PostCount, TypeOK
  <2>3. \A i \in 1 .. Len(accepted') : accepted'[i] = events'[Slot(fevent' + i - 1)]
    <3> SUFFICES ASSUME NEW i \in 1 .. nevents + 1
                 PROVE  accepted'[i] = events[Slot(fevent + i - 1)]
      BY <2>1, <2>2
    <3>1. CASE i <= nevents
      BY <3>1, <2>1 DEF PostCount, RingInv, TypeOK
    <3>2. CASE i = nevents + 1
      <4>1. accepted'[i] = posting
        BY <3>2, <2>1 DEF PostCount, TypeOK
      <4>2. fevent + i - 1 = fevent + nevents
        BY <3>2 DEF TypeOK
      <4> QED  BY <4>1, <4>2, <2>1
    <3> QED  BY <3>1, <3>2, <2>1 DEF TypeOK
  <2> QED  BY <2>1, <2>2, <2>3 DEF PostCount, RingInv, Backlog, TypeOK
<1>6. CASE TakeEvent
  <2> USE <1>6, <1>t
  <2>1. CASE nevents = 0
    BY <2>1 DEF TakeEvent, RingInv, Backlog
  <2>2. CASE nevents > 0
    <3>1. /\ Len(accepted) = nevents /\ accepted' = Tail(accepted)
          /\ fevent' = Slot(fevent + 1) /\ events' = events /\ nevents' = nevents
      BY <2>2 DEF TakeEvent, RingInv, Backlog, TypeOK
    <3>2. /\ Len(accepted') = nevents - 1
          /\ \A i \in 1 .. nevents - 1 : accepted'[i] = accepted[i + 1]
      BY <2>2, <3>1 DEF TypeOK
    <3>3. ASSUME NEW i \in 1 .. nevents - 1
          PROVE  accepted'[i] = events[Slot(Slot(fevent + 1) + i - 1)]
      <4>1. i \in 1 .. NumEvents
        BY DEF RingInv, TypeOK
      <4>2. Slot(Slot(fevent + 1) + i - 1) = Slot(fevent + i)
        BY <4>1, SlotShift DEF TypeOK
      <4>3. accepted[i + 1] = events[Slot(fevent + i)]
        <5>1. i + 1 \in 1 .. Len(accepted) /\ fevent + (i + 1) - 1 = fevent + i
          BY <3>1 DEF TypeOK
        <5>2. accepted[i + 1] = events[Slot(fevent + (i + 1) - 1)]
          BY <5>1 DEF RingInv
        <5> QED  BY <5>1, <5>2
      <4> QED  BY <3>2, <4>2, <4>3
    <3> QED  BY <2>2, <3>1, <3>2, <3>3 DEF TakeEvent, RingInv, Backlog, TypeOK
  <2> QED  BY <2>1, <2>2 DEF TypeOK
<1>7. CASE TakeLoad
  BY <1>7, <1>t DEF TakeLoad, RingInv, Backlog
<1>8. CASE TakeCount
  <2>1. pc' \notin {"count", "counted", "uncount", "uncounted"}
    BY <1>8 DEF TakeCount, Call
  <2>2. nevents' = nevents - 1 /\ nevents' \in Nat
    BY <1>8, <1>t DEF TakeCount, RingInv, TypeOK
  <2> QED  BY <1>8, <1>t, <2>1, <2>2 DEF TakeCount, RingInv, Backlog, TypeOK
<1>9. CASE Boot \/ Return \/ Top \/ DoPoll \/ Broadcast \/ BroadcastCall
  <2>1. pc' \notin {"count", "counted", "uncount", "uncounted"}
    BY <1>9 DEF Boot, Return, Continuation, Top, DoPoll, StartPoll, Broadcast, BroadcastCall,
       Call
  <2>2. UNCHANGED ring /\ UNCHANGED <<posting, reg>>
        /\ pc \notin {"count", "counted", "uncount", "uncounted"}
    BY <1>9 DEF Boot, Return, Top, DoPoll, Broadcast, BroadcastCall
  <2> QED  BY <2>1, <2>2, <1>1
<1>10. ASSUME NEW p \in Procs, ThreadPoll(p) \/ IsrPoll(p) PROVE RingInv'
  BY <1>10, <1>2 DEF ThreadPoll, IsrPoll
<1>11. \A e \in Event : ~IsrPost(e)
  BY DEF IsrPost
<1>12. CASE UNCHANGED vars
  BY <1>12, <1>2 DEF vars
<1> QED
  BY <1>3, <1>4, <1>5, <1>6, <1>7, <1>8, <1>9, <1>10, <1>11, <1>12
  DEF Next, MainStep, ThreadPost

\* Without posting interrupt handlers the count of events stays within the
\* ring, so that process_post's test for equality finds every full queue.
THEOREM CountStaysBounded ==
  ASSUME IsrPosts = {}
  PROVE  Spec => []CountBounded
<1>1. KernelInv => CountBounded
  BY DEF KernelInv, RingInv, CountBounded
<1> QED  BY <1>1, KernelInit, KernelNext, PTL DEF Spec

\* Without posting interrupt handlers the ring, its two indices and the split
\* updates of the count implement the event queue of process.h.
THEOREM RingImplementsQueue ==
  ASSUME IsrPosts = {}
  PROVE  Spec => RingIsFifo
<1>1. Init => Queue!Init
  BY DEF Init, Queue!Init
<1>2. KernelInv /\ [Next]_vars => [Queue!Next]_Queue!vars
  <2> SUFFICES ASSUME KernelInv, [Next]_vars PROVE [Queue!Next]_Queue!vars
    OBVIOUS
  <2> USE Constants DEF Queue!vars, KernelInv, LoopInv, ring, loop
  <2>1. CASE PostCount
    <3>1. Len(accepted) < NumEvents /\ posting \in Event
      BY <2>1 DEF PostCount, RingInv, Backlog, PostingEvent
    <3>2. Queue!Post(posting)
      BY <2>1, <3>1 DEF PostCount, Queue!Post
    <3> QED  BY <3>1, <3>2 DEF Queue!Next
  <2>2. CASE TakeEvent
    <3>1. CASE nevents = 0
      BY <2>2, <3>1 DEF TakeEvent, TypeOK
    <3>2. CASE nevents > 0
      <4>1. Len(accepted) = nevents
        BY <2>2 DEF TakeEvent, RingInv, Backlog
      <4>2. accepted /= <<>> /\ Head(accepted) = accepted[1]
        BY <3>2, <4>1 DEF TypeOK
      <4>3. accepted[1] = events[Slot(fevent + 1 - 1)]
        BY <3>2, <4>1 DEF RingInv, TypeOK
      <4>4. Slot(fevent + 1 - 1) = fevent
        <5>1. fevent + 1 - 1 = fevent /\ fevent \in Nat /\ fevent < 2 * NumEvents /\ fevent < NumEvents
          BY DEF TypeOK
        <5> QED  BY <5>1, SlotValue
      <4>5. Queue!Deliver
        BY <2>2, <3>2, <4>2, <4>3, <4>4 DEF TakeEvent, Queue!Deliver
      <4> QED  BY <4>5 DEF Queue!Next
    <3> QED  BY <3>1, <3>2 DEF TypeOK
  <2>3. ASSUME NEW e \in Event, PostStore(e) PROVE UNCHANGED Queue!vars
    BY <2>3 DEF PostStore
  <2>4. ASSUME NEW p \in Procs, ThreadPoll(p) \/ IsrPoll(p) PROVE UNCHANGED Queue!vars
    BY <2>4 DEF ThreadPoll, IsrPoll
  <2>5. CASE Boot \/ Return \/ PostLoad \/ Top \/ DoPoll
    BY <2>5 DEF Boot, Return, PostLoad, Top, DoPoll
  <2>6. CASE TakeLoad \/ TakeCount \/ Broadcast \/ BroadcastCall
    BY <2>6 DEF TakeLoad, TakeCount, Broadcast, BroadcastCall
  <2>7. \A e \in Event : ~IsrPost(e)
    BY DEF IsrPost
  <2>8. CASE UNCHANGED vars
    BY <2>8 DEF vars
  <2> QED
    BY <2>1, <2>2, <2>3, <2>4, <2>5, <2>6, <2>7, <2>8 DEF Next, MainStep, ThreadPost
<1> QED
  BY <1>1, <1>2, KernelInit, KernelNext, PTL DEF Spec, RingIsFifo, Queue!Spec

=============================================================================
