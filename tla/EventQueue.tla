----------------------------- MODULE EventQueue -----------------------------
(***************************************************************************)
(* What the event queue of the Contiki kernel promises its users           *)
(* (contiki-3.0/core/sys/process.h): an event whose post is accepted is    *)
(* delivered once, in the order of the posts, and a post is refused only   *)
(* when NumEvents events are waiting.                                      *)
(***************************************************************************)
EXTENDS Naturals, Sequences

CONSTANTS Events, NumEvents, NoEvent

VARIABLES
  queue,       \* the accepted events not delivered yet, oldest first
  delivered    \* the last event handed to the processes

vars == <<queue, delivered>>

Init == queue = <<>> /\ delivered = NoEvent

Post(e) ==
  /\ Len(queue) < NumEvents
  /\ queue' = Append(queue, e)
  /\ UNCHANGED delivered

Deliver ==
  /\ queue /= <<>>
  /\ delivered' = Head(queue)
  /\ queue' = Tail(queue)

Next == Deliver \/ \E e \in Events : Post(e)

Spec == Init /\ [][Next]_vars

=============================================================================
