------------------------------- MODULE MCApp -------------------------------
(***************************************************************************)
(* Instances of App for TLC: class C, unconfirmed frames sent once, and a  *)
(* queue of two events, which fills up.                                    *)
(***************************************************************************)
EXTENDS App

Unconfirmed == {"unconfirmed"}
SomeFrames  == {"data", "bad"}
AckTimeouts == {3}
NoTimeOff   == {0}       \* the application switches the duty cycle off
=============================================================================
