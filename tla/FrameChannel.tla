---------------------------- MODULE FrameChannel ----------------------------
(***************************************************************************)
(* What the serial link promises the drawing code: messages of the M8      *)
(* arrive whole, in order and once each, except those a fault damages.  A  *)
(* damaged one is lost or arrives as any packet at all; the damage ends    *)
(* with an end of message that gets through.                               *)
(***************************************************************************)
EXTENDS Integers, Sequences

CONSTANTS
  Messages,   \* the messages the M8 sends
  AnyPacket   \* what may be handed over in place of a damaged message

VARIABLES
  msg,        \* the message being sent
  damaged,    \* something of it was lost, or it runs into the one before it
  packets     \* what the last step handed over: one packet or none

vars == <<msg, damaged, packets>>

Init ==
  /\ msg \in Messages
  /\ damaged \in BOOLEAN
  /\ packets = <<>>

\* A part of the message arrives, or a fault hits it.
Carry ==
  /\ damaged' \in {damaged, TRUE}
  /\ packets' = <<>>
  /\ UNCHANGED msg

Deliver ==
  /\ ~damaged
  /\ packets' = <<msg>>
  /\ msg' \in Messages
  /\ UNCHANGED damaged

\* The end of a damaged message arrives, with or without a packet.
Garble ==
  /\ damaged
  /\ \/ packets' = <<>>
     \/ Len(packets') = 1 /\ packets'[1] \in AnyPacket
  /\ msg' \in Messages
  /\ damaged' = FALSE

\* The end of a message is lost: the next one runs into it.
LoseEnd ==
  /\ packets' = <<>>
  /\ msg' \in Messages
  /\ damaged' = TRUE

Next == Carry \/ Deliver \/ Garble \/ LoseEnd

Spec == Init /\ [][Next]_vars
=============================================================================
