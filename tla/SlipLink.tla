------------------------------ MODULE SlipLink ------------------------------
(***************************************************************************)
(* The serial link: the M8 sends SLIP frames without pause, the USB        *)
(* callback of main.c feeds what arrives to the decoder of slip.c.  Bytes  *)
(* keep their order but not all of them arrive: the callback drops what a  *)
(* transfer carried when its status is not COMPLETED, a timeout of 300 ms  *)
(* for instance, and the first read may start in the middle of a frame.    *)
(***************************************************************************)
EXTENDS Slip

CONSTANTS
  Messages,   \* the messages of the M8
  MaxLosses   \* the bytes lost in a behaviour, at most

ASSUME LinkAssumption ==
  /\ Messages \subseteq Seq(Byte)
  /\ Messages # {}
  /\ \A m \in Messages : Len(m) <= BufSize
  /\ MaxLosses \in Nat

VARIABLES
  msg, pos, half,  \* the M8: its message, how many bytes of it are sent, and
                   \* whether the ESC before the next byte is sent too
  losses,          \* the bytes lost so far
  damaged,         \* bytes of this frame, or the END before it, were lost
  broken           \* the decoder reported an error since the last END it took

senderVars == <<msg, pos, half>>
vars == <<slipVars, senderVars, losses, damaged, broken>>

Special == {END, ESC}

TypeOK ==
  /\ state \in {"NORMAL", "ESCAPED"}
  /\ buf \in Seq(Byte)
  /\ Len(buf) <= BufSize
  /\ error \in {"NO_ERROR", "BUFFER_OVERFLOW", "UNKNOWN_ESCAPED_BYTE"}
  /\ packets \in Seq(Seq(Byte))
  /\ Len(packets) <= 1
  /\ msg \in Messages
  /\ pos \in 0 .. Len(msg)
  /\ half \in BOOLEAN
  /\ half => pos < Len(msg) /\ msg[pos + 1] \in Special
  /\ losses \in 0 .. MaxLosses
  /\ damaged \in BOOLEAN
  /\ broken \in BOOLEAN

\* The program starts to read at any point of the stream.
Init ==
  /\ slip_init
  /\ msg \in Messages
  /\ pos \in 0 .. Len(msg)
  /\ half \in {h \in BOOLEAN : h => pos < Len(msg) /\ msg[pos + 1] \in Special}
  /\ losses = 0
  /\ damaged = (pos > 0 \/ half)
  /\ broken = FALSE
-----------------------------------------------------------------------------
(* The M8, as the special bytes of slip.h require it to encode. *)

AtEnd == pos = Len(msg)

NeedsEscape == ~AtEnd /\ ~half /\ msg[pos + 1] \in Special

Wire ==
  CASE AtEnd       -> END
    [] NeedsEscape -> ESC
    [] half        -> IF msg[pos + 1] = END THEN ESC_END ELSE ESC_ESC
    [] OTHER       -> msg[pos + 1]

\* The M8 goes on to the byte after Wire.
Advance ==
  \/ AtEnd /\ msg' \in Messages /\ pos' = 0 /\ half' = FALSE
  \/ NeedsEscape /\ half' = TRUE /\ UNCHANGED <<msg, pos>>
  \/ ~AtEnd /\ ~NeedsEscape /\ pos' = pos + 1 /\ half' = FALSE /\ UNCHANGED msg
-----------------------------------------------------------------------------
\* The byte arrives: an iteration of the loop in callback.
Feed ==
  /\ slip_read_byte(Wire)
  /\ Advance
  /\ damaged' = (damaged /\ ~AtEnd)
  /\ broken' = (~AtEnd /\ (broken \/ error' # "NO_ERROR"))
  /\ UNCHANGED losses

\* The byte is lost: it was in a transfer that callback submits again unread.
Lose ==
  /\ losses < MaxLosses
  /\ losses' = losses + 1
  /\ Advance
  /\ damaged' = TRUE
  /\ packets' = <<>>
  /\ UNCHANGED <<state, buf, error, broken>>

Next == Feed \/ Lose

Spec == Init /\ [][Next]_vars

\* The USB thread goes on handling transfers and the M8 goes on sending.
FairSpec == Spec /\ WF_vars(Feed)
-----------------------------------------------------------------------------
\* A frame no byte of which was lost is in step with the decoder: the buffer
\* holds the part of the message that was sent, and the decoder waits for the
\* second half of an escape when the M8 is in the middle of one.
InStep ==
  ~damaged =>
    /\ buf = SubSeq(msg, 1, pos)
    /\ state = "ESCAPED" <=> half
    /\ ~broken

LinkInv == TypeOK /\ InStep

\* Every frame that arrives whole is handed over once, exactly as the M8
\* encoded it, no packet is longer than the buffer, and no damage outlasts the
\* next END that arrives.
Channel == INSTANCE FrameChannel WITH
  AnyPacket <- {packet \in Seq(Byte) : Len(packet) <= BufSize}

IsChannel == Channel!Spec

\* A decoder that met an error gets over it: once bytes stop being lost, whole
\* messages are handed over for ever.
WholeMessage == ~damaged /\ packets' = <<msg>>

KeepsDelivering == []<><<WholeMessage>>_vars

\* recv_message is "the function where complete slip packets are processed
\* further": it does not get what is left of a frame the decoder gave up.
CompletePackets == [][broken => packets' = <<>>]_vars
=============================================================================
