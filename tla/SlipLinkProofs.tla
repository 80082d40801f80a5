--------------------------- MODULE SlipLinkProofs ---------------------------
(***************************************************************************)
(* Theorems about the serial link, for every alphabet, buffer size and set *)
(* of messages that fit in the buffer.                                     *)
(***************************************************************************)
EXTENDS SlipLink, TLAPS

DecoderOK ==
  /\ state \in {"NORMAL", "ESCAPED"}
  /\ buf \in Seq(Byte)
  /\ Len(buf) <= BufSize
  /\ error \in {"NO_ERROR", "BUFFER_OVERFLOW", "UNKNOWN_ESCAPED_BYTE"}
  /\ packets \in Seq(Seq(Byte))
  /\ Len(packets) <= 1

SenderOK ==
  /\ msg \in Messages
  /\ pos \in 0 .. Len(msg)
  /\ half \in BOOLEAN
  /\ half => pos < Len(msg) /\ msg[pos + 1] \in Special

LEMMA MessageFacts ==
  ASSUME NEW m \in Messages
  PROVE  /\ m \in Seq(Byte)
         /\ Len(m) \in 0 .. BufSize
         /\ \A i \in 1 .. Len(m) : m[i] \in Byte
  BY LinkAssumption, SlipAssumption

\* Storing a byte keeps the decoder's state well formed, full buffer or not.
LEMMA PutTyped ==
  ASSUME DecoderOK, NEW byte \in Byte, put_byte_to_buffer(byte), packets' = <<>>
  PROVE  DecoderOK'
<1>1. CASE Len(buf) >= BufSize
  BY <1>1, SlipAssumption DEF DecoderOK, put_byte_to_buffer, reset_rx
<1>2. CASE ~(Len(buf) >= BufSize)
  BY <1>2, SlipAssumption DEF DecoderOK, put_byte_to_buffer, reset_rx
<1> QED BY <1>1, <1>2

\* A whole call does, whatever the byte.
LEMMA ReadTyped ==
  ASSUME DecoderOK, NEW byte \in Byte, slip_read_byte(byte)
  PROVE  DecoderOK'
<1>0. END \in Byte /\ ESC \in Byte
  BY DEF Byte
<1>1. CASE ReadNormal(byte)
  <2>1. CASE byte = END /\ ReadEnd
    <3> DEFINE S == Seq(Byte)
    <3>1. buf \in S
      BY DEF DecoderOK
    <3> HIDE DEF S
    <3>2. <<buf>> \in Seq(S) /\ Len(<<buf>>) = 1
      BY <3>1
    <3>3. <<buf>> \in Seq(Seq(Byte))
      BY <3>2 DEF S
    <3> QED BY <2>1, <3>2, <3>3, SlipAssumption DEF DecoderOK, ReadEnd, reset_rx
  <2>2. CASE byte = ESC /\ state' = "ESCAPED" /\ error' = "NO_ERROR" /\ packets' = <<>> /\ UNCHANGED buf
    BY <2>2 DEF DecoderOK
  <2>3. CASE put_byte_to_buffer(byte) /\ packets' = <<>>
    BY <2>3, PutTyped
  <2> QED BY <1>1, <2>1, <2>2, <2>3 DEF ReadNormal
<1>2. CASE ReadEscaped(byte)
  <2>1. CASE byte = ESC_END /\ put_byte_to_buffer(END)
    BY <1>0, <1>2, <2>1, PutTyped DEF ReadEscaped
  <2>2. CASE byte = ESC_ESC /\ put_byte_to_buffer(ESC)
    BY <1>0, <1>2, <2>2, PutTyped DEF ReadEscaped
  <2>3. CASE error' = "UNKNOWN_ESCAPED_BYTE" /\ reset_rx
    BY <1>2, <2>3, SlipAssumption DEF DecoderOK, ReadEscaped, reset_rx
  <2> QED BY <1>2, <2>1, <2>2, <2>3 DEF ReadEscaped
<1> QED BY <1>1, <1>2 DEF slip_read_byte

\* What the M8 puts on the wire is a byte.
LEMMA WireTyped ==
  ASSUME SenderOK
  PROVE  Wire \in Byte
<1> USE MessageFacts DEF SenderOK, Wire, Byte, AtEnd, NeedsEscape, Special
<1>1. CASE AtEnd
  BY <1>1
<1>2. CASE NeedsEscape
  BY <1>2
<1>3. CASE half
  BY <1>3
<1>4. CASE ~AtEnd /\ ~NeedsEscape /\ ~half
  <2>1. pos + 1 \in 1 .. Len(msg)
    BY <1>4
  <2> QED BY <1>4, <2>1
<1> QED BY <1>1, <1>2, <1>3, <1>4

\* The M8 stays within its message.
LEMMA AdvanceTyped ==
  ASSUME SenderOK, Advance
  PROVE  SenderOK'
<1>1. Len(msg) \in Nat
  BY MessageFacts DEF SenderOK
<1>2. CASE AtEnd /\ msg' \in Messages /\ pos' = 0 /\ half' = FALSE
  <2>1. msg' \in Messages /\ pos' \in 0 .. Len(msg')
    BY <1>2, MessageFacts
  <2> QED BY <1>2, <2>1, Zenon DEF SenderOK
<1>3. CASE NeedsEscape /\ half' = TRUE /\ UNCHANGED <<msg, pos>>
  BY <1>1, <1>3 DEF SenderOK, NeedsEscape, AtEnd
<1>4. CASE ~AtEnd /\ ~NeedsEscape /\ pos' = pos + 1 /\ half' = FALSE /\ UNCHANGED msg
  <2>1. msg' \in Messages /\ pos' \in 0 .. Len(msg')
    BY <1>1, <1>4 DEF SenderOK, AtEnd
  <2> QED BY <1>4, <2>1, Zenon DEF SenderOK
<1> QED BY <1>2, <1>3, <1>4 DEF Advance

\* A byte of a frame none of which was lost keeps the decoder in step.
LEMMA FeedInStep ==
  ASSUME LinkInv, Feed
  PROVE  InStep'
<1> USE SlipAssumption
<1>0. /\ msg \in Seq(Byte)
      /\ Len(msg) \in 0 .. BufSize
      /\ pos \in 0 .. Len(msg)
  BY MessageFacts DEF LinkInv, TypeOK
<1>1. CASE AtEnd
  <2>1. buf' = <<>> /\ state' = "NORMAL" /\ pos' = 0 /\ half' = FALSE /\ broken' = FALSE
    <3>0. ~half
      BY <1>0, <1>1 DEF AtEnd, LinkInv, TypeOK
    <3>1. Wire = END /\ END \notin {ESC_END, ESC_ESC}
      BY <3>0, <1>1 DEF Wire, NeedsEscape
    <3>2. buf' = <<>> /\ state' = "NORMAL"
      BY <3>1 DEF Feed, slip_read_byte, ReadNormal, ReadEscaped, ReadEnd, reset_rx
    <3>3. pos' = 0 /\ half' = FALSE
      BY <1>1, Zenon DEF Feed, Advance, NeedsEscape
    <3>4. broken' = FALSE
      BY <1>1, Zenon DEF Feed
    <3> QED BY <3>2, <3>3, <3>4
  <2>2. SubSeq(msg', 1, 0) = <<>>
    BY MessageFacts, <1>1 DEF Feed, Advance, NeedsEscape
  <2> QED BY <2>1, <2>2 DEF InStep
<1>2. CASE NeedsEscape
  BY <1>0, <1>2 DEF LinkInv, TypeOK, InStep, Feed, slip_read_byte, ReadNormal, ReadEscaped,
     Advance, AtEnd, NeedsEscape, Wire
<1>3. CASE ~AtEnd /\ ~NeedsEscape
  <2> SUFFICES ASSUME ~damaged
               PROVE  buf' = SubSeq(msg', 1, pos') /\ (state' = "ESCAPED" <=> half') /\ ~broken'
    BY <1>3 DEF InStep, Feed
  <2>1. msg' = msg /\ pos' = pos + 1 /\ half' = FALSE /\ pos + 1 \in 1 .. Len(msg)
    BY <1>0, <1>3 DEF Feed, Advance, AtEnd
  <2>2. buf = SubSeq(msg, 1, pos) /\ Len(buf) = pos /\ Len(buf) < BufSize /\ ~broken
    BY <1>0, <2>1 DEF LinkInv, InStep
  <2>3. put_byte_to_buffer(msg[pos + 1])
    <3>1. CASE half
      BY <1>3, <3>1 DEF LinkInv, InStep, TypeOK, Feed, slip_read_byte, ReadNormal, ReadEscaped,
         Wire, NeedsEscape, Special
    <3>2. CASE ~half
      BY <1>3, <3>2 DEF LinkInv, InStep, TypeOK, Feed, slip_read_byte, ReadNormal, ReadEscaped,
         Wire, NeedsEscape, Special, AtEnd
    <3> QED BY <3>1, <3>2
  <2>4. buf' = Append(SubSeq(msg, 1, pos), msg[pos + 1]) /\ state' = "NORMAL" /\ error' = "NO_ERROR"
    BY <1>0, <2>2, <2>3 DEF put_byte_to_buffer
  <2>5. SubSeq(msg, 1, pos + 1) = Append(SubSeq(msg, 1, pos), msg[pos + 1])
    BY <1>0, <2>1
  <2> QED BY <1>3, <2>1, <2>2, <2>4, <2>5 DEF Feed
<1> QED BY <1>1, <1>2, <1>3
-----------------------------------------------------------------------------
\* Whatever is lost and wherever the reading starts, the decoder's state is
\* well formed, never beyond its buffer, and in step with the M8 on every frame
\* that has lost nothing so far.
THEOREM InStepAlways == Spec => []LinkInv
<1>1. Init => LinkInv
  <2> SUFFICES ASSUME Init PROVE LinkInv
    OBVIOUS
  <2>1. TypeOK
    <3>1. DecoderOK
      BY SlipAssumption DEF DecoderOK, Init, slip_init
    <3>2. SenderOK
      BY Zenon DEF SenderOK, Init
    <3>3. damaged \in BOOLEAN /\ broken \in BOOLEAN
      BY Zenon DEF Init
    <3>4. losses \in 0 .. MaxLosses
      BY LinkAssumption DEF Init
    <3> QED BY <3>1, <3>2, <3>3, <3>4, Zenon DEF TypeOK, DecoderOK, SenderOK
  <2>2. SubSeq(msg, 1, 0) = <<>>
    BY MessageFacts DEF Init
  <2>3. InStep
    <3> SUFFICES ASSUME ~damaged PROVE buf = SubSeq(msg, 1, pos) /\ (state = "ESCAPED" <=> half) /\ ~broken
      BY DEF InStep
    <3>1. pos \in Nat /\ ~(pos > 0) /\ ~half
      <4>1. half \in BOOLEAN /\ ~(pos > 0 \/ half)
        BY Zenon DEF Init
      <4>2. pos \in Nat
        BY MessageFacts DEF Init
      <4> QED BY <4>1, <4>2
    <3>2. pos = 0
      BY <3>1
    <3> QED BY <2>2, <3>1, <3>2 DEF Init, slip_init
  <2> QED BY <2>1, <2>3 DEF LinkInv
<1>2. LinkInv /\ [Next]_vars => LinkInv'
  <2> SUFFICES ASSUME LinkInv, [Next]_vars PROVE LinkInv'
    OBVIOUS
  <2>0. DecoderOK /\ SenderOK
    BY DEF LinkInv, TypeOK, DecoderOK, SenderOK
  <2>1. CASE Feed
    <3>1. DecoderOK'
      BY <2>0, <2>1, WireTyped, ReadTyped DEF Feed
    <3>2. SenderOK'
      BY <2>0, <2>1, AdvanceTyped DEF Feed
    <3>3. TypeOK'
      BY <2>1, <3>1, <3>2 DEF Feed, LinkInv, TypeOK, DecoderOK, SenderOK
    <3> QED BY <2>1, <3>3, FeedInStep DEF LinkInv
  <2>2. CASE Lose
    <3>1. SenderOK'
      BY <2>0, <2>2, AdvanceTyped DEF Lose
    <3>2. TypeOK'
      BY <2>2, <3>1, LinkAssumption DEF Lose, LinkInv, TypeOK, SenderOK
    <3> QED BY <2>2, <3>2 DEF Lose, LinkInv, InStep
  <2>3. CASE UNCHANGED vars
    BY <2>3 DEF vars, slipVars, senderVars, LinkInv, TypeOK, InStep
  <2> QED BY <2>1, <2>2, <2>3 DEF Next
<1> QED BY <1>1, <1>2, PTL DEF Spec
-----------------------------------------------------------------------------
\* A byte that is not the END of a frame hands nothing over.
LEMMA NoPacketInside ==
  ASSUME LinkInv, slip_read_byte(Wire), ~AtEnd
  PROVE  packets' = <<>>
<1> USE SlipAssumption
<1>1. Wire # END
  <2>1. CASE NeedsEscape
    BY <2>1, SlipAssumption DEF Wire, AtEnd, NeedsEscape
  <2>2. CASE half
    BY <2>2, SlipAssumption DEF Wire, AtEnd, NeedsEscape
  <2>3. CASE ~NeedsEscape /\ ~half
    BY <2>3 DEF Wire, AtEnd, NeedsEscape, Special
  <2> QED BY <2>1, <2>2, <2>3
<1> QED BY <1>1 DEF slip_read_byte, ReadNormal, ReadEscaped

\* The END of a frame that lost nothing hands its message over.
LEMMA EndDelivers ==
  ASSUME LinkInv, Feed, AtEnd, ~damaged
  PROVE  packets' = <<msg>>
<1>1. ~half /\ pos = Len(msg) /\ msg \in Seq(Byte) /\ Len(msg) \in Nat
  BY MessageFacts DEF LinkInv, TypeOK, AtEnd
<1>2. buf = SubSeq(msg, 1, Len(msg)) /\ state = "NORMAL"
  BY <1>1 DEF LinkInv, InStep, TypeOK
<1>3. SubSeq(msg, 1, Len(msg)) = msg
  BY <1>1
<1>4. Wire = END
  BY <1>1 DEF Wire, NeedsEscape, AtEnd
<1> QED
  BY <1>2, <1>3, <1>4, SlipAssumption DEF Feed, slip_read_byte, ReadNormal, ReadEscaped, ReadEnd

\* A byte that arrives is a step of the channel.
LEMMA FeedIsStep ==
  ASSUME LinkInv, Feed
  PROVE  Channel!Next
<1>1. CASE ~AtEnd
  <2>1. packets' = <<>>
    BY <1>1, NoPacketInside DEF Feed
  <2>2. msg' = msg
    BY <1>1, Zenon DEF Feed, Advance
  <2>3. damaged' = damaged
    BY <1>1 DEF Feed, LinkInv, TypeOK
  <2> QED BY <2>1, <2>2, <2>3 DEF Channel!Next, Channel!Carry
<1>2. CASE AtEnd /\ ~damaged
  <2>1. packets' = <<msg>>
    BY <1>2, EndDelivers
  <2>2. msg' \in Messages /\ damaged' = damaged
    BY <1>2, Zenon DEF Feed, Advance, NeedsEscape, LinkInv, TypeOK
  <2> QED BY <1>2, <2>1, <2>2 DEF Channel!Next, Channel!Deliver
<1>3. CASE AtEnd /\ damaged
  <2>1. msg' \in Messages /\ damaged' = FALSE
    BY <1>3, Zenon DEF Feed, Advance, NeedsEscape
  <2>2. packets' = <<>> \/ packets' = <<buf>>
    BY DEF Feed, slip_read_byte, ReadNormal, ReadEscaped, ReadEnd
  <2>3. buf \in {packet \in Seq(Byte) : Len(packet) <= BufSize}
    BY DEF LinkInv, TypeOK
  <2> DEFINE P == {packet \in Seq(Byte) : Len(packet) <= BufSize}
  <2>4. ASSUME packets' = <<buf>>
        PROVE  Len(packets') = 1 /\ packets'[1] \in P
    <3>1. buf \in P
      BY <2>3
    <3> HIDE DEF P
    <3> QED BY <3>1, <2>4
  <2> QED BY <1>3, <2>1, <2>2, <2>4, Zenon DEF Channel!Next, Channel!Garble
<1> QED BY <1>1, <1>2, <1>3

\* So is the loss of one.
LEMMA LoseIsStep ==
  ASSUME LinkInv, Lose
  PROVE  Channel!Next
<1>1. CASE AtEnd
  <2>1. msg' \in Messages
    BY <1>1, Zenon DEF Lose, Advance, NeedsEscape
  <2> QED BY <2>1 DEF Lose, Channel!Next, Channel!LoseEnd
<1>2. CASE ~AtEnd
  <2>1. msg' = msg
    BY <1>2, Zenon DEF Lose, Advance
  <2> QED BY <2>1 DEF Lose, Channel!Next, Channel!Carry
<1> QED BY <1>1, <1>2

\* The encoder, the lossy link and the decoder together implement the channel:
\* every message that loses no byte, and whose start was not run into by the
\* one before it, is handed over once, whole and in its turn.
THEOREM LinkImplementsChannel == Spec => IsChannel
<1>1. Init => Channel!Init
  BY Zenon DEF Init, slip_init, Channel!Init
<1>2. LinkInv /\ [Next]_vars => [Channel!Next]_Channel!vars
  <2>1. LinkInv /\ Next => Channel!Next
    BY FeedIsStep, LoseIsStep DEF Next
  <2>2. UNCHANGED vars => UNCHANGED Channel!vars
    BY DEF vars, slipVars, senderVars, Channel!vars
  <2> QED BY <2>1, <2>2
<1>3. Spec => []LinkInv
  BY InStepAlways
<1> QED BY <1>1, <1>2, <1>3, PTL DEF Spec, IsChannel, Channel!Spec

\* However often bytes were lost, and whatever the decoder made of what was left:
\* once no more are, and as long as bytes arrive and messages end, whole messages
\* are handed over for ever (main.c:66-90, slip.c:55-116).
THEOREM DeliversAgain ==
  Spec /\ <>[][Feed]_vars /\ []<><<Feed>>_vars /\ []<>AtEnd => KeepsDelivering
<1>1. Spec => []LinkInv
  BY InStepAlways
<1>2. LinkInv /\ AtEnd /\ <<Feed>>_vars => ~damaged'
  BY DEF Feed, LinkInv, TypeOK
<1>3. LinkInv /\ ~damaged /\ [Feed]_vars => ~damaged'
  BY DEF Feed, LinkInv, TypeOK, vars
<1>4. LinkInv /\ AtEnd /\ ~damaged /\ <<Feed>>_vars => <<WholeMessage>>_vars
  BY EndDelivers DEF WholeMessage
<1>5. UNCHANGED vars => (AtEnd => AtEnd')
  BY DEF vars, senderVars, AtEnd
<1> QED
  BY <1>1, <1>2, <1>3, <1>4, <1>5, PTL DEF KeepsDelivering
=============================================================================
