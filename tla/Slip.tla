-------------------------------- MODULE Slip --------------------------------
(***************************************************************************)
(* slip.c: the decoder that turns the bytes of a bulk transfer into        *)
(* packets.  It runs in the USB thread, one call of slip_read_byte for     *)
(* each byte, and is the only user of its state.                           *)
(***************************************************************************)
EXTENDS Integers, Sequences

CONSTANTS
  Plain,     \* the byte values that mean nothing to SLIP
  END, ESC,  \* SLIP_SPECIAL_BYTE_END, SLIP_SPECIAL_BYTE_ESC
  ESC_END,   \* SLIP_ESCAPED_BYTE_END
  ESC_ESC,   \* SLIP_ESCAPED_BYTE_ESC
  BufSize    \* descriptor->buf_size

Byte == Plain \cup {END, ESC, ESC_END, ESC_ESC}

ASSUME SlipAssumption ==
  /\ BufSize \in Nat \ {0}
  /\ END # ESC /\ END # ESC_END /\ END # ESC_ESC
  /\ ESC # ESC_END /\ ESC # ESC_ESC /\ ESC_END # ESC_ESC
  /\ Plain \cap {END, ESC, ESC_END, ESC_ESC} = {}

VARIABLES
  state,     \* slip->state
  buf,       \* the first slip->size bytes of descriptor->buf
  error,     \* what the last slip_read_byte returned
  packets    \* the packets handed to recv_message by the last call: one or none

slipVars == <<state, buf, error, packets>>

slip_init ==
  /\ state = "NORMAL"
  /\ buf = <<>>
  /\ error = "NO_ERROR"
  /\ packets = <<>>

\* Mutant: a reset that keeps the bytes received so far.
reset_rx_state_only ==
  /\ state' = "NORMAL"
  /\ UNCHANGED buf

reset_rx ==
  /\ state' = "NORMAL"
  /\ buf' = <<>>

\* Mutant: the state is not set back after an escaped byte.
put_byte_no_state(byte) ==
  IF Len(buf) >= BufSize
  THEN error' = "BUFFER_OVERFLOW" /\ reset_rx
  ELSE error' = "NO_ERROR" /\ UNCHANGED state /\ buf' = Append(buf, byte)

\* The test is exact: a packet of BufSize bytes fits.
put_byte_to_buffer(byte) ==
  IF Len(buf) >= BufSize
  THEN error' = "BUFFER_OVERFLOW" /\ reset_rx
  ELSE error' = "NO_ERROR" /\ state' = "NORMAL" /\ buf' = Append(buf, byte)

\* END outside an escape: recv_message gets the buffer.  The callee is
\* pullCommand, which returns 1 whatever it is given, so INVALID_PACKET, the
\* error of a refused packet, never occurs in this program.
ReadEnd ==
  /\ packets' = <<buf>>
  /\ error' = "NO_ERROR"
  /\ reset_rx

ReadNormal(byte) ==
  /\ state = "NORMAL"
  /\ \/ byte = END /\ ReadEnd
     \/ /\ byte = ESC
        /\ state' = "ESCAPED"
        /\ error' = "NO_ERROR"
        /\ packets' = <<>>
        /\ UNCHANGED buf
     \/ /\ byte \notin {END, ESC}
        /\ put_byte_to_buffer(byte)
        /\ packets' = <<>>

\* Mutant: a bad escape leaves the decoder waiting in the escaped state.
ReadEscapedStuck(byte) ==
  /\ state = "ESCAPED"
  /\ packets' = <<>>
  /\ \/ byte = ESC_END /\ put_byte_to_buffer(END)
     \/ byte = ESC_ESC /\ put_byte_to_buffer(ESC)
     \/ /\ byte \notin {ESC_END, ESC_ESC}
        /\ error' = "UNKNOWN_ESCAPED_BYTE"
        /\ UNCHANGED <<state, buf>>

ReadEscaped(byte) ==
  /\ state = "ESCAPED"
  /\ packets' = <<>>
  /\ \/ byte = ESC_END /\ put_byte_to_buffer(END)
     \/ byte = ESC_ESC /\ put_byte_to_buffer(ESC)
     \/ /\ byte \notin {ESC_END, ESC_ESC}
        /\ error' = "UNKNOWN_ESCAPED_BYTE"
        /\ reset_rx

slip_read_byte(byte) == ReadNormal(byte) \/ ReadEscaped(byte)
=============================================================================
