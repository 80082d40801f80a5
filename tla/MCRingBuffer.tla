---------------------------- MODULE MCRingBuffer ----------------------------
(***************************************************************************)
(* A small ring buffer.  The packets alternate between two byte values, so *)
(* that neighbours differ and a byte lost, repeated or out of order shows; *)
(* they are up to MaxPacket bytes, enough to wrap and to overfill.  A pop  *)
(* asks for up to MaxPop bytes, one more than the buffer may hold.         *)
(***************************************************************************)
EXTENDS RingBuffer

CONSTANTS MaxPacket, MaxPop, First, Second

MCPackets ==
  UNION {{[i \in 1 .. n |-> IF i % 2 = 1 THEN First ELSE Second],
          [i \in 1 .. n |-> IF i % 2 = 1 THEN Second ELSE First]} : n \in 0 .. MaxPacket}

MCPopLengths == 1 .. MaxPop
=============================================================================
