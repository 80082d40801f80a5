------------------------------ MODULE ByteFifo ------------------------------
(***************************************************************************)
(* What the audio ring buffer of ringbuffer.c promises its two callers: a  *)
(* bounded first-in first-out queue of bytes.  A push stores the longest   *)
(* prefix of its packet that fits and says how long that prefix is; a pop  *)
(* takes as many of the oldest bytes as it was asked for and there are.    *)
(* Each of them happens at one instant.                                    *)
(***************************************************************************)
EXTENDS Integers, Sequences

CONSTANTS
  Packets,     \* the byte sequences the producer may push
  PopLengths,  \* the lengths the consumer may ask for
  Capacity,    \* the number of bytes the queue can hold
  Failed       \* the result of a push into a full or a pop of an empty queue

VARIABLES
  queue,       \* the bytes stored, oldest first
  pushRet,     \* the result of the last push
  popRet,      \* the result of the last pop
  popData      \* the bytes the last successful pop delivered

vars == <<queue, pushRet, popRet, popData>>

Smaller(a, b) == IF a <= b THEN a ELSE b

Init ==
  /\ queue = <<>>
  /\ pushRet = 0
  /\ popRet = 0
  /\ popData = <<>>

Push(packet) ==
  LET n == Smaller(Len(packet), Capacity - Len(queue)) IN
  /\ queue' = queue \o SubSeq(packet, 1, n)
  /\ pushRet' = n
  /\ UNCHANGED <<popRet, popData>>

PushFull ==
  /\ Len(queue) = Capacity
  /\ pushRet' = Failed
  /\ UNCHANGED <<queue, popRet, popData>>

Pop(length) ==
  LET n == Smaller(length, Len(queue)) IN
  /\ popData' = SubSeq(queue, 1, n)
  /\ queue' = SubSeq(queue, n + 1, Len(queue))
  /\ popRet' = n
  /\ UNCHANGED pushRet

PopEmpty ==
  /\ queue = <<>>
  /\ popRet' = Failed
  /\ UNCHANGED <<queue, pushRet, popData>>

Next ==
  \/ \E packet \in Packets : Push(packet)
  \/ PushFull
  \/ \E length \in PopLengths : Pop(length)
  \/ PopEmpty

Spec == Init /\ [][Next]_vars
=============================================================================
