----------------------------- MODULE RingBuffer -----------------------------
(***************************************************************************)
(* ringbuffer.c: the buffer between the USB thread, whose isochronous      *)
(* callback pushes audio packets, and the SDL audio thread, whose callback *)
(* pops them.  One thread pushes and one thread pops.                      *)
(*                                                                         *)
(* The test for a full or an empty buffer reads size before the mutex is   *)
(* taken; the rest runs under the mutex.  "rb->size += n" is a load and a  *)
(* store, so each critical section is two steps here: one that reads size  *)
(* and copies the bytes, one that writes the index and size and unlocks.   *)
(***************************************************************************)
EXTENDS Integers, Sequences

CONSTANTS
  Byte,        \* the values a byte of audio may have
  MaxSize,     \* max_size: the bytes the buffer holds
  Packets,     \* the byte sequences the USB callback may push
  PopLengths   \* the lengths SDL may ask the audio callback to fill

ASSUME RingAssumption ==
  /\ MaxSize \in Nat \ {0}
  /\ Packets \subseteq Seq(Byte)
  /\ PopLengths \subseteq Nat

VARIABLES
  buffer, head, tail, size,  \* the RingBuffer structure
  mutex,                     \* the thread that holds the mutex, or "none"
  pusher,                    \* the USB thread's place in ring_buffer_push
  popper,                    \* the audio thread's place in ring_buffer_pop
  pushRet, popRet,           \* what the last call of each returned
  popData                    \* the bytes the last successful pop copied out

vars == <<buffer, head, tail, size, mutex, pusher, popper,
          pushRet, popRet, popData>>

Index == 0 .. MaxSize - 1

\* Both functions return -1 as a uint32_t, and the callers compare the result
\* with -1 in that type.
Failed == -1

Smaller(a, b) == IF a <= b THEN a ELSE b

\* A thread's locals: the argument of the call in progress, n, and the value
\* of size its critical section has loaded.  They are dead outside a call.
IdlePusher == [pc |-> "idle", data |-> <<>>, n |-> 0, loaded |-> 0]
IdlePopper == [pc |-> "idle", length |-> 0, n |-> 0, loaded |-> 0, data |-> <<>>]

\* ring_buffer_create.  SDL_malloc leaves the bytes as it finds them.
Init ==
  /\ buffer \in [Index -> Byte]
  /\ head = 0
  /\ tail = 0
  /\ size = 0
  /\ mutex = "none"
  /\ pusher = IdlePusher
  /\ popper = IdlePopper
  /\ pushRet = 0
  /\ popRet = 0
  /\ popData = <<>>

ring_buffer_full == size = MaxSize

ring_buffer_empty == size = 0
-----------------------------------------------------------------------------
(* ring_buffer_push, in the USB thread. *)

PushCall(packet) ==
  /\ pusher.pc = "idle"
  /\ ~ring_buffer_full
  /\ pusher' = [pc |-> "lock", data |-> packet, n |-> 0, loaded |-> 0]
  /\ UNCHANGED <<buffer, head, tail, size, mutex, popper, pushRet, popRet, popData>>

PushFull ==
  /\ pusher.pc = "idle"
  /\ ring_buffer_full
  /\ pushRet' = Failed
  /\ UNCHANGED <<buffer, head, tail, size, mutex, pusher, popper, popRet, popData>>

\* Mutant: the push does not wait for the mutex.
PushLockAnyway ==
  /\ pusher.pc = "lock"
  /\ mutex' = "usb"
  /\ pusher' = [pusher EXCEPT !.pc = "copy"]
  /\ UNCHANGED <<buffer, head, tail, size, popper, pushRet, popRet, popData>>

PushLock ==
  /\ pusher.pc = "lock"
  /\ mutex = "none"
  /\ mutex' = "usb"
  /\ pusher' = [pusher EXCEPT !.pc = "copy"]
  /\ UNCHANGED <<buffer, head, tail, size, popper, pushRet, popRet, popData>>

\* Mutant: the second piece restarts at the first byte of data.
FilledFromStart(data, n) ==
  LET space1 == MaxSize - tail IN
  [i \in Index |->
     CASE i >= tail /\ i < tail + n    -> data[i - tail + 1]
       [] n > space1 /\ i < n - space1 -> data[i + 1]
       [] OTHER                        -> buffer[i]]

\* The buffer after n bytes of data went in at tail, in one piece or, when
\* fewer than n slots are left before the end of the array, in two.
Filled(data, n) ==
  LET space1 == MaxSize - tail IN
  [i \in Index |->
     CASE i >= tail /\ i < tail + n    -> data[i - tail + 1]
       [] n > space1 /\ i < n - space1 -> data[space1 + i + 1]
       [] OTHER                        -> buffer[i]]

\* Mutant: the packet is not cut to the free space.
PushCopyWhole ==
  LET n == Len(pusher.data) IN
  /\ pusher.pc = "copy"
  /\ buffer' = Filled(pusher.data, n)
  /\ pusher' = [pusher EXCEPT !.pc = "store", !.n = n, !.loaded = size]
  /\ UNCHANGED <<head, tail, size, mutex, popper, pushRet, popRet, popData>>

PushCopy ==
  LET n == Smaller(Len(pusher.data), MaxSize - size) IN
  /\ pusher.pc = "copy"
  /\ buffer' = Filled(pusher.data, n)
  /\ pusher' = [pusher EXCEPT !.pc = "store", !.n = n, !.loaded = size]
  /\ UNCHANGED <<head, tail, size, mutex, popper, pushRet, popRet, popData>>

\* Mutant: the push returns without unlocking.
PushStoreLocked ==
  /\ pusher.pc = "store"
  /\ tail' = (tail + pusher.n) % MaxSize
  /\ size' = pusher.loaded + pusher.n
  /\ pushRet' = pusher.n
  /\ pusher' = IdlePusher
  /\ UNCHANGED <<buffer, head, mutex, popper, popRet, popData>>

PushStore ==
  /\ pusher.pc = "store"
  /\ tail' = (tail + pusher.n) % MaxSize
  /\ size' = pusher.loaded + pusher.n
  /\ mutex' = "none"
  /\ pushRet' = pusher.n
  /\ pusher' = IdlePusher
  /\ UNCHANGED <<buffer, head, popper, popRet, popData>>
-----------------------------------------------------------------------------
(* ring_buffer_pop, in the SDL audio thread. *)

PopCall(length) ==
  /\ popper.pc = "idle"
  /\ ~ring_buffer_empty
  /\ popper' = [pc |-> "lock", length |-> length, n |-> 0, loaded |-> 0, data |-> <<>>]
  /\ UNCHANGED <<buffer, head, tail, size, mutex, pusher, pushRet, popRet, popData>>

PopEmpty ==
  /\ popper.pc = "idle"
  /\ ring_buffer_empty
  /\ popRet' = Failed
  /\ UNCHANGED <<buffer, head, tail, size, mutex, pusher, popper, pushRet, popData>>

PopLock ==
  /\ popper.pc = "lock"
  /\ mutex = "none"
  /\ mutex' = "audio"
  /\ popper' = [popper EXCEPT !.pc = "copy"]
  /\ UNCHANGED <<buffer, head, tail, size, pusher, pushRet, popRet, popData>>

\* The n bytes that start at head, from one piece of the array or from two.
Taken(n) ==
  LET space1 == MaxSize - head IN
  [i \in 1 .. n |-> IF i <= space1 THEN buffer[head + i - 1]
                                   ELSE buffer[i - space1 - 1]]

PopCopy ==
  LET n == Smaller(popper.length, size) IN
  /\ popper.pc = "copy"
  /\ popper' = [popper EXCEPT !.pc = "store", !.n = n, !.loaded = size,
                              !.data = Taken(n)]
  /\ UNCHANGED <<buffer, head, tail, size, mutex, pusher, pushRet, popRet, popData>>

PopStore ==
  /\ popper.pc = "store"
  /\ head' = (head + popper.n) % MaxSize
  /\ size' = popper.loaded - popper.n
  /\ mutex' = "none"
  /\ popRet' = popper.n
  /\ popData' = popper.data
  /\ popper' = IdlePopper
  /\ UNCHANGED <<buffer, tail, pusher, pushRet>>
-----------------------------------------------------------------------------
Next ==
  \/ \E packet \in Packets : PushCall(packet)
  \/ PushFull
  \/ PushLock
  \/ PushCopy
  \/ PushStore
  \/ \E length \in PopLengths : PopCall(length)
  \/ PopEmpty
  \/ PopLock
  \/ PopCopy
  \/ PopStore

Spec == Init /\ [][Next]_vars

\* Neither callback is ever suspended for good inside a call, and a thread
\* that keeps finding the mutex free gets it in the end: each holds it for a
\* copy of a few hundred bytes and then returns to a wait of milliseconds.
Fairness ==
  /\ SF_vars(PushLock)
  /\ WF_vars(PushCopy \/ PushStore)
  /\ SF_vars(PopLock)
  /\ WF_vars(PopCopy \/ PopStore)

FairSpec == Spec /\ Fairness
-----------------------------------------------------------------------------
(* The abstract queue: the size bytes that start at head. *)

Queue == [i \in 1 .. size |-> buffer[(head + i - 1) % MaxSize]]

Fifo == INSTANCE ByteFifo WITH
  queue    <- Queue,
  Capacity <- MaxSize

\* The ring buffer is a bounded byte queue: the bytes a pop delivers are the
\* oldest bytes pushed and not yet popped, in order, none lost, repeated or
\* overwritten, whatever the interleaving of the USB and the audio thread.
IsFifo == Fifo!Spec

\* The unlocked test of a call is still good when the call gets the mutex: no
\* interleaving turns a push that passed ring_buffer_full into one with no
\* room, or a pop that passed ring_buffer_empty into one with no bytes.
TestStaysGood ==
  /\ pusher.pc # "idle" => ~ring_buffer_full
  /\ popper.pc # "idle" => ~ring_buffer_empty

\* Neither audio callback blocks for ever in the buffer.
CallsReturn ==
  /\ pusher.pc # "idle" ~> pusher.pc = "idle"
  /\ popper.pc # "idle" ~> popper.pc = "idle"
-----------------------------------------------------------------------------
(* The invariant the refinement rests on. *)

TypeOK ==
  /\ buffer \in [Index -> Byte]
  /\ head \in Index
  /\ tail \in Index
  /\ size \in 0 .. MaxSize
  /\ mutex \in {"none", "usb", "audio"}
  /\ pusher \in [pc : {"idle", "lock", "copy", "store"}, data : Seq(Byte),
                 n : 0 .. MaxSize, loaded : 0 .. MaxSize]
  /\ popper \in [pc : {"idle", "lock", "copy", "store"}, length : Nat,
                 n : 0 .. MaxSize, loaded : 0 .. MaxSize, data : Seq(Byte)]
  /\ pushRet \in 0 .. MaxSize \cup {Failed}
  /\ popRet \in 0 .. MaxSize \cup {Failed}
  /\ popData \in Seq(Byte)

\* The mutex is held exactly by the thread inside a critical section.
MutexInv ==
  /\ mutex = "usb" <=> pusher.pc \in {"copy", "store"}
  /\ mutex = "audio" <=> popper.pc \in {"copy", "store"}

\* tail is size bytes after head.
IndexInv == tail = (head + size) % MaxSize

\* Between its two steps a push has its bytes in the free slots after tail and
\* knows the current size.
PushInv ==
  /\ pusher.pc # "idle" => pusher.data \in Packets
  /\ pusher.pc = "store" =>
       /\ pusher.loaded = size
       /\ pusher.n = Smaller(Len(pusher.data), MaxSize - size)
       /\ \A i \in 1 .. pusher.n :
            buffer[(tail + i - 1) % MaxSize] = pusher.data[i]

\* Between its two steps a pop has a copy of the oldest bytes and knows the
\* current size.
PopInv ==
  /\ popper.pc # "idle" => popper.length \in PopLengths
  /\ popper.pc = "store" =>
       /\ popper.loaded = size
       /\ popper.n = Smaller(popper.length, size)
       /\ popper.data = [i \in 1 .. popper.n |-> buffer[(head + i - 1) % MaxSize]]

RingInv == TypeOK /\ MutexInv /\ IndexInv /\ PushInv /\ PopInv
=============================================================================
