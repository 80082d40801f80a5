------------------------------ MODULE UsbAudio ------------------------------
(***************************************************************************)
(* usb_audio.c: audio from the M8 to SDL.  The USB thread runs cb_xfr for  *)
(* each isochronous transfer that completes and pushes its packets into    *)
(* the ring buffer; SDL's audio thread runs audio_callback, which pops;    *)
(* the main thread starts it with audio_init, any step of which may fail,  *)
(* and ends it with audio_destroy.  Nobody looks at the result of          *)
(* audio_init.                                                             *)
(*                                                                         *)
(* The ring buffer is the queue of ByteFifo, which RingBuffer implements:  *)
(* a push and a pop are one step each.  Only the number of bytes matters   *)
(* here, so every byte is the same.  SDL holds its mixer lock while a      *)
(* callback runs, and SDL_PauseAudio takes that lock too.                  *)
(***************************************************************************)
EXTENDS Integers, Sequences

CONSTANTS
  NumTransfers, \* NUM_TRANSFERS
  NumPackets,   \* NUM_PACKETS
  PacketSizes,  \* how many bytes a packet of the M8 may hold
  ObtainedSize, \* _obtained.size: the bytes of one audio_callback
  MaxErrors     \* packets with an error status, and failed submissions, at most

ASSUME AudioAssumption ==
  /\ NumTransfers \in Nat \ {0}
  /\ NumPackets \in Nat \ {0}
  /\ PacketSizes \subseteq Nat
  /\ ObtainedSize \in Nat
  /\ MaxErrors \in Nat

VARIABLES
  queue, pushRet, popRet, popData,  \* audio_buffer, as in ByteFifo
  ring,       \* audio_buffer is allocated
  xfer,       \* where each transfer is: "none", "flight", "cancelled" but not
              \* completed yet, "callback", or "dead" when nobody will submit it
              \* again
  frees,      \* how often the data buffer of each transfer was freed
  usb,        \* cb_xfr: its place, its transfer, its packet
  player,     \* the audio thread: "idle", "ready" to take the lock, "playing"
  paused, opened,  \* SDL's audio device
  obtained,   \* _obtained.size
  main,       \* audio_init and audio_destroy: their place, and their i
  released,   \* the audio interface is released
  errors

fifoVars == <<queue, pushRet, popRet, popData>>
sdlVars == <<player, paused, opened, obtained>>
mainVars == <<main, released, ring>>
vars == <<fifoVars, mainVars, xfer, frees, usb, sdlVars, errors>>

Transfer == 1 .. NumTransfers

max_size == 8 * obtained

Byte == 0
Bytes(n) == [i \in 1 .. n |-> Byte]

Fifo == INSTANCE ByteFifo WITH
  Packets    <- {Bytes(n) : n \in PacketSizes},
  PopLengths <- {ObtainedSize},
  Capacity   <- 8 * ObtainedSize,
  Failed     <- -1

Idle == [pc |-> "idle", packet |-> 0]

\* The serial port is open and its USB thread runs.
Init ==
  /\ Fifo!Init
  /\ ring = FALSE
  /\ xfer = [t \in Transfer |-> "none"]
  /\ frees = [t \in Transfer |-> 0]
  /\ usb = Idle
  /\ player = "idle"
  /\ paused = TRUE
  /\ opened = FALSE
  /\ obtained = 0
  /\ main = [pc |-> "detach", i |-> 1]
  /\ released = FALSE
  /\ errors = 0
-----------------------------------------------------------------------------
(* audio_init, in the main thread. *)

\* What is asked of libusb and SDL first, in this order.  audio_init returns at
\* the first refusal.
NextCall ==
  [detach |-> "claim", claim |-> "setting", setting |-> "subsystem", subsystem |-> "open"]

Call ==
  /\ main.pc \in DOMAIN NextCall
  /\ main' = [main EXCEPT !.pc = NextCall[main.pc]] \/ main' = [main EXCEPT !.pc = "running"]
  /\ UNCHANGED <<fifoVars, released, ring, xfer, frees, usb, sdlVars, errors>>

\* SDL opens the device paused.  When it cannot, audio_init goes on with the
\* zeros of _obtained.
OpenAudio ==
  /\ main.pc = "open"
  /\ opened' \in BOOLEAN
  /\ obtained' = IF opened' THEN ObtainedSize ELSE 0
  /\ main' = [main EXCEPT !.pc = "create"]
  /\ UNCHANGED <<fifoVars, released, ring, xfer, frees, usb, player, paused, errors>>

CreateRing ==
  /\ main.pc = "create"
  /\ ring' = TRUE
  /\ main' = [main EXCEPT !.pc = "capture"]
  /\ UNCHANGED <<fifoVars, released, xfer, frees, usb, sdlVars, errors>>

\* A turn of benchmark_in: the transfer cannot be allocated, which ends it, or
\* is submitted, or cannot be submitted, which nobody notices.
benchmark_in ==
  /\ main.pc = "capture"
  /\ \/ /\ main' = [main EXCEPT !.pc = "running"]
        /\ UNCHANGED xfer
     \/ /\ main' = IF main.i < NumTransfers THEN [main EXCEPT !.i = @ + 1]
                   ELSE [main EXCEPT !.pc = "running"]
        /\ xfer' \in {[xfer EXCEPT ![main.i] = x] : x \in {"flight", "dead"}}
  /\ UNCHANGED <<fifoVars, released, ring, frees, usb, sdlVars, errors>>
-----------------------------------------------------------------------------
(* cb_xfr, in the USB thread. *)

\* libusb calls back.  A cancelled transfer comes back in the same way.
Callback(t) ==
  /\ usb.pc = "idle"
  /\ xfer[t] \in {"flight", "cancelled"}
  /\ xfer' = [xfer EXCEPT ![t] = "callback"]
  /\ usb' = [pc |-> "packet", packet |-> 1]
  /\ UNCHANGED <<fifoVars, mainVars, frees, sdlVars, errors>>

\* The transfer cb_xfr was called with.
InCallback(t) == xfer[t] = "callback"

\* "This doesn't happen, so bail out if it does": the transfer is not submitted
\* again.
BadPacket(t) ==
  /\ usb.pc = "packet"
  /\ InCallback(t)
  /\ errors < MaxErrors
  /\ errors' = errors + 1
  /\ xfer' = [xfer EXCEPT ![t] = "dead"]
  /\ usb' = Idle
  /\ UNCHANGED <<fifoVars, mainVars, frees, sdlVars>>

PushPacket ==
  /\ usb.pc = "packet"
  /\ IF Len(queue) = max_size THEN pushRet' = -1 /\ UNCHANGED <<queue, popRet, popData>>
     ELSE \E n \in PacketSizes : Fifo!Push(Bytes(n))
  /\ usb' = [usb EXCEPT !.pc = "level"]
  /\ UNCHANGED <<mainVars, xfer, frees, sdlVars, errors>>

\* Mutant: the loop over the packets runs once too often.
NextPacketOneMore ==
  IF usb.packet <= NumPackets THEN [pc |-> "packet", packet |-> usb.packet + 1]
  ELSE [usb EXCEPT !.pc = "submit"]

\* After the last packet cb_xfr submits the transfer again.
NextPacket ==
  IF usb.packet < NumPackets THEN [pc |-> "packet", packet |-> usb.packet + 1]
  ELSE [usb EXCEPT !.pc = "submit"]

\* cb_xfr reads audio_buffer->size with no lock, some time after the push, to see
\* whether it is low, and once more to see whether it is high.
LevelLow ==
  /\ usb.pc = "level"
  /\ usb' = [usb EXCEPT !.pc = IF Len(queue) < max_size \div 4 THEN "pause" ELSE "high"]
  /\ UNCHANGED <<fifoVars, mainVars, xfer, frees, sdlVars, errors>>

\* Mutant: the buffer has to be full before the device plays.
LevelHighFull ==
  /\ usb.pc = "high"
  /\ usb' = IF Len(queue) > max_size THEN [usb EXCEPT !.pc = "play"] ELSE NextPacket
  /\ UNCHANGED <<fifoVars, mainVars, xfer, frees, sdlVars, errors>>

\* Mutant: a buffer that is not low is high.
LevelHighAlways ==
  /\ usb.pc = "high"
  /\ usb' = IF Len(queue) >= max_size \div 4 THEN [usb EXCEPT !.pc = "play"] ELSE NextPacket
  /\ UNCHANGED <<fifoVars, mainVars, xfer, frees, sdlVars, errors>>

LevelHigh ==
  /\ usb.pc = "high"
  /\ usb' = IF Len(queue) > max_size \div 3 THEN [usb EXCEPT !.pc = "play"] ELSE NextPacket
  /\ UNCHANGED <<fifoVars, mainVars, xfer, frees, sdlVars, errors>>

\* SDL_PauseAudio waits for a callback that is playing.
PauseAudio ==
  /\ usb.pc \in {"pause", "play"}
  /\ player # "playing"
  /\ paused' = (usb.pc = "pause")
  /\ usb' = NextPacket
  /\ UNCHANGED <<fifoVars, mainVars, xfer, frees, player, opened, obtained, errors>>

\* libusb_submit_transfer, which fails for a released interface.
Submit(t) ==
  /\ usb.pc = "submit"
  /\ InCallback(t)
  /\ usb' = Idle
  /\ \/ /\ ~released
        /\ xfer' = [xfer EXCEPT ![t] = "flight"]
        /\ UNCHANGED <<frees, errors>>
     \/ /\ released \/ errors < MaxErrors
        /\ errors' = IF released THEN errors ELSE errors + 1
        /\ xfer' = [xfer EXCEPT ![t] = "dead"]
        /\ frees' = [frees EXCEPT ![t] = @ + 1]
  /\ UNCHANGED <<fifoVars, mainVars, sdlVars>>
-----------------------------------------------------------------------------
(* The audio thread of SDL, which sees paused before it takes the lock. *)

AudioReady ==
  /\ player = "idle"
  /\ opened
  /\ ~paused
  /\ player' = "ready"
  /\ UNCHANGED <<fifoVars, mainVars, xfer, frees, usb, paused, opened, obtained, errors>>

AudioLock ==
  /\ player = "ready"
  /\ player' = "playing"
  /\ UNCHANGED <<fifoVars, mainVars, xfer, frees, usb, paused, opened, obtained, errors>>

\* audio_callback.  The bytes the buffer could not give stay silent.
AudioCallback ==
  /\ player = "playing"
  /\ IF queue = <<>> THEN Fifo!PopEmpty ELSE Fifo!Pop(ObtainedSize)
  /\ player' = "idle"
  /\ UNCHANGED <<mainVars, xfer, frees, usb, paused, opened, obtained, errors>>
-----------------------------------------------------------------------------
(* audio_destroy, in the main thread. *)

Destroy ==
  /\ main.pc = "running"
  /\ main' = [pc |-> "cancel", i |-> 1]
  /\ UNCHANGED <<fifoVars, released, ring, xfer, frees, usb, sdlVars, errors>>

\* libusb_cancel_transfer only asks: it does not wait for the callback.
Cancel ==
  /\ main.pc = "cancel"
  /\ xfer[main.i] # "none"
  /\ xfer' = [xfer EXCEPT ![main.i] = IF @ = "flight" THEN "cancelled" ELSE @]
  /\ frees' = [frees EXCEPT ![main.i] = @ + 1]
  /\ main' = IF main.i < NumTransfers THEN [main EXCEPT !.i = @ + 1]
             ELSE [main EXCEPT !.pc = "release"]
  /\ UNCHANGED <<fifoVars, released, ring, usb, sdlVars, errors>>

\* audio_init did not get to this transfer.
CancelNull ==
  /\ main.pc = "cancel"
  /\ xfer[main.i] = "none"
  /\ main' = [main EXCEPT !.pc = "crashed"]
  /\ UNCHANGED <<fifoVars, released, ring, xfer, frees, usb, sdlVars, errors>>

ReleaseInterface ==
  /\ main.pc = "release"
  /\ \/ main' = [main EXCEPT !.pc = "close"] /\ released' = TRUE
     \/ main' = [main EXCEPT !.pc = "returned"] /\ UNCHANGED released
  /\ UNCHANGED <<fifoVars, ring, xfer, frees, usb, sdlVars, errors>>

\* Mutant: the device is closed without waiting for its thread.
CloseAudioNoWait ==
  /\ main.pc = "close"
  /\ opened' = FALSE
  /\ main' = [main EXCEPT !.pc = "free"]
  /\ UNCHANGED <<fifoVars, released, ring, xfer, frees, usb, player, paused, obtained, errors>>

\* SDL_CloseAudio waits for the audio thread.
CloseAudio ==
  /\ main.pc = "close"
  /\ player = "idle"
  /\ opened' = FALSE
  /\ main' = [main EXCEPT !.pc = "free"]
  /\ UNCHANGED <<fifoVars, released, ring, xfer, frees, usb, player, paused, obtained, errors>>

FreeRing ==
  /\ main.pc = "free"
  /\ ring' = FALSE
  /\ main' = [main EXCEPT !.pc = "returned"]
  /\ UNCHANGED <<fifoVars, released, xfer, frees, usb, sdlVars, errors>>
-----------------------------------------------------------------------------
Usb ==
  /\ main.pc # "crashed"
  /\ \/ PushPacket \/ LevelLow \/ LevelHigh \/ PauseAudio
     \/ \E t \in Transfer : Callback(t) \/ Submit(t)

Player ==
  /\ main.pc # "crashed"
  /\ AudioReady \/ AudioLock \/ AudioCallback

Main ==
  \/ Call \/ OpenAudio \/ CreateRing \/ benchmark_in
  \/ Cancel \/ CancelNull \/ ReleaseInterface \/ CloseAudio \/ FreeRing

Next ==
  \/ Usb \/ (main.pc # "crashed" /\ \E t \in Transfer : BadPacket(t))
  \/ Player \/ Destroy \/ Main

Spec == Init /\ [][Next]_vars

\* The M8 sends audio as long as a transfer is in flight and the USB thread
\* handles it; SDL plays whenever it is not paused.
FairSpec == Spec /\ WF_vars(Usb) /\ WF_vars(Player)
-----------------------------------------------------------------------------
TypeOK ==
  /\ queue \in Seq({Byte})
  /\ Len(queue) <= max_size
  /\ pushRet \in -1 .. max_size
  /\ popRet \in -1 .. max_size
  /\ popData \in Seq({Byte})
  /\ ring \in BOOLEAN
  /\ xfer \in [Transfer -> {"none", "flight", "cancelled", "callback", "dead"}]
  /\ frees \in [Transfer -> Nat]
  /\ usb \in [pc : {"idle", "packet", "level", "high", "pause", "play", "submit"},
              packet : 0 .. NumPackets]
  /\ player \in {"idle", "ready", "playing"}
  /\ paused \in BOOLEAN
  /\ opened \in BOOLEAN
  /\ obtained \in {0, ObtainedSize}
  /\ main \in [pc : DOMAIN NextCall \cup
                     {"open", "create", "capture", "running", "cancel", "release",
                      "close", "free", "returned", "crashed"},
               i : Transfer]
  /\ released \in BOOLEAN
  /\ errors \in 0 .. MaxErrors

\* Playback that was paused starts again with at least a third of the buffer,
\* but for the one callback that was on its way when the device was paused.
StartsFilled ==
  [][paused /\ ~paused' => Len(queue) > max_size \div 3 - ObtainedSize]_vars

\* The audio thread only runs while the ring buffer is there, although the device
\* is open before it is created and audio_destroy may come at any time; cb_xfr too,
\* until audio_destroy has freed it and returned (usb_audio.c:143-145, 185-189).
RingOutlivesPlayer ==
  /\ player # "idle" => ring
  /\ usb.pc # "idle" /\ main.pc # "returned" => ring

\* A transfer is left that brings audio.
Capturing == \E t \in Transfer : xfer[t] \in {"flight", "callback"}

\* A device that was paused for lack of audio plays again, whatever part of
\* audio_init failed, as long as SDL opened it and a transfer is left that the
\* errors have not taken out.
PlaysAgain ==
  paused /\ opened /\ main.pc = "running" ~> ~paused \/ main.pc # "running" \/ ~Capturing
-----------------------------------------------------------------------------
(* What a comment of main.c says, and the code does not do. *)

\* "exit, clean up" (main.c:329): audio_destroy frees the packets of no transfer
\* that libusb still has or that cb_xfr works on (usb_audio.c:174).
PacketsOutliveTransfers ==
  \A t \in Transfer : xfer[t] \in {"flight", "cancelled", "callback"} => frees[t] = 0
=============================================================================
