--------------------------- MODULE UsbAudioProofs ---------------------------
(* Memory and playback of usb_audio.c, for any number of transfers, packets *)
(* and errors, all sizes, and whatever part of audio_init failed.           *)
EXTENDS UsbAudio, TLAPS

\* The parts of TypeOK.
QueueOK ==
  /\ queue \in Seq({Byte})
  /\ Len(queue) <= max_size
  /\ pushRet \in -1 .. max_size
  /\ popRet \in -1 .. max_size
  /\ popData \in Seq({Byte})
  /\ obtained \in {0, ObtainedSize}

TransfersOK ==
  /\ xfer \in [Transfer -> {"none", "flight", "cancelled", "callback", "dead"}]
  /\ frees \in [Transfer -> Nat]
  /\ errors \in 0 .. MaxErrors

MainOK ==
  main \in [pc : DOMAIN NextCall \cup
                  {"open", "create", "capture", "running", "cancel", "release",
                   "close", "free", "returned", "crashed"},
            i : Transfer]

ThreadsOK ==
  /\ usb \in [pc : {"idle", "packet", "level", "high", "pause", "play", "submit"},
              packet : 0 .. NumPackets]
  /\ player \in {"idle", "ready", "playing"}

FlagsOK == ring \in BOOLEAN /\ paused \in BOOLEAN /\ opened \in BOOLEAN /\ released \in BOOLEAN

\* audio_init has not created the ring buffer, nor has it been freed.
NotYet == ~ring /\ main.pc # "returned"

\* Until the ring buffer is there, neither thread has had anything to do.
SetUpInv ==
  NotYet => /\ \A t \in Transfer : xfer[t] = "none"
            /\ usb.pc = "idle" /\ player = "idle" /\ paused
            /\ queue = <<>> /\ pushRet = 0 /\ popRet = 0

\* Where audio_init and audio_destroy are sure of the ring buffer and the device.
PlaceInv ==
  /\ main.pc \in DOMAIN NextCall \cup {"open", "create"} => ~ring
  /\ main.pc \in {"capture", "release", "close", "free"} => ring
  /\ main.pc = "free" \/ (main.pc = "returned" /\ ~ring) => ~opened
  /\ player # "idle" => opened

\* From the decision to play a paused device to the call, at most one callback
\* that was on its way takes bytes out.
PlayInv ==
  usb.pc = "play" /\ paused =>
    Len(queue) > max_size \div 3 - (IF player = "idle" THEN ObtainedSize ELSE 0)

AudioInv == TypeOK /\ SetUpInv /\ PlaceInv /\ PlayInv
-----------------------------------------------------------------------------
LEMMA TypeParts == TypeOK <=> QueueOK /\ TransfersOK /\ MainOK /\ ThreadsOK /\ FlagsOK
  BY DEF TypeOK, QueueOK, TransfersOK, MainOK, ThreadsOK, FlagsOK

\* What a packet adds, and what stays after a pop.
LEMMA FirstBytes ==
  ASSUME NEW s \in Seq({Byte}), NEW n \in 0 .. Len(s)
  PROVE  /\ SubSeq(s, 1, n) \in Seq({Byte})
         /\ Len(SubSeq(s, 1, n)) = n
  OBVIOUS

LEMMA LastBytes ==
  ASSUME NEW s \in Seq({Byte}), NEW n \in 0 .. Len(s)
  PROVE  /\ SubSeq(s, n + 1, Len(s)) \in Seq({Byte})
         /\ Len(SubSeq(s, n + 1, Len(s))) = Len(s) - n
  OBVIOUS

LEMMA BytesLen ==
  ASSUME NEW n \in Nat
  PROVE  Bytes(n) \in Seq({Byte}) /\ Len(Bytes(n)) = n
  BY DEF Bytes, Byte

LEMMA AudioInit == Init => AudioInv
<1> SUFFICES ASSUME Init PROVE AudioInv
  OBVIOUS
<1> USE AudioAssumption DEF Init, Idle
<1>1. QueueOK
  BY DEF QueueOK, Fifo!Init, max_size
<1>2. TransfersOK
  BY DEF TransfersOK
<1>3. MainOK
  <2>1. 1 \in Transfer
    BY DEF Transfer
  <2> QED
    BY <2>1 DEF MainOK, NextCall
<1>8. ThreadsOK
  BY DEF ThreadsOK
<1>9. FlagsOK
  BY DEF FlagsOK
<1>4. SetUpInv
  BY DEF SetUpInv, Fifo!Init
<1>5. PlaceInv
  BY DEF PlaceInv
<1>7. PlayInv
  BY DEF PlayInv
<1> QED
  BY <1>1, <1>2, <1>3, <1>4, <1>5, <1>7, <1>8, <1>9, TypeParts DEF AudioInv
-----------------------------------------------------------------------------
\* A push or a pop keeps the bytes within the buffer.
LEMMA PushKeeps == QueueOK /\ PushPacket => QueueOK'
<1> SUFFICES ASSUME QueueOK, PushPacket PROVE QueueOK'
  OBVIOUS
<1> USE AudioAssumption DEF QueueOK, PushPacket, max_size, sdlVars
<1>1. CASE Len(queue) = max_size
  BY <1>1
<1>2. CASE Len(queue) # max_size
  <2>1. PICK n \in PacketSizes : Fifo!Push(Bytes(n))
    BY <1>2
  <2>2. n \in Nat /\ Bytes(n) \in Seq({Byte}) /\ Len(Bytes(n)) = n
    BY BytesLen
  <2> DEFINE m == Fifo!Smaller(Len(Bytes(n)), 8 * ObtainedSize - Len(queue))
  <2>3. obtained = ObtainedSize
    BY <1>2
  <2>8. Len(queue) \in Nat /\ Len(queue) <= 8 * ObtainedSize
    BY <2>3
  <2>4. m \in 0 .. n /\ m + Len(queue) <= 8 * ObtainedSize
    BY <2>2, <2>8 DEF Fifo!Smaller
  <2>5. /\ SubSeq(Bytes(n), 1, m) \in Seq({Byte})
        /\ Len(SubSeq(Bytes(n), 1, m)) = m
    BY <2>2, <2>4, FirstBytes
  <2>6. /\ queue' = queue \o SubSeq(Bytes(n), 1, m)
        /\ pushRet' = m /\ popRet' = popRet /\ popData' = popData
    BY <2>1 DEF Fifo!Push
  <2> HIDE DEF m
  <2>7. queue' \in Seq({Byte}) /\ Len(queue') = Len(queue) + m
    BY <2>5, <2>6
  <2> QED
    BY <2>2, <2>3, <2>4, <2>6, <2>7
<1> QED
  BY <1>1, <1>2

LEMMA PopKeeps ==
  QueueOK /\ AudioCallback => QueueOK' /\ Len(queue') >= Len(queue) - ObtainedSize
<1> SUFFICES ASSUME QueueOK, AudioCallback
             PROVE  QueueOK' /\ Len(queue') >= Len(queue) - ObtainedSize
  OBVIOUS
<1> USE AudioAssumption DEF QueueOK, AudioCallback, max_size
<1>1. CASE queue = <<>>
  BY <1>1 DEF Fifo!PopEmpty
<1>2. CASE queue # <<>>
  <2> DEFINE n == Fifo!Smaller(ObtainedSize, Len(queue))
  <2>1. n \in 0 .. Len(queue) /\ n <= ObtainedSize
    BY DEF Fifo!Smaller
  <2>2. /\ queue' = SubSeq(queue, n + 1, Len(queue))
        /\ popData' = SubSeq(queue, 1, n)
        /\ popRet' = n /\ pushRet' = pushRet
    BY <1>2 DEF Fifo!Pop
  <2> HIDE DEF n
  <2>3. queue' \in Seq({Byte}) /\ Len(queue') = Len(queue) - n /\ popData' \in Seq({Byte})
    BY <2>1, <2>2, FirstBytes, LastBytes
  <2> QED
    BY <2>1, <2>2, <2>3
<1> QED
  BY <1>1, <1>2
-----------------------------------------------------------------------------
LEMMA QueueStep == QueueOK /\ MainOK /\ SetUpInv /\ PlaceInv /\ [Next]_vars => QueueOK'
<1> SUFFICES ASSUME QueueOK, MainOK, SetUpInv, PlaceInv, [Next]_vars PROVE QueueOK'
  OBVIOUS
<1>1. CASE PushPacket
  BY <1>1, PushKeeps
<1>2. CASE AudioCallback
  BY <1>2, PopKeeps
<1>3. CASE OpenAudio
  <2>1. queue = <<>> /\ pushRet = 0 /\ popRet = 0
    BY <1>3 DEF OpenAudio, SetUpInv, PlaceInv, NotYet
  <2> QED
    BY <1>3, <2>1, AudioAssumption DEF QueueOK, OpenAudio, fifoVars, max_size
<1>4. CASE UNCHANGED <<fifoVars, obtained>>
  BY <1>4 DEF QueueOK, fifoVars, max_size
<1>5. Usb => PushPacket \/ UNCHANGED <<fifoVars, obtained>>
  BY DEF Usb, LevelLow, LevelHigh, PauseAudio, Callback, Submit, sdlVars
<1>6. Player => AudioCallback \/ UNCHANGED <<fifoVars, obtained>>
  BY DEF Player, AudioReady, AudioLock
<1>7. Main => OpenAudio \/ UNCHANGED <<fifoVars, obtained>>
  BY DEF Main, Call, CreateRing, benchmark_in, Cancel, CancelNull,
         ReleaseInterface, CloseAudio, FreeRing, sdlVars
<1>8. Destroy \/ (\E t \in Transfer : BadPacket(t)) \/ UNCHANGED vars
        => UNCHANGED <<fifoVars, obtained>>
  BY DEF Destroy, BadPacket, vars, sdlVars
<1> QED
  BY <1>1, <1>2, <1>3, <1>4, <1>5, <1>6, <1>7, <1>8 DEF Next

LEMMA TransfersStep == TransfersOK /\ MainOK /\ [Next]_vars => TransfersOK'
<1> SUFFICES ASSUME TransfersOK, MainOK, [Next]_vars PROVE TransfersOK'
  OBVIOUS
<1> USE AudioAssumption DEF TransfersOK
<1>1. CASE benchmark_in
  BY <1>1 DEF benchmark_in, MainOK
<1>2. ASSUME NEW t \in Transfer, Callback(t) PROVE TransfersOK'
  BY <1>2 DEF Callback
<1>3. ASSUME NEW t \in Transfer, BadPacket(t) PROVE TransfersOK'
  BY <1>3 DEF BadPacket
<1>4. ASSUME NEW t \in Transfer, Submit(t) PROVE TransfersOK'
  BY <1>4 DEF Submit
<1>5. CASE Cancel
  BY <1>5 DEF Cancel, MainOK
<1>6. CASE UNCHANGED <<xfer, frees, errors>>
  BY <1>6
<1>7. PushPacket \/ LevelLow \/ LevelHigh \/ PauseAudio \/ Player \/ Destroy \/ UNCHANGED vars
        => UNCHANGED <<xfer, frees, errors>>
  BY DEF PushPacket, LevelLow, LevelHigh, PauseAudio, Player, AudioReady, AudioLock,
         AudioCallback, Destroy, vars
<1>8. Main => benchmark_in \/ Cancel \/ UNCHANGED <<xfer, frees, errors>>
  BY DEF Main, Call, OpenAudio, CreateRing, CancelNull, ReleaseInterface, CloseAudio, FreeRing
<1> QED
  BY <1>1, <1>2, <1>3, <1>4, <1>5, <1>6, <1>7, <1>8 DEF Next, Usb

LEMMA MainStep == MainOK /\ [Next]_vars => MainOK'
<1> SUFFICES ASSUME MainOK, [Next]_vars PROVE MainOK'
  OBVIOUS
<1> USE AudioAssumption DEF MainOK, Transfer
<1>1. CASE Call
  BY <1>1 DEF Call, NextCall
<1>2. CASE OpenAudio \/ CreateRing \/ benchmark_in
  BY <1>2 DEF OpenAudio, CreateRing, benchmark_in
<1>3. CASE Destroy \/ Cancel \/ CancelNull
  BY <1>3 DEF Destroy, Cancel, CancelNull
<1>4. CASE ReleaseInterface \/ CloseAudio \/ FreeRing
  BY <1>4 DEF ReleaseInterface, CloseAudio, FreeRing
<1>5. CASE main' = main
  BY <1>5
<1>6. Usb \/ Player \/ (\E t \in Transfer : BadPacket(t)) \/ UNCHANGED vars => main' = main
  BY DEF Usb, PushPacket, LevelLow, LevelHigh, PauseAudio, Callback, Submit, Player, AudioReady,
         AudioLock, AudioCallback, BadPacket, vars, mainVars
<1> QED
  BY <1>1, <1>2, <1>3, <1>4, <1>5, <1>6 DEF Next, Main

LEMMA ThreadsStep == ThreadsOK /\ [Next]_vars => ThreadsOK'
<1> SUFFICES ASSUME ThreadsOK, [Next]_vars PROVE ThreadsOK'
  OBVIOUS
<1> USE AudioAssumption DEF ThreadsOK, sdlVars
<1>1. CASE PushPacket \/ LevelLow \/ LevelHigh \/ PauseAudio
  BY <1>1 DEF PushPacket, LevelLow, LevelHigh, PauseAudio, NextPacket
<1>2. ASSUME NEW t \in Transfer, Callback(t) \/ Submit(t) \/ BadPacket(t) PROVE ThreadsOK'
  BY <1>2 DEF Callback, Submit, BadPacket, Idle
<1>3. CASE Player
  BY <1>3 DEF Player, AudioReady, AudioLock, AudioCallback
<1>4. CASE Destroy \/ Main \/ UNCHANGED vars
  BY <1>4 DEF Destroy, Main, Call, OpenAudio, CreateRing, benchmark_in, Cancel,
              CancelNull, ReleaseInterface, CloseAudio, FreeRing, vars
<1> QED
  BY <1>1, <1>2, <1>3, <1>4 DEF Next, Usb

LEMMA FlagsStep == FlagsOK /\ [Next]_vars => FlagsOK'
<1> SUFFICES ASSUME FlagsOK, [Next]_vars PROVE FlagsOK'
  OBVIOUS
<1> USE DEF FlagsOK, sdlVars, mainVars
<1>1. CASE Usb
  BY <1>1, Zenon DEF Usb, PushPacket, LevelLow, LevelHigh, PauseAudio, Callback, Submit
<1>2. CASE Player \/ Destroy \/ (\E t \in Transfer : BadPacket(t)) \/ UNCHANGED vars
  BY <1>2, Zenon DEF Player, AudioReady, AudioLock, AudioCallback, Destroy, BadPacket, vars
<1>3. CASE Main
  BY <1>3, Zenon
  DEF Main, Call, OpenAudio, CreateRing, benchmark_in, Cancel, CancelNull,
      ReleaseInterface, CloseAudio, FreeRing
<1> QED
  BY <1>1, <1>2, <1>3 DEF Next

\* TypeOK, with SetUpInv and PlaceInv for the size of the buffer.
LEMMA TypeStep == TypeOK /\ SetUpInv /\ PlaceInv /\ [Next]_vars => TypeOK'
  BY QueueStep, TransfersStep, MainStep, ThreadsStep, FlagsStep, TypeParts
  DEF QueueOK, TransfersOK, MainOK, ThreadsOK, FlagsOK, TypeOK, max_size
-----------------------------------------------------------------------------
\* The USB thread needs a transfer that was submitted, the audio thread a device
\* that plays: both come after the ring buffer.
LEMMA SetUpStep == TypeOK /\ SetUpInv /\ PlaceInv /\ [Next]_vars => SetUpInv'
<1> SUFFICES ASSUME TypeOK, SetUpInv, PlaceInv, [Next]_vars PROVE SetUpInv'
  OBVIOUS
<1> USE DEF SetUpInv, NotYet
<1>1. CASE Usb
  <2>1. ~NotYet
    BY <1>1 DEF Usb, PushPacket, LevelLow, LevelHigh, PauseAudio, Callback, Submit
  <2>2. UNCHANGED <<ring, main>>
    BY <1>1 DEF Usb, PushPacket, LevelLow, LevelHigh, PauseAudio, Callback, Submit, mainVars
  <2> QED
    BY <2>1, <2>2
<1>2. CASE \E t \in Transfer : BadPacket(t)
  BY <1>2 DEF BadPacket, mainVars
<1>3. CASE Player
  <2>1. ~NotYet
    BY <1>3 DEF Player, AudioReady, AudioLock, AudioCallback
  <2>2. UNCHANGED <<ring, main>>
    BY <1>3 DEF Player, AudioReady, AudioLock, AudioCallback, mainVars
  <2> QED
    BY <2>1, <2>2
<1>4. CASE Call \/ OpenAudio \/ CreateRing \/ Destroy
  BY <1>4 DEF Call, OpenAudio, CreateRing, Destroy, fifoVars, sdlVars, NextCall
<1>5. CASE benchmark_in
  BY <1>5 DEF benchmark_in, PlaceInv
<1>6. CASE Cancel
  <2>1. ring /\ ring' = ring
    BY <1>6 DEF Cancel, TypeOK
  <2> QED
    BY <2>1
<1>7. CASE CancelNull \/ ReleaseInterface \/ CloseAudio \/ FreeRing
  BY <1>7 DEF CancelNull, ReleaseInterface, CloseAudio, FreeRing, PlaceInv, TypeOK, fifoVars, sdlVars
<1>8. CASE UNCHANGED vars
  BY <1>8 DEF vars, fifoVars, mainVars, sdlVars
<1> QED
  BY <1>1, <1>2, <1>3, <1>4, <1>5, <1>6, <1>7, <1>8 DEF Next, Main

LEMMA PlaceStep == TypeOK /\ SetUpInv /\ PlaceInv /\ [Next]_vars => PlaceInv'
<1> SUFFICES ASSUME TypeOK, SetUpInv, PlaceInv, [Next]_vars PROVE PlaceInv'
  OBVIOUS
<1> USE DEF PlaceInv
<1>1. CASE Usb \/ (\E t \in Transfer : BadPacket(t))
  <2>1. UNCHANGED <<ring, main, opened, player>>
    BY <1>1 DEF Usb, PushPacket, LevelLow, LevelHigh, PauseAudio, Callback, Submit, BadPacket, mainVars, sdlVars
  <2> QED
    BY <2>1
<1>2. CASE Player
  <2>1. UNCHANGED <<ring, main, opened>> /\ (player' # "idle" => opened)
    BY <1>2 DEF Player, AudioReady, AudioLock, AudioCallback, mainVars
  <2> QED
    BY <2>1
<1>3. CASE Call
  BY <1>3 DEF Call, NextCall, sdlVars, TypeOK
<1>4. CASE OpenAudio \/ CreateRing \/ benchmark_in
  BY <1>4 DEF OpenAudio, CreateRing, benchmark_in, sdlVars, TypeOK, NextCall, SetUpInv, NotYet
<1>5. CASE Cancel
  <2>1. ring
    BY <1>5 DEF Cancel, SetUpInv, NotYet, TypeOK
  <2> QED
    BY <1>5, <2>1 DEF Cancel, sdlVars, TypeOK, NextCall
<1>6. CASE CancelNull \/ Destroy \/ ReleaseInterface
  BY <1>6 DEF CancelNull, Destroy, ReleaseInterface, sdlVars, TypeOK, NextCall
<1>7. CASE CloseAudio \/ FreeRing
  BY <1>7 DEF CloseAudio, FreeRing, sdlVars, TypeOK, NextCall
<1>8. CASE UNCHANGED vars
  BY <1>8 DEF vars, mainVars, sdlVars
<1> QED
  BY <1>1, <1>2, <1>3, <1>4, <1>5, <1>6, <1>7, <1>8 DEF Next, Main

\* A device that is paused gets no second callback.
LEMMA PlayStep == TypeOK /\ SetUpInv /\ PlaceInv /\ PlayInv /\ [Next]_vars => PlayInv'
<1> SUFFICES ASSUME TypeOK, SetUpInv, PlaceInv, PlayInv, [Next]_vars PROVE PlayInv'
  OBVIOUS
<1> USE AudioAssumption DEF PlayInv
<1>0. Len(queue) \in Nat /\ max_size \in Nat /\ max_size \div 3 \in Nat
  BY DEF TypeOK, max_size
<1>1. CASE LevelLow \/ LevelHigh
  <2>1. usb'.pc = "play" => Len(queue) > max_size \div 3
    BY <1>1 DEF LevelLow, LevelHigh, NextPacket, TypeOK
  <2>2. UNCHANGED <<queue, player, paused, max_size>>
    BY <1>1 DEF LevelLow, LevelHigh, fifoVars, sdlVars, max_size
  <2> QED
    BY <1>0, <2>1, <2>2
<1>2. ASSUME usb'.pc # "play" PROVE PlayInv'
  BY <1>2
<1>3. CASE PushPacket \/ PauseAudio
  <2>1. usb' = [usb EXCEPT !.pc = "level"] \/ usb' = NextPacket
    BY <1>3 DEF PushPacket, PauseAudio
  <2> QED
    BY <1>2, <2>1 DEF NextPacket, TypeOK
<1>4. ASSUME NEW t \in Transfer, Callback(t) \/ Submit(t) \/ BadPacket(t) PROVE PlayInv'
  BY <1>2, <1>4 DEF Callback, Submit, BadPacket, Idle
<1>5. CASE AudioReady
  BY <1>5 DEF AudioReady
<1>6. CASE AudioLock
  <2>1. UNCHANGED <<queue, usb, paused, max_size>> /\ player = "ready" /\ player' = "playing"
    BY <1>6 DEF AudioLock, fifoVars, max_size
  <2> QED
    BY <2>1
<1>7. CASE AudioCallback
  <2>1. Len(queue') >= Len(queue) - ObtainedSize /\ Len(queue') \in Nat
    BY <1>7, PopKeeps, TypeParts DEF QueueOK
  <2>2. UNCHANGED <<usb, paused, max_size>> /\ player = "playing" /\ player' = "idle"
    BY <1>7 DEF AudioCallback, max_size
  <2> QED
    BY <1>0, <2>1, <2>2
<1>8. CASE OpenAudio
  <2>1. usb.pc = "idle"
    BY <1>8 DEF OpenAudio, SetUpInv, PlaceInv, NotYet
  <2> QED
    BY <1>2, <1>8, <2>1 DEF OpenAudio
<1>9. CASE UNCHANGED <<queue, usb, paused, player, max_size>>
  BY <1>9
<1>10. Main \/ Destroy \/ UNCHANGED vars => OpenAudio \/ UNCHANGED <<queue, usb, paused, player, max_size>>
  BY DEF Main, Destroy, Call, CreateRing, benchmark_in, Cancel, CancelNull,
         ReleaseInterface, CloseAudio, FreeRing, sdlVars, fifoVars, max_size, vars
<1> QED
  BY <1>1, <1>3, <1>4, <1>5, <1>6, <1>7, <1>8, <1>9, <1>10 DEF Next, Usb, Player

LEMMA AudioStep == AudioInv /\ [Next]_vars => AudioInv'
  BY TypeStep, SetUpStep, PlaceStep, PlayStep DEF AudioInv

\* AudioInv holds in every state audio_init, audio_destroy and the two threads
\* reach.
LEMMA AudioHolds == Spec => []AudioInv
  BY AudioInit, AudioStep, PTL DEF Spec
-----------------------------------------------------------------------------
\* The queue never holds more than eight callbacks' bytes, and all places and
\* results are what the code expects.
THEOREM AudioTyped == Spec => []TypeOK
  BY AudioHolds, PTL DEF AudioInv

\* The audio thread only runs while the ring buffer is there, and cb_xfr until
\* audio_destroy has freed it and returned (RingOutlivesPlayer).
THEOREM RingIsThere == Spec => []RingOutlivesPlayer
<1>1. AudioInv => RingOutlivesPlayer
  <2> SUFFICES ASSUME AudioInv PROVE RingOutlivesPlayer
    OBVIOUS
  <2>1. player # "idle" => ring
    BY DEF AudioInv, SetUpInv, PlaceInv, NotYet
  <2>2. usb.pc # "idle" /\ main.pc # "returned" => ring
    BY DEF AudioInv, SetUpInv, NotYet
  <2> QED
    BY <2>1, <2>2 DEF RingOutlivesPlayer
<1> QED
  BY <1>1, AudioHolds, PTL

\* A device that was paused plays with a third of the buffer, less one callback
\* (StartsFilled).
THEOREM PlaysFilled == Spec => StartsFilled
<1>1. AudioInv /\ [Next]_vars =>
        [paused /\ ~paused' => Len(queue) > max_size \div 3 - ObtainedSize]_vars
  <2> SUFFICES ASSUME AudioInv, [Next]_vars, paused, ~paused'
               PROVE  Len(queue) > max_size \div 3 - ObtainedSize
    OBVIOUS
  <2>1. PauseAudio
    BY DEF Next, Usb, Player, Main, PushPacket, LevelLow, LevelHigh, Callback, Submit, BadPacket,
           AudioReady, AudioLock, AudioCallback, Destroy, Call, OpenAudio, CreateRing,
           benchmark_in, Cancel, CancelNull, ReleaseInterface, CloseAudio, FreeRing,
           sdlVars, vars
  <2>2. usb.pc = "play"
    BY <2>1 DEF PauseAudio
  <2>3. Len(queue) \in Nat /\ max_size \div 3 \in Nat
    BY AudioAssumption DEF AudioInv, TypeOK, max_size
  <2> QED
    BY <2>2, <2>3, AudioAssumption DEF AudioInv, PlayInv
<1> QED
  BY <1>1, AudioHolds, PTL DEF Spec, StartsFilled
=============================================================================
