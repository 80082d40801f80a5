-------------------------- MODULE LifecycleProofs ---------------------------
(***************************************************************************)
(* What main() has set up at each of its places, for all values of the     *)
(* configuration, all faults and any number of times the M8 is unplugged:  *)
(* first with a write as two steps, then with the wait of bulk_transfer in *)
(* detail, which is shown to be those two steps.                           *)
(***************************************************************************)
EXTENDS BulkTransfer, TLAPS

\* An open device has its one USB thread, but for one that init_interface or
\* SDL_CreateThread failed on.
ThreadInv ==
  /\ calls.thread <= 1
  /\ ~devh => calls.thread = 0
  /\ usb_thread = "none" <=> calls.thread = 0
  /\ devh /\ usb_thread = "none" => faulted
  /\ submitted => devh

\* The thread only ends when it is told to, in disconnect; and it is told to
\* before it is waited for.
ExitInv ==
  /\ usb_thread = "ended" => faulted \/ do_exit
  /\ pc \in {"close", "join"} => usb_thread # "none"
  /\ pc = "join" => do_exit
  /\ do_exit => /\ pc \in {"join", "free", "quit", "exit"}
                /\ pc = "join" \/ usb_thread = "ended"

\* The M8 took an E on the way to these places.
Enabled ==
  \/ pc \in {"R1", "audio1", "R2", "run1", "read1", "R3", "run2", "read2", "C"}
  \/ pc \in {"wait", "loop"} /\ run = "RUN"

EnabledInv == Enabled => devh /\ usb_thread # "none" /\ (gone \/ display)

\* Neither audio nor the read is started twice: places before a start are not
\* reached again, since run is not "WAIT" after it.
NoReadYet ==
  \/ pc \in {"early", "sdl", "begin", "E1", "R1", "audio1", "R2", "run1", "read1",
             "absent", "audio2", "E2", "R3", "run2", "read2", "lost"}
  \/ pc = "wait" /\ run = "WAIT"

NoAudioYet ==
  \/ pc \in {"early", "sdl", "begin", "E1", "R1", "audio1", "absent", "audio2"}
  \/ pc = "wait" /\ run = "WAIT"

CallsInv ==
  /\ calls.read <= 1 /\ calls.audio <= 1
  /\ NoReadYet => calls.read = 0
  /\ NoAudioYet => calls.audio = 0
  /\ pc \in {"read1", "read2", "C", "loop"} => run # "WAIT"
  /\ pc = "C" \/ (pc \in {"wait", "loop"} /\ run = "RUN") => calls.read = 1

\* Before the clean up main() only writes to an open handle.
HandleInv == pc \in (Writes \ {"D"}) \cup {"audio2"} => devh

\* The parts of TypeOK.
FlagsOK ==
  /\ wait_for_device \in BOOLEAN /\ submitted \in BOOLEAN
  /\ port_inited \in BOOLEAN /\ devh \in BOOLEAN
  /\ do_exit \in BOOLEAN /\ faulted \in BOOLEAN
  /\ audio \in BOOLEAN /\ attached \in BOOLEAN
  /\ gone \in BOOLEAN /\ display \in BOOLEAN

PlacesOK ==
  /\ pc \in Writes \cup {"early", "sdl", "begin", "audio1", "run1", "read1",
                        "absent", "wait", "audio2", "run2", "read2", "lost",
                        "loop", "cleanup", "close", "join", "free", "quit",
                        "exit", "crashed"}
  /\ submitted => pc \in Writes
  /\ run \in {"QUIT", "WAIT", "RUN"}
  /\ usb_thread \in {"none", "running", "ended"}
  /\ reading \in {"none", "pending", "dead"}

CountsOK ==
  /\ zerobyte_packets \in 0 .. WaitPackets
  /\ calls \in [thread : Nat, read : Nat, audio : Nat]
  /\ unplugs \in 0 .. MaxUnplugs

LifeInv == TypeOK /\ ThreadInv /\ ExitInv /\ EnabledInv /\ CallsInv /\ HandleInv
-----------------------------------------------------------------------------
LEMMA TypeParts == TypeOK <=> FlagsOK /\ PlacesOK /\ CountsOK
  BY DEF TypeOK, FlagsOK, PlacesOK, CountsOK

LEMMA LifeInit == Init => LifeInv
<1> SUFFICES ASSUME Init PROVE LifeInv
  OBVIOUS
<1> USE LifecycleAssumption DEF Init
<1>1. FlagsOK
  BY DEF FlagsOK
<1>2. PlacesOK
  BY DEF PlacesOK
<1>3. CountsOK
  BY DEF CountsOK
<1>4. ThreadInv
  BY DEF ThreadInv
<1>5. ExitInv
  BY DEF ExitInv
<1>6. EnabledInv
  BY DEF EnabledInv, Enabled
<1>7. CallsInv
  BY DEF CallsInv, NoReadYet, NoAudioYet
<1>8. HandleInv
  BY DEF HandleInv, Writes
<1> QED
  BY <1>1, <1>2, <1>3, <1>4, <1>5, <1>6, <1>7, <1>8, TypeParts DEF LifeInv

LEMMA FlagsStep == FlagsOK /\ [Next]_vars => FlagsOK'
<1> SUFFICES ASSUME FlagsOK, [Next]_vars PROVE FlagsOK'
  OBVIOUS
<1> USE LifecycleAssumption
    DEF FlagsOK, Goto, mainVars, usbVars, envVars
<1>1. CASE Submit \/ Complete
  BY Zenon, <1>1 DEF Submit, Complete
<1>2. CASE Early \/ InitPort
  BY Zenon, <1>2
  DEF Early, InitPort, init_serial_success, init_serial_open, init_serial_new,
      init_serial_failure
<1>3. CASE InitializeSdl \/ AudioInit \/ SetRun
  BY Zenon, <1>3 DEF InitializeSdl, AudioInit, SetRun
<1>4. CASE AsyncRead \/ Absent
  BY Zenon, <1>4 DEF AsyncRead, Absent
<1>5. CASE Lost \/ WaitDone \/ LoopDone
  BY Zenon, <1>5 DEF Lost, WaitDone, LoopDone
<1>6. CASE Cleanup \/ Close
  BY Zenon, <1>6 DEF Cleanup, Close
<1>7. CASE Join \/ FreeBuffer
  BY Zenon, <1>7 DEF Join, FreeBuffer
<1>8. CASE PollFound
  BY Zenon, <1>8
  DEF PollFound, Polling, init_serial_success, init_serial_open, init_serial_new,
      init_serial_failure
<1>9. CASE PollFailed
  BY Zenon, <1>9
  DEF PollFailed, Polling, init_serial_success, init_serial_open,
      init_serial_new, init_serial_failure
<1>10. CASE CallbackZero \/ CallbackData
  BY Zenon, <1>10 DEF CallbackZero, CallbackData, Reading
<1>11. CASE CallbackError \/ UsbLoopEnds
  BY Zenon, <1>11 DEF CallbackError, UsbLoopEnds, Reading
<1>12. CASE WaitQuit \/ LoopInput
  BY Zenon, <1>12 DEF WaitQuit, LoopInput
<1>13. CASE Signal \/ Unplug \/ Plug
  BY Zenon, <1>13 DEF Signal, Unplug, Plug
<1>14. CASE UNCHANGED vars
  BY Zenon, <1>14 DEF vars
<1> QED
  BY <1>1, <1>2, <1>3, <1>4, <1>5, <1>6, <1>7, <1>8, <1>9, <1>10, <1>11, <1>12,
      <1>13, <1>14
  DEF Next, MainStep, UsbThread, User

LEMMA PlacesStep == PlacesOK /\ [Next]_vars => PlacesOK'
<1> SUFFICES ASSUME PlacesOK, [Next]_vars PROVE PlacesOK'
  OBVIOUS
<1> USE LifecycleAssumption
    DEF PlacesOK, Goto, mainVars, usbVars, envVars, Writes
<1>1. CASE Submit
  BY <1>1 DEF Submit, Failure
<1>2. CASE Complete
  BY <1>2 DEF Complete, Success, Failure
<1>3. CASE Early \/ InitPort
  BY <1>3
  DEF Early, InitPort, init_serial_success, init_serial_open, init_serial_new,
      init_serial_failure
<1>4. CASE InitializeSdl \/ AudioInit \/ SetRun \/ AsyncRead \/ Absent
  BY <1>4 DEF InitializeSdl, AudioInit, SetRun, AsyncRead, Absent
<1>5. CASE Lost \/ WaitDone \/ LoopDone
  BY <1>5 DEF Lost, WaitDone, LoopDone
<1>6. CASE Cleanup \/ Close \/ Join \/ FreeBuffer
  BY <1>6 DEF Cleanup, Close, Join, FreeBuffer
<1>7. CASE PollFound \/ PollFailed
  BY <1>7
  DEF PollFound, PollFailed, Polling, init_serial_success, init_serial_open,
      init_serial_new, init_serial_failure
<1>8. CASE CallbackZero \/ CallbackData \/ CallbackError \/ UsbLoopEnds
  BY <1>8 DEF CallbackZero, CallbackData, CallbackError, UsbLoopEnds, Reading
<1>9. CASE WaitQuit \/ LoopInput \/ Signal \/ Unplug \/ Plug
  BY <1>9 DEF WaitQuit, LoopInput, Signal, Unplug, Plug
<1>10. CASE UNCHANGED vars
  BY <1>10 DEF vars
<1> QED
  BY <1>1, <1>2, <1>3, <1>4, <1>5, <1>6, <1>7, <1>8, <1>9, <1>10
  DEF Next, MainStep, UsbThread, User

LEMMA CountsStep == CountsOK /\ [Next]_vars => CountsOK'
<1> SUFFICES ASSUME CountsOK, [Next]_vars PROVE CountsOK'
  OBVIOUS
<1> USE LifecycleAssumption
    DEF CountsOK, Goto, mainVars, usbVars, envVars
<1>1. CASE Submit
  BY <1>1 DEF Submit
<1>2. CASE Complete
  BY <1>2 DEF Complete
<1>3. CASE Early \/ InitPort
  BY <1>3
  DEF Early, InitPort, init_serial_success, init_serial_open, init_serial_new,
      init_serial_failure
<1>4. CASE InitializeSdl \/ AudioInit \/ SetRun \/ AsyncRead \/ Absent
  BY <1>4 DEF InitializeSdl, AudioInit, SetRun, AsyncRead, Absent
<1>5. CASE Lost \/ WaitDone \/ LoopDone
  BY <1>5 DEF Lost, WaitDone, LoopDone
<1>6. CASE Cleanup \/ Close \/ Join \/ FreeBuffer
  BY <1>6 DEF Cleanup, Close, Join, FreeBuffer
<1>7. CASE PollFound \/ PollFailed
  BY <1>7
  DEF PollFound, PollFailed, Polling, init_serial_success, init_serial_open,
      init_serial_new, init_serial_failure
<1>8. CASE CallbackZero \/ CallbackData \/ CallbackError \/ UsbLoopEnds
  BY <1>8 DEF CallbackZero, CallbackData, CallbackError, UsbLoopEnds, Reading
<1>9. CASE WaitQuit \/ LoopInput \/ Signal \/ Unplug \/ Plug
  BY <1>9 DEF WaitQuit, LoopInput, Signal, Unplug, Plug
<1>10. CASE UNCHANGED vars
  BY <1>10 DEF vars
<1> QED
  BY <1>1, <1>2, <1>3, <1>4, <1>5, <1>6, <1>7, <1>8, <1>9, <1>10
  DEF Next, MainStep, UsbThread, User

LEMMA ThreadStep == LifeInv /\ [Next]_vars => ThreadInv'
<1> SUFFICES ASSUME PlacesOK, CountsOK, ThreadInv, [Next]_vars PROVE ThreadInv'
  BY TypeParts DEF LifeInv
<1> USE LifecycleAssumption
    DEF PlacesOK, CountsOK, ThreadInv,
        Goto, mainVars, usbVars, envVars
<1>1. CASE Submit
  BY <1>1 DEF Submit
<1>2. CASE Complete
  BY <1>2 DEF Complete
<1>3. CASE Early \/ InitPort
  BY <1>3
  DEF Early, InitPort, init_serial_success, init_serial_open, init_serial_new,
      init_serial_failure
<1>4. CASE InitializeSdl \/ AudioInit \/ SetRun \/ AsyncRead \/ Absent
  BY <1>4 DEF InitializeSdl, AudioInit, SetRun, AsyncRead, Absent
<1>5. CASE Lost \/ WaitDone \/ LoopDone
  BY <1>5 DEF Lost, WaitDone, LoopDone
<1>6. CASE Cleanup \/ Close \/ Join \/ FreeBuffer
  BY <1>6 DEF Cleanup, Close, Join, FreeBuffer
<1>7. CASE PollFound \/ PollFailed
  BY <1>7
  DEF PollFound, PollFailed, Polling, init_serial_success, init_serial_open,
      init_serial_new, init_serial_failure
<1>8. CASE CallbackZero \/ CallbackData \/ CallbackError \/ UsbLoopEnds
  BY <1>8 DEF CallbackZero, CallbackData, CallbackError, UsbLoopEnds, Reading
<1>9. CASE WaitQuit \/ LoopInput \/ Signal \/ Unplug \/ Plug
  BY <1>9 DEF WaitQuit, LoopInput, Signal, Unplug, Plug
<1>10. CASE UNCHANGED vars
  BY <1>10 DEF vars
<1> QED
  BY <1>1, <1>2, <1>3, <1>4, <1>5, <1>6, <1>7, <1>8, <1>9, <1>10
  DEF Next, MainStep, UsbThread, User

LEMMA ExitStep == LifeInv /\ [Next]_vars => ExitInv'
<1> SUFFICES ASSUME PlacesOK, ExitInv, [Next]_vars PROVE ExitInv'
  BY TypeParts DEF LifeInv
<1> USE LifecycleAssumption
    DEF PlacesOK, ExitInv,
        Goto, mainVars, usbVars, envVars, Writes
<1>1. CASE Submit
  BY <1>1 DEF Submit, Failure
<1>2. CASE Complete
  BY <1>2 DEF Complete, Success, Failure
<1>3. CASE Early \/ InitPort
  BY <1>3
  DEF Early, InitPort, init_serial_success, init_serial_open, init_serial_new,
      init_serial_failure
<1>4. CASE InitializeSdl \/ AudioInit \/ SetRun \/ AsyncRead \/ Absent
  BY <1>4 DEF InitializeSdl, AudioInit, SetRun, AsyncRead, Absent
<1>5. CASE Lost \/ WaitDone \/ LoopDone
  BY <1>5 DEF Lost, WaitDone, LoopDone
<1>6. CASE Cleanup \/ Close \/ Join \/ FreeBuffer
  BY <1>6 DEF Cleanup, Close, Join, FreeBuffer
<1>7. CASE PollFound \/ PollFailed
  BY <1>7
  DEF PollFound, PollFailed, Polling, init_serial_success, init_serial_open,
      init_serial_new, init_serial_failure
<1>8. CASE CallbackZero \/ CallbackData \/ CallbackError
  BY <1>8 DEF CallbackZero, CallbackData, CallbackError, Reading
<1>11. CASE UsbLoopEnds
  <2>1. faulted' \/ do_exit'
    BY <1>11, Zenon DEF UsbLoopEnds
  <2>2. UNCHANGED <<pc, do_exit>> /\ usb_thread' = "ended"
    BY <1>11 DEF UsbLoopEnds
  <2> QED  BY <2>1, <2>2
<1>9. CASE WaitQuit \/ LoopInput \/ Signal \/ Unplug \/ Plug
  BY <1>9 DEF WaitQuit, LoopInput, Signal, Unplug, Plug
<1>10. CASE UNCHANGED vars
  BY <1>10 DEF vars
<1> QED
  BY <1>1, <1>2, <1>3, <1>4, <1>5, <1>6, <1>7, <1>8, <1>9, <1>10, <1>11
  DEF Next, MainStep, UsbThread, User

LEMMA EnabledStep == LifeInv /\ [Next]_vars => EnabledInv'
<1> SUFFICES ASSUME PlacesOK, ThreadInv, EnabledInv, [Next]_vars PROVE EnabledInv'
  BY TypeParts DEF LifeInv
<1> USE LifecycleAssumption
    DEF PlacesOK, ThreadInv, EnabledInv,
        Goto, mainVars, usbVars, envVars, Enabled, Writes
<1>1. CASE Submit
  BY <1>1 DEF Submit, Failure
<1>2. CASE Complete
  <2>1. /\ devh' /\ usb_thread' = "running" /\ pc \in Writes
        /\ UNCHANGED <<run, gone>>
    BY <1>2 DEF Complete
  <2>2. CASE pc' = Success(pc) /\ pc \in {"E1", "E2"}
    <3>1. pc # Failure(pc) /\ pc' # Failure(pc)
      BY <2>2 DEF Success, Failure
    <3>2. pc # "D"
      BY <2>2
    <3>3. display'
      BY <1>2, <2>2, <3>1, <3>2, Zenon DEF Complete
    <3> QED  BY <2>1, <3>3
  <2>3. CASE pc \notin {"E1", "E2", "D"}
    <3>1. pc # "D" /\ pc \in {"R1", "R2", "R3", "C"}
      BY <2>1, <2>3
    <3>2. display => display'
      BY <1>2, <3>1, Zenon DEF Complete
    <3>3. Enabled
      BY <3>1
    <3>4. gone \/ display
      BY <3>3
    <3> QED  BY <2>1, <3>2, <3>4
  <2>4. CASE pc = "D" \/ (pc' = Failure(pc) /\ pc \in {"E1", "E2"})
    BY <1>2, <2>1, <2>4 DEF Complete, Success, Failure
  <2> QED  BY <1>2, <2>2, <2>3, <2>4 DEF Complete
<1>3. CASE Early \/ InitPort
  BY <1>3
  DEF Early, InitPort, init_serial_success, init_serial_open, init_serial_new,
      init_serial_failure
<1>4. CASE InitializeSdl \/ AudioInit \/ SetRun \/ AsyncRead \/ Absent
  BY <1>4 DEF InitializeSdl, AudioInit, SetRun, AsyncRead, Absent
<1>5. CASE Lost \/ WaitDone \/ LoopDone
  BY <1>5 DEF Lost, WaitDone, LoopDone
<1>6. CASE Cleanup \/ Close \/ Join \/ FreeBuffer
  BY <1>6 DEF Cleanup, Close, Join, FreeBuffer
<1>7. CASE PollFound \/ PollFailed
  BY <1>7
  DEF PollFound, PollFailed, Polling, init_serial_success, init_serial_open,
      init_serial_new, init_serial_failure
<1>8. CASE CallbackZero \/ CallbackData \/ CallbackError \/ UsbLoopEnds
  BY <1>8 DEF CallbackZero, CallbackData, CallbackError, UsbLoopEnds, Reading
<1>9. CASE WaitQuit \/ LoopInput \/ Signal \/ Unplug \/ Plug
  BY <1>9 DEF WaitQuit, LoopInput, Signal, Unplug, Plug
<1>10. CASE UNCHANGED vars
  BY <1>10 DEF vars
<1> QED
  BY <1>1, <1>2, <1>3, <1>4, <1>5, <1>6, <1>7, <1>8, <1>9, <1>10
  DEF Next, MainStep, UsbThread, User

LEMMA CallsStep == LifeInv /\ [Next]_vars => CallsInv'
<1> SUFFICES ASSUME PlacesOK, CountsOK, CallsInv, [Next]_vars PROVE CallsInv'
  BY TypeParts DEF LifeInv
<1> USE LifecycleAssumption
    DEF PlacesOK, CountsOK, CallsInv,
        Goto, mainVars, usbVars, envVars, NoReadYet, NoAudioYet, Writes
<1>1. CASE Submit
  BY <1>1 DEF Submit, Failure
<1>2. CASE Complete
  BY <1>2 DEF Complete, Success, Failure
<1>3. CASE Early \/ InitPort
  BY <1>3
  DEF Early, InitPort, init_serial_success, init_serial_open, init_serial_new,
      init_serial_failure
<1>4. CASE InitializeSdl \/ AudioInit \/ SetRun \/ AsyncRead \/ Absent
  BY <1>4 DEF InitializeSdl, AudioInit, SetRun, AsyncRead, Absent
<1>5. CASE Lost \/ WaitDone \/ LoopDone
  BY <1>5 DEF Lost, WaitDone, LoopDone
<1>6. CASE Cleanup \/ Close \/ Join \/ FreeBuffer
  BY <1>6 DEF Cleanup, Close, Join, FreeBuffer
<1>7. CASE PollFound \/ PollFailed
  BY <1>7
  DEF PollFound, PollFailed, Polling, init_serial_success, init_serial_open,
      init_serial_new, init_serial_failure
<1>8. CASE CallbackZero \/ CallbackData \/ CallbackError \/ UsbLoopEnds
  BY <1>8 DEF CallbackZero, CallbackData, CallbackError, UsbLoopEnds, Reading
<1>9. CASE WaitQuit \/ LoopInput \/ Signal \/ Unplug \/ Plug
  BY <1>9 DEF WaitQuit, LoopInput, Signal, Unplug, Plug
<1>10. CASE UNCHANGED vars
  BY <1>10 DEF vars
<1> QED
  BY <1>1, <1>2, <1>3, <1>4, <1>5, <1>6, <1>7, <1>8, <1>9, <1>10
  DEF Next, MainStep, UsbThread, User

LEMMA HandleStep == LifeInv /\ [Next]_vars => HandleInv'
<1> SUFFICES ASSUME PlacesOK, CountsOK, ThreadInv, EnabledInv, CallsInv, HandleInv, [Next]_vars PROVE HandleInv'
  BY TypeParts DEF LifeInv
<1> USE LifecycleAssumption
    DEF PlacesOK, CountsOK, ThreadInv, EnabledInv, Enabled, CallsInv, HandleInv,
        Goto, mainVars, usbVars, envVars, NoReadYet, NoAudioYet, Writes
<1>1. CASE Submit
  BY <1>1 DEF Submit, Failure
<1>2. CASE Complete
  BY <1>2 DEF Complete, Success, Failure
<1>3. CASE Early \/ InitPort
  BY <1>3
  DEF Early, InitPort, init_serial_success, init_serial_open, init_serial_new,
      init_serial_failure
<1>4. CASE InitializeSdl \/ AudioInit \/ SetRun \/ AsyncRead \/ Absent
  BY <1>4 DEF InitializeSdl, AudioInit, SetRun, AsyncRead, Absent
<1>5. CASE Lost \/ WaitDone \/ LoopDone
  BY <1>5 DEF Lost, WaitDone, LoopDone
<1>6. CASE Cleanup \/ Close \/ Join \/ FreeBuffer
  BY <1>6 DEF Cleanup, Close, Join, FreeBuffer
<1>7. CASE PollFound \/ PollFailed
  BY <1>7
  DEF PollFound, PollFailed, Polling, init_serial_success, init_serial_open,
      init_serial_new, init_serial_failure
<1>8. CASE CallbackZero \/ CallbackData \/ CallbackError \/ UsbLoopEnds
  BY <1>8 DEF CallbackZero, CallbackData, CallbackError, UsbLoopEnds, Reading
<1>9. CASE WaitQuit \/ LoopInput \/ Signal \/ Unplug \/ Plug
  BY <1>9 DEF WaitQuit, LoopInput, Signal, Unplug, Plug
<1>10. CASE UNCHANGED vars
  BY <1>10 DEF vars
<1> QED
  BY <1>1, <1>2, <1>3, <1>4, <1>5, <1>6, <1>7, <1>8, <1>9, <1>10
  DEF Next, MainStep, UsbThread, User

-----------------------------------------------------------------------------
LEMMA LifeStep == LifeInv /\ [Next]_vars => LifeInv'
<1> SUFFICES ASSUME LifeInv, [Next]_vars PROVE LifeInv'
  OBVIOUS
<1>1. FlagsOK' /\ PlacesOK' /\ CountsOK'
  BY FlagsStep, PlacesStep, CountsStep, TypeParts DEF LifeInv
<1>2. TypeOK'
  BY <1>1 DEF TypeOK, FlagsOK, PlacesOK, CountsOK
<1> QED
  BY <1>2, ThreadStep, ExitStep, EnabledStep, CallsStep, HandleStep DEF LifeInv

LEMMA LifeAlways == Spec => []LifeInv
  BY LifeInit, LifeStep, PTL DEF Spec

LEMMA LifeShows ==
  LifeInv => TypeOK /\ LoopReady /\ StartedOnce /\ WriteIsServed
<1> SUFFICES ASSUME LifeInv
             PROVE  TypeOK /\ LoopReady /\ StartedOnce /\ WriteIsServed
  OBVIOUS
<1>1. TypeOK /\ LoopReady
  BY DEF LifeInv, EnabledInv, Enabled, CallsInv, LoopReady
<1>2. StartedOnce
  BY DEF LifeInv, ThreadInv, CallsInv, StartedOnce
<1>3. WriteIsServed
  <2> SUFFICES ASSUME submitted, ~faulted PROVE usb_thread = "running"
    BY DEF WriteIsServed
  <2>1. pc \in Writes
    BY TypeParts DEF LifeInv, PlacesOK
  <2>2. ~do_exit
    BY <2>1 DEF LifeInv, ExitInv, Writes
  <2>3. usb_thread # "none" /\ usb_thread # "ended"
    BY <2>2 DEF LifeInv, ThreadInv, ExitInv
  <2> QED  BY <2>3, TypeParts DEF LifeInv, PlacesOK
<1> QED  BY <1>1, <1>2, <1>3

\* The places of main() and of its threads, and the counters, stay in their types.
THEOREM LifeTyped == Spec => []TypeOK
  BY LifeShows, LifeAlways, PTL

\* For any configuration, fault and unplugging: the main loop serves an M8 that
\* was enabled, with a USB thread and one read.
THEOREM LoopIsReady == Spec => []LoopReady
  BY LifeShows, LifeAlways, PTL

\* However often main() polls, it starts nothing twice.
THEOREM NothingTwice == Spec => []StartedOnce
  BY LifeShows, LifeAlways, PTL

\* A write has a thread to complete it, unless init_interface, SDL_CreateThread or
\* libusb_handle_events failed before it.
THEOREM WritesAreServed == Spec => []WriteIsServed
  BY LifeShows, LifeAlways, PTL

\* Only the last write of disconnect, and audio_destroy, can crash the program.
LEMMA CrashStep ==
  ASSUME LifeInv, [Next]_vars, pc' = "crashed"
  PROVE  pc \in {"cleanup", "D", "crashed"}
<1> USE DEF LifeInv, Goto, mainVars
<1>1. CASE Submit
  BY <1>1, LifecycleAssumption DEF Submit, HandleInv, Failure, Writes
<1>2. CASE Complete
  BY <1>2, TypeParts DEF Complete, PlacesOK, Success, Failure, Writes
<1>3. CASE Early \/ InitPort \/ InitializeSdl \/ AudioInit \/ SetRun \/ AsyncRead \/ Absent
  BY <1>3 DEF Early, InitPort, InitializeSdl, AudioInit, SetRun, AsyncRead, Absent
<1>4. CASE Lost \/ WaitDone \/ LoopDone \/ Cleanup \/ Close \/ Join \/ FreeBuffer
  BY <1>4 DEF Lost, WaitDone, LoopDone, Cleanup, Close, Join, FreeBuffer
<1>5. CASE PollFound \/ PollFailed \/ UsbThread \/ User \/ UNCHANGED vars
  BY <1>5
  DEF PollFound, PollFailed, UsbThread, CallbackZero, CallbackData, CallbackError,
      UsbLoopEnds, User, WaitQuit, LoopInput, Signal, Unplug, Plug, vars
<1> QED
  BY <1>1, <1>2, <1>3, <1>4, <1>5 DEF Next, MainStep

\* For any configuration, fault and unplugging: the program does not crash before
\* its clean up, since no write goes to a handle that was not opened.
THEOREM OnlyTheExitCrashes == Spec => CrashesAtExit
  BY CrashStep, LifeAlways, PTL DEF Spec, CrashesAtExit
-----------------------------------------------------------------------------
(* The wait of bulk_transfer. *)

\* Only the main thread waits, and only for a write it has submitted.  While it
\* has not seen its completion the M8 keeps its display on.
WaitInv ==
  /\ waiter \in {"out", "retry", "test", "ask", "asleep"}
  /\ completed \in {"no", "taken", "failed"}
  /\ handler \in {"out", "entering", "waiting", "handled", "wake"}
  /\ submitted <=> waiter # "out"
  /\ completed # "no" => submitted /\ usb_thread # "none"
  /\ completed = "taken" /\ pc \in {"E1", "E2"} => gone \/ display

\* The USB thread does not leave libusb_handle_events while the main thread relies
\* on being woken.  A completion after the last test of completed is still to be
\* followed by a wake-up, which waits for the lock.
WakeInv ==
  /\ handler # "out" => usb_thread = "running"
  /\ waiter = "asleep" => handler \in {"waiting", "handled", "wake"}
  /\ waiter \in {"ask", "asleep"} /\ completed # "no" => handler \in {"handled", "wake"}

BulkInv == LifeInv /\ WaitInv /\ WakeInv

\* Whoever waits has somebody to end the wait: the main thread asleep in
\* bulk_transfer has a USB thread that handles events and, once the write is
\* complete, is on its way to wake it; in disconnect it has one that was told to
\* end.
WaitsAreServed ==
  /\ waiter = "asleep" => /\ usb_thread = "running"
                          /\ completed # "no" => handler \in {"handled", "wake"}
  /\ pc = "join" => usb_thread # "none" /\ do_exit

\* What is neither the completion of a write nor its return is a step of
\* Lifecycle, or none.
LEMMA BulkSteps == [BulkNext]_bulkVars => [Next]_vars \/ Finish \/ xfr_cb_in
<1> SUFFICES ASSUME [BulkNext]_bulkVars, ~Finish, ~xfr_cb_in
             PROVE  [Next]_vars
  OBVIOUS
<1>1. CASE BulkMain
  <2>1. CASE Submitted
    BY <2>1 DEF Submitted, Next, MainStep
  <2>2. CASE Retry \/ Test \/ Ask
    BY <2>2 DEF Retry, Test, Ask
  <2>3. CASE ~Submitted /\ ~Retry /\ ~Test /\ ~Ask
    BY <1>1, <2>3 DEF BulkMain, Next, MainStep
  <2> QED
    BY <2>1, <2>2, <2>3
<1>2. CASE Found \/ BulkUser
  BY <1>2 DEF Found, BulkUser, Next
<1>3. CASE LoopTest \/ HandleEvents \/ HandlerReturns \/ Broadcast
  BY <1>3 DEF LoopTest, HandleEvents, HandlerReturns, Broadcast
<1>4. CASE LoopEnds \/ ReadError \/ ReadCallback
  BY <1>4 DEF LoopEnds, ReadError, ReadCallback, Next, UsbThread
<1>5. CASE UNCHANGED bulkVars
  BY <1>5 DEF bulkVars
<1> QED
  BY <1>1, <1>2, <1>3, <1>4, <1>5 DEF BulkNext

LEMMA FinishLife == BulkInv /\ Finish => LifeInv'
<1> SUFFICES ASSUME FlagsOK, PlacesOK, CountsOK, ThreadInv, ExitInv, EnabledInv,
                    CallsInv, HandleInv, WaitInv, Finish
             PROVE  LifeInv'
  BY TypeParts DEF BulkInv, LifeInv
<1>0. /\ UNCHANGED <<run, port_inited, usbVars, audio, calls, envVars>>
      /\ submitted /\ submitted' = FALSE /\ pc \in Writes
      /\ pc' = Success(pc) \/ pc' = Failure(pc)
      /\ pc' = Success(pc) /\ pc' # Failure(pc) => completed = "taken"
  BY DEF Finish, Returned, WaitInv, PlacesOK
<1> USE <1>0 DEF usbVars, envVars
<1>1. FlagsOK'
  BY Zenon DEF FlagsOK
<1>2. PlacesOK'
  BY DEF PlacesOK, Success, Failure, Writes
<1>3. CountsOK'
  BY DEF CountsOK
<1>4. ThreadInv'
  BY DEF ThreadInv
<1>5. ExitInv'
  BY DEF ExitInv, WaitInv, Success, Failure, Writes
<1>6. EnabledInv'
  <2>1. devh /\ usb_thread # "none" /\ UNCHANGED <<devh, usb_thread>>
    BY DEF ThreadInv, WaitInv, Finish
  <2>2. CASE pc \in {"E1", "E2"}
    <3>1. pc' = Failure(pc) \/ gone \/ display
      BY <2>2 DEF WaitInv
    <3>2. CASE pc' = Failure(pc)
      BY <2>2, <3>2 DEF EnabledInv, Enabled, Failure
    <3>3. CASE gone \/ display
      <4>1. devh' /\ usb_thread' # "none"
        BY <2>1
      <4>2. gone' \/ display'
        BY <3>3
      <4> QED
        BY <4>1, <4>2 DEF EnabledInv
    <3> QED
      BY <3>1, <3>2, <3>3
  <2>3. CASE pc \in {"R1", "R2", "R3", "C"}
    BY <2>1, <2>3 DEF EnabledInv, Enabled
  <2>4. CASE pc = "D"
    BY <2>4 DEF EnabledInv, Enabled, Success, Failure
  <2> QED
    BY <2>2, <2>3, <2>4 DEF Writes
<1>7. CallsInv'
  BY DEF CallsInv, NoReadYet, NoAudioYet, Success, Failure, Writes
<1>8. HandleInv'
  BY DEF HandleInv, Success, Failure, Writes
<1> QED
  BY <1>1, <1>2, <1>3, <1>4, <1>5, <1>6, <1>7, <1>8
  DEF LifeInv, TypeOK, FlagsOK, PlacesOK, CountsOK

LEMMA CallbackLife == BulkInv /\ xfr_cb_in => LifeInv'
<1> SUFFICES ASSUME FlagsOK, PlacesOK, CountsOK, ThreadInv, ExitInv, EnabledInv,
                    CallsInv, HandleInv, WaitInv, xfr_cb_in
             PROVE  LifeInv'
  BY TypeParts DEF BulkInv, LifeInv
<1>0. /\ UNCHANGED <<mainVars, run, port_inited, usbVars, audio, calls,
                     wait_for_device, attached, gone, unplugs>>
      /\ submitted /\ pc \in Writes
  BY DEF xfr_cb_in, PlacesOK
<1>1. display' \in BOOLEAN /\ (pc # "D" /\ display => display')
  <2>1. CASE display' = FALSE /\ pc = "D"
    BY <2>1
  <2>2. CASE display' = (display \/ pc \in {"E1", "E2"})
    BY <2>2, Zenon DEF FlagsOK
  <2>3. CASE display' = display
    BY <2>3, Zenon DEF FlagsOK
  <2> QED
    BY <2>1, <2>2, <2>3, Zenon DEF xfr_cb_in
<1> USE <1>0, <1>1 DEF mainVars, usbVars
<1>2. FlagsOK'
  BY Zenon DEF FlagsOK
<1>3. PlacesOK'
  BY DEF PlacesOK
<1>4. CountsOK'
  BY DEF CountsOK
<1>5. ThreadInv'
  BY DEF ThreadInv
<1>6. ExitInv'
  BY DEF ExitInv, Writes
<1>7. EnabledInv'
  BY DEF EnabledInv, Enabled, Writes
<1>8. CallsInv'
  BY DEF CallsInv, NoReadYet, NoAudioYet
<1>9. HandleInv'
  BY DEF HandleInv
<1> QED
  BY <1>2, <1>3, <1>4, <1>5, <1>6, <1>7, <1>8, <1>9
  DEF LifeInv, TypeOK, FlagsOK, PlacesOK, CountsOK

LEMMA WaitStep == BulkInv /\ [BulkNext]_bulkVars => WaitInv'
<1> SUFFICES ASSUME PlacesOK, ThreadInv, WaitInv, [BulkNext]_bulkVars
             PROVE  WaitInv'
  BY TypeParts DEF BulkInv, LifeInv
<1> USE DEF PlacesOK, WaitInv, mainVars, usbVars, envVars, waitVars, Writes, Goto
<1>1. CASE BulkMain
  <2>1. CASE Submitted
    BY <1>1, <2>1 DEF Submitted, Submit, Failure
  <2>2. CASE Retry \/ Test \/ Ask
    BY <2>2 DEF Retry, Test, Ask, vars
  <2>3. CASE Finish
    BY <2>3 DEF Finish
  <2>4. CASE ~(Submitted \/ Retry \/ Test \/ Ask \/ Finish)
    <3>1. pc \notin Writes /\ UNCHANGED <<submitted, waitVars, handler>>
      BY <1>1, <2>4
      DEF BulkMain, Early, InitializeSdl, InitPort, AudioInit, SetRun, AsyncRead, Absent,
          Lost, WaitDone, LoopDone, Cleanup, Close, Join, FreeBuffer
    <3>2. ~submitted /\ completed = "no"
      BY <3>1
    <3> QED
      BY <3>1, <3>2
  <2> QED
    BY <2>1, <2>2, <2>3, <2>4
<1>2. CASE Found
  BY <1>2 DEF Found, PollFound, Polling
<1>3. CASE BulkUser /\ UNCHANGED <<waitVars, handler>>
  <2>1. CASE PollFailed \/ WaitQuit
    BY <1>3, <2>1 DEF PollFailed, Polling, WaitQuit
  <2>2. CASE LoopInput
    BY <1>3, <2>2 DEF LoopInput
  <2>3. CASE Signal \/ Plug
    BY <1>3, <2>3 DEF Signal, Plug
  <2>4. CASE Unplug
    <3>1. submitted => gone'
      BY <2>4 DEF Unplug, ThreadInv
    <3>2. ~display' /\ UNCHANGED <<pc, submitted, usb_thread>>
      BY <2>4 DEF Unplug
    <3> QED
      BY <1>3, <3>1, <3>2
  <2> QED
    BY <1>3, <2>1, <2>2, <2>3, <2>4 DEF BulkUser, User
<1>4. CASE LoopTest \/ HandleEvents \/ HandlerReturns
  BY <1>4 DEF LoopTest, HandleEvents, HandlerReturns, vars
<1>5. CASE Broadcast
  BY <1>5 DEF Broadcast, vars
<1>6. CASE LoopEnds
  BY <1>6 DEF LoopEnds, UsbLoopEnds
<1>7. CASE ReadError \/ ReadCallback
  BY <1>7 DEF ReadError, ReadCallback, CallbackError, CallbackZero, CallbackData
<1>8. CASE xfr_cb_in
  <2>1. /\ UNCHANGED <<pc, submitted, usb_thread, waiter>> /\ submitted
        /\ usb_thread = "running" /\ completed' \in {"taken", "failed"}
        /\ handler' = "handled"
    BY <1>8 DEF xfr_cb_in, UsbRuns
  <2>2. completed' = "taken" /\ pc \in {"E1", "E2"} => display'
    <3> SUFFICES ASSUME completed' = "taken", pc \in {"E1", "E2"}
                 PROVE  display'
      OBVIOUS
    <3>1. pc # "D" /\ completed' # "failed"
      OBVIOUS
    <3> QED
      BY <1>8, <3>1, Zenon DEF xfr_cb_in
  <2> QED
    BY <2>1, <2>2
<1>9. CASE UNCHANGED bulkVars
  BY <1>9 DEF bulkVars, vars
<1> QED
  BY <1>1, <1>2, <1>3, <1>4, <1>5, <1>6, <1>7, <1>8, <1>9 DEF BulkNext

\* Only these steps touch what the waking depends on.
LEMMA Bystanders ==
  (\/ BulkMain /\ ~(Submitted \/ Retry \/ Test \/ Ask \/ Finish)
   \/ Found
   \/ BulkUser /\ UNCHANGED <<waitVars, handler>>) =>
    /\ UNCHANGED <<waiter, completed, handler>>
    /\ usb_thread' = usb_thread \/ usb_thread' = "running"
<1> USE DEF waitVars, usbVars, init_serial_success, init_serial_open, init_serial_new,
        init_serial_failure
<1>1. ASSUME BulkMain, ~(Submitted \/ Retry \/ Test \/ Ask \/ Finish)
      PROVE  /\ UNCHANGED <<waiter, completed, handler>>
             /\ usb_thread' = usb_thread \/ usb_thread' = "running"
  BY <1>1
  DEF BulkMain, Early, InitializeSdl, InitPort, AudioInit, SetRun, AsyncRead, Absent,
      Lost, WaitDone, LoopDone, Cleanup, Close, Join, FreeBuffer
<1>2. ASSUME Found
      PROVE  /\ UNCHANGED <<waiter, completed, handler>>
             /\ usb_thread' = usb_thread \/ usb_thread' = "running"
  BY <1>2 DEF Found, PollFound
<1>3. ASSUME BulkUser, UNCHANGED <<waitVars, handler>>
      PROVE  /\ UNCHANGED <<waiter, completed, handler>>
             /\ usb_thread' = usb_thread \/ usb_thread' = "running"
  BY <1>3 DEF BulkUser, PollFailed, User, WaitQuit, LoopInput, Signal, Unplug, Plug
<1> QED
  BY <1>1, <1>2, <1>3

LEMMA WakeStep == BulkInv /\ [BulkNext]_bulkVars => WakeInv'
<1> SUFFICES ASSUME WaitInv, WakeInv, [BulkNext]_bulkVars PROVE WakeInv'
  BY DEF BulkInv
<1> USE DEF WaitInv, WakeInv, waitVars, usbVars
<1>1. CASE Submitted \/ Finish
  BY <1>1 DEF Submitted, Submit, Finish
<1>2. CASE Retry \/ Test \/ Ask
  BY <1>2 DEF Retry, Test, Ask, libusb_event_handler_active, vars
<1>3. CASE \/ BulkMain /\ ~(Submitted \/ Retry \/ Test \/ Ask \/ Finish)
           \/ Found
           \/ BulkUser /\ UNCHANGED <<waitVars, handler>>
  BY <1>3, Bystanders
<1>4. CASE LoopTest \/ HandleEvents \/ HandlerReturns
  BY <1>4 DEF LoopTest, HandleEvents, HandlerReturns, UsbRuns, libusb_event_handler_active, vars
<1>5. CASE Broadcast
  BY <1>5 DEF Broadcast, Locked, vars
<1>6. CASE LoopEnds
  BY <1>6 DEF LoopEnds
<1>7. CASE ReadError \/ ReadCallback
  BY <1>7 DEF ReadError, ReadCallback, CallbackError, CallbackZero, CallbackData, Reading
<1>8. CASE xfr_cb_in
  BY <1>8 DEF xfr_cb_in, UsbRuns
<1>9. CASE UNCHANGED bulkVars
  BY <1>9 DEF bulkVars, vars
<1> QED
  BY <1>1, <1>2, <1>3, <1>4, <1>5, <1>6, <1>7, <1>8, <1>9 DEF BulkNext, BulkMain

LEMMA BulkAlways == BulkSpec => []BulkInv
<1>1. BulkInit => BulkInv
  BY LifeInit DEF BulkInit, Init, BulkInv, WaitInv, WakeInv
<1>2. BulkInv /\ [BulkNext]_bulkVars => BulkInv'
  <2> SUFFICES ASSUME BulkInv, [BulkNext]_bulkVars PROVE BulkInv'
    OBVIOUS
  <2>1. LifeInv'
    BY BulkSteps, LifeStep, FinishLife, CallbackLife DEF BulkInv
  <2> QED
    BY <2>1, WaitStep, WakeStep DEF BulkInv
<1> QED
  BY <1>1, <1>2, PTL DEF BulkSpec

\* As in Lifecycle; and bulk_transfer waits exactly while its write is out.
THEOREM BulkTyped == BulkSpec => []BulkTypeOK
<1>1. BulkInv => BulkTypeOK
  BY DEF BulkInv, LifeInv, WaitInv, BulkTypeOK
<1> QED
  BY <1>1, BulkAlways, PTL

\* No wake-up is lost between the tests of bulk_transfer and its sleep, although
\* completed is stored without the lock, and nobody waits for a thread that is not
\* there: WriteReturns and QuitEnds rest on this.
THEOREM NoWakeUpLost == BulkSpec => []WaitsAreServed
<1>1. BulkInv => WaitsAreServed
  <2> SUFFICES ASSUME WakeInv, ExitInv PROVE WaitsAreServed
    BY DEF BulkInv, LifeInv
  <2>1. handler \in {"waiting", "handled", "wake"} => usb_thread = "running"
    BY DEF WakeInv
  <2> QED
    BY <2>1 DEF WakeInv, ExitInv, WaitsAreServed
<1> QED
  BY <1>1, BulkAlways, PTL

\* What holds of Lifecycle holds with the wait in detail: the main loop is ready,
\* nothing is started twice, and without one of the three faults a thread is there
\* to complete the write that is waited for.
THEOREM BulkKeeps == BulkSpec => [](LoopReady /\ StartedOnce /\ WriteIsServed)
<1>1. BulkInv => LoopReady /\ StartedOnce /\ WriteIsServed
  BY LifeShows DEF BulkInv
<1> QED
  BY <1>1, BulkAlways, PTL
-----------------------------------------------------------------------------
(* The wait of bulk_transfer is the two steps of a write of Lifecycle. *)

LEMMA RefinesInit == BulkInit => L!Init
  BY Zenon DEF BulkInit, Init, L!Init

\* With no completion to be seen a step is the same in Lifecycle.
LEMMA SameStep ==
  ASSUME completed = "no", completed' = "no", submitted \in BOOLEAN, submitted' \in BOOLEAN
  PROVE  /\ Submit => L!Submit
         /\ Early => L!Early
         /\ InitializeSdl => L!InitializeSdl
         /\ InitPort => L!InitPort
         /\ AudioInit => L!AudioInit
         /\ SetRun => L!SetRun
         /\ AsyncRead => L!AsyncRead
         /\ Absent => L!Absent
         /\ Lost => L!Lost
         /\ WaitDone => L!WaitDone
         /\ LoopDone => L!LoopDone
         /\ Cleanup => L!Cleanup
         /\ Close => L!Close
         /\ Join => L!Join
         /\ FreeBuffer => L!FreeBuffer
         /\ PollFound => L!PollFound
         /\ PollFailed => L!PollFailed
         /\ WaitQuit => L!WaitQuit
         /\ LoopInput => L!LoopInput
<1> USE DEF Goto, L!Goto, usbVars, envVars, mainVars, L!usbVars, L!envVars, L!mainVars,
        Polling, L!Polling
<1>1. Submit => L!Submit
  BY DEF Submit, L!Submit, Writes, L!Writes, Failure, L!Failure
<1>2. Early => L!Early
  BY DEF Early, L!Early, init_serial_success, init_serial_open, init_serial_new,
         init_serial_failure, L!init_serial_success, L!init_serial_open,
         L!init_serial_new, L!init_serial_failure
<1>3. InitializeSdl => L!InitializeSdl
  BY DEF InitializeSdl, L!InitializeSdl
<1>4. InitPort => L!InitPort
  BY DEF InitPort, L!InitPort, init_serial_success, init_serial_open, init_serial_new,
         init_serial_failure, L!init_serial_success, L!init_serial_open,
         L!init_serial_new, L!init_serial_failure
<1>5. AudioInit => L!AudioInit
  BY DEF AudioInit, L!AudioInit
<1>6. SetRun => L!SetRun
  BY DEF SetRun, L!SetRun
<1>7. AsyncRead => L!AsyncRead
  BY DEF AsyncRead, L!AsyncRead
<1>8. Absent => L!Absent
  BY DEF Absent, L!Absent
<1>9. Lost => L!Lost
  BY DEF Lost, L!Lost
<1>10. WaitDone => L!WaitDone
  BY DEF WaitDone, L!WaitDone
<1>11. LoopDone => L!LoopDone
  BY DEF LoopDone, L!LoopDone
<1>12. Cleanup => L!Cleanup
  BY DEF Cleanup, L!Cleanup
<1>13. Close => L!Close
  BY DEF Close, L!Close
<1>14. Join => L!Join
  BY DEF Join, L!Join
<1>15. FreeBuffer => L!FreeBuffer
  BY DEF FreeBuffer, L!FreeBuffer
<1>16. PollFound => L!PollFound
  BY DEF PollFound, L!PollFound, init_serial_success, init_serial_open, init_serial_new,
         L!init_serial_success, L!init_serial_open, L!init_serial_new
<1>17. PollFailed => L!PollFailed
  BY DEF PollFailed, L!PollFailed, init_serial_failure, L!init_serial_failure
<1>18. WaitQuit => L!WaitQuit
  BY DEF WaitQuit, L!WaitQuit
<1>19. LoopInput => L!LoopInput
  BY DEF LoopInput, L!LoopInput
<1> QED
  BY <1>1, <1>2, <1>3, <1>4, <1>5, <1>6, <1>7, <1>8, <1>9, <1>10, <1>11, <1>12,
     <1>13, <1>14, <1>15, <1>16, <1>17, <1>18, <1>19

\* What the read, the end of the USB thread, signals and the plug do is the same
\* whether the main thread has seen the completion of its write or not.
LEMMA SameOutside ==
  ASSUME PlacesOK, UNCHANGED <<completed>>, completed # "no" => pc \in Writes
  PROVE  /\ CallbackZero => L!CallbackZero
         /\ CallbackData => L!CallbackData
         /\ CallbackError => L!CallbackError
         /\ UsbLoopEnds => L!UsbLoopEnds
         /\ Signal => L!Signal
         /\ Unplug => L!Unplug
         /\ Plug => L!Plug
<1> DEFINE place == IF completed = "no" THEN pc ELSE Returned
<1>1. /\ UNCHANGED <<pc, submitted>> => UNCHANGED place
      /\ UNCHANGED <<pc, submitted>> => UNCHANGED (submitted /\ completed = "no")
  BY DEF Returned
<1>2. ~Ended => place \notin {"exit", "crashed"}
  BY DEF Returned, Success, Failure, Ended, PlacesOK, Writes
<1>3. UNCHANGED mainVars => UNCHANGED L!mainVars
  BY <1>1 DEF mainVars, L!mainVars, Returned, L!Success
<1>4. ~Ended => ~L!Ended
  BY <1>2 DEF L!Ended
<1> HIDE DEF place
<1>5. (CallbackZero => L!CallbackZero) /\ (CallbackData => L!CallbackData)
  BY <1>3, <1>4 DEF CallbackZero, L!CallbackZero, CallbackData, L!CallbackData, Reading,
     L!Reading, envVars, L!envVars
<1>6. CallbackError => L!CallbackError
  BY <1>3, <1>4 DEF CallbackError, L!CallbackError, Reading, L!Reading, envVars, L!envVars
<1>7. UsbLoopEnds => L!UsbLoopEnds
  BY <1>3, <1>4 DEF UsbLoopEnds, L!UsbLoopEnds, envVars, L!envVars
<1>8. Signal => L!Signal
  BY <1>3, <1>4 DEF Signal, L!Signal, usbVars, L!usbVars, envVars, L!envVars
<1>9. (Unplug => L!Unplug) /\ (Plug => L!Plug)
  BY <1>3, <1>4 DEF Unplug, L!Unplug, Plug, L!Plug, usbVars, L!usbVars
<1> QED
  BY <1>5, <1>6, <1>7, <1>8, <1>9

\* The completion of a write, and what follows it in the main thread.
LEMMA Completion == PlacesOK /\ xfr_cb_in => L!Complete
<1> SUFFICES ASSUME PlacesOK, xfr_cb_in PROVE L!Complete
  OBVIOUS
<1>1. (submitted /\ completed = "no") /\ ~(submitted' /\ completed' = "no")
  BY DEF xfr_cb_in
<1>2. usb_thread = "running" /\ UNCHANGED <<wait_for_device, run, port_inited, usbVars,
                                            audio, calls, attached, gone, unplugs>>
  BY DEF xfr_cb_in, UsbRuns
<1>3. /\ UNCHANGED pc
      /\ \/ /\ ~gone /\ completed' = "taken"
            /\ display' = IF pc = "D" THEN FALSE ELSE display \/ pc \in {"E1", "E2"}
         \/ completed' = "failed" /\ UNCHANGED display
      /\ completed = "no"
  BY DEF xfr_cb_in, mainVars
<1> QED
  BY <1>1, <1>2, <1>3
  DEF L!Complete, Returned, Success, L!Success, Failure, L!Failure, usbVars, L!usbVars

LEMMA Return == WaitInv /\ Finish => UNCHANGED L!vars
  BY DEF WaitInv, Finish, Returned, L!vars, L!mainVars, usbVars, L!usbVars, envVars,
         L!envVars

LEMMA NoStep == UNCHANGED vars /\ UNCHANGED completed => UNCHANGED L!vars
  BY DEF vars, mainVars, usbVars, envVars, L!vars, L!mainVars, L!usbVars, L!envVars, Returned,
         Success, Failure

\* Storing completed ends the write in Lifecycle, with the place the main thread
\* will go on at; the tests and the sleep of bulk_transfer, and the steps of the
\* USB thread around its callbacks, are none of Lifecycle's steps.
LEMMA RefinesStep == BulkInv /\ [BulkNext]_bulkVars => [L!Next]_(L!vars)
<1> SUFFICES ASSUME BulkInv, [BulkNext]_bulkVars PROVE L!Next \/ UNCHANGED L!vars
  OBVIOUS
<1>0. /\ PlacesOK /\ WaitInv /\ submitted \in BOOLEAN
      /\ completed # "no" => submitted /\ pc \in Writes
  BY TypeParts DEF BulkInv, LifeInv, FlagsOK, PlacesOK, WaitInv
<1>1. submitted' \in BOOLEAN
  <2>1. LifeInv'
    BY BulkSteps, LifeStep, FinishLife, CallbackLife DEF BulkInv
  <2> QED
    BY <2>1 DEF LifeInv, TypeOK
<1> USE <1>0, <1>1
<1>2. CASE BulkMain
  <2>1. CASE Submitted
    <3>1. Submit /\ completed = "no" /\ completed' = "no"
      BY <2>1 DEF Submitted, Submit
    <3> QED
      BY <3>1, SameStep DEF L!Next, L!MainStep
  <2>2. CASE Retry \/ Test \/ Ask
    BY <2>2, NoStep DEF Retry, Test, Ask
  <2>3. CASE Finish
    BY <2>3, Return
  <2>4. CASE ~(Submitted \/ Retry \/ Test \/ Ask \/ Finish)
    <3>1. /\ \/ Early \/ InitializeSdl \/ InitPort \/ AudioInit \/ SetRun \/ AsyncRead
             \/ Absent \/ Lost \/ WaitDone \/ LoopDone \/ Cleanup \/ Close \/ Join
             \/ FreeBuffer
          /\ UNCHANGED completed
      BY <1>2, <2>4 DEF BulkMain, waitVars
    <3>2. pc \notin Writes
      BY <3>1
      DEF Early, InitializeSdl, InitPort, AudioInit, SetRun, AsyncRead, Absent, Lost,
          WaitDone, LoopDone, Cleanup, Close, Join, FreeBuffer, Goto, Writes
    <3>3. completed = "no" /\ completed' = "no"
      BY <3>1, <3>2
    <3> QED
      BY <3>1, <3>3, SameStep DEF L!Next, L!MainStep
  <2> QED
    BY <2>1, <2>2, <2>3, <2>4
<1>3. CASE Found
  <2>1. PollFound /\ completed = "no" /\ completed' = "no"
    BY <1>3 DEF Found, PollFound, Polling, Writes, waitVars
  <2> QED
    BY <2>1, SameStep DEF L!Next
<1>4. CASE BulkUser /\ UNCHANGED <<waitVars, handler>>
  <2>0. UNCHANGED completed
    BY <1>4 DEF waitVars
  <2>1. CASE PollFailed \/ WaitQuit \/ LoopInput
    <3>1. completed = "no" /\ completed' = "no"
      BY <2>0, <2>1 DEF PollFailed, Polling, WaitQuit, LoopInput, Writes
    <3> QED
      BY <2>1, <3>1, SameStep DEF L!Next, L!User
  <2>2. CASE Signal \/ Unplug \/ Plug
    BY <2>0, <2>2, SameOutside DEF L!Next, L!User
  <2> QED
    BY <1>4, <2>1, <2>2 DEF BulkUser, User
<1>5. CASE LoopTest \/ HandleEvents \/ HandlerReturns \/ Broadcast
  BY <1>5, NoStep DEF LoopTest, HandleEvents, HandlerReturns, Broadcast, waitVars
<1>6. CASE LoopEnds \/ ReadError \/ ReadCallback
  <2>1. UNCHANGED completed
    BY <1>6 DEF LoopEnds, ReadError, ReadCallback, waitVars
  <2> QED
    BY <1>6, <2>1, SameOutside
    DEF LoopEnds, ReadError, ReadCallback, L!Next, L!UsbThread
<1>7. CASE xfr_cb_in
  BY <1>7, Completion DEF L!Next, L!MainStep
<1>8. CASE UNCHANGED bulkVars
  BY <1>8, NoStep DEF bulkVars, waitVars
<1> QED
  BY <1>2, <1>3, <1>4, <1>5, <1>6, <1>7, <1>8 DEF BulkNext

\* A blocking write, with its tests, its sleep and the lock of event waiters, is
\* the write of two steps of Lifecycle: everything proved of Lifecycle's steps
\* is about the code's.
THEOREM BulkRefines == BulkSpec => L!Spec
  BY RefinesInit, RefinesStep, BulkAlways, PTL DEF BulkSpec, L!Spec

-----------------------------------------------------------------------------
(* Writes return and quitting ends.  ENABLED means nothing to the provers: that *)
(* the threads can go on where they do not wait, NothingElseBlocks, is a        *)
(* hypothesis here, which TLC checks.                                           *)

\* A write that is out keeps main() at its place, and has its USB thread.
LEMMA ServedWrite ==
  BulkInv =>
    /\ submitted <=> waiter # "out"
    /\ submitted => ~Ended /\ pc \in Writes /\ ~do_exit
    /\ submitted /\ ~faulted => UsbRuns
    /\ waiter \in {"retry", "test", "ask"} => ~MainWaits
<1> SUFFICES ASSUME PlacesOK, ThreadInv, ExitInv, WaitInv
             PROVE  /\ submitted <=> waiter # "out"
                    /\ submitted => ~Ended /\ pc \in Writes /\ ~do_exit
                    /\ submitted /\ ~faulted => UsbRuns
                    /\ waiter \in {"retry", "test", "ask"} => ~MainWaits
  BY TypeParts DEF BulkInv, LifeInv
<1>1. submitted <=> waiter # "out"
  BY DEF WaitInv
<1>2. submitted => ~Ended /\ pc \in Writes /\ ~do_exit
  BY DEF PlacesOK, ExitInv, Ended, Writes
<1>3. submitted /\ ~faulted => UsbRuns
  BY <1>2 DEF PlacesOK, ThreadInv, ExitInv, UsbRuns
<1>4. waiter \in {"retry", "test", "ask"} => ~MainWaits
  BY <1>1, <1>2 DEF MainWaits, Writes
<1> QED
  BY <1>1, <1>2, <1>3, <1>4

\* How the wait of bulk_transfer goes on.
LEMMA WaiterMoves ==
  BulkInv /\ [BulkNext]_bulkVars =>
    /\ waiter = "retry" => (waiter = "retry")' \/ (waiter = "test")'
    /\ waiter = "test" =>
         (waiter = "test")' \/ (completed = "no" /\ (waiter = "ask")') \/ (waiter = "out")'
    /\ waiter = "ask" => (waiter = "ask")' \/ (waiter = "retry")' \/ (waiter = "asleep")'
    /\ waiter = "asleep" => (waiter = "asleep")' \/ (waiter = "retry")'
    /\ completed # "no" => (completed # "no")' \/ (waiter = "out")'
<1> SUFFICES ASSUME WaitInv, [BulkNext]_bulkVars
             PROVE  /\ waiter = "retry" => waiter' \in {"retry", "test"}
                    /\ waiter = "test" =>
                         waiter' \in {"test", "out"} \/ (completed = "no" /\ waiter' = "ask")
                    /\ waiter = "ask" => waiter' \in {"ask", "retry", "asleep"}
                    /\ waiter = "asleep" => waiter' \in {"asleep", "retry"}
                    /\ completed # "no" => completed' # "no" \/ waiter' = "out"
  BY DEF BulkInv
<1>1. CASE Submitted
  BY <1>1 DEF Submitted, Submit, WaitInv
<1>2. CASE Retry \/ Test \/ Ask \/ Finish
  BY <1>2 DEF Retry, Test, Ask, Finish
<1>3. CASE Broadcast \/ xfr_cb_in
  BY <1>3 DEF Broadcast, xfr_cb_in
<1>4. CASE UNCHANGED <<waiter, completed>>
  BY <1>4
<1>5. CASE \/ BulkMain /\ ~(Submitted \/ Retry \/ Test \/ Ask \/ Finish)
           \/ Found
           \/ BulkUser /\ UNCHANGED <<waitVars, handler>>
  BY <1>4, <1>5, Bystanders
<1>6. CASE LoopTest \/ LoopEnds \/ HandleEvents \/ ReadError \/ ReadCallback \/ HandlerReturns
  BY <1>4, <1>6
  DEF LoopTest, LoopEnds, HandleEvents, ReadError, ReadCallback, HandlerReturns, waitVars
<1>7. CASE UNCHANGED bulkVars
  BY <1>4, <1>7 DEF bulkVars, waitVars
<1> QED
  BY <1>1, <1>2, <1>3, <1>5, <1>6, <1>7 DEF BulkNext, BulkMain

\* How usb_loop goes on.
LEMMA HandlerMoves ==
  [BulkNext]_bulkVars =>
    /\ handler = "out" => (handler = "out")' \/ (~do_exit /\ (handler = "entering")')
    /\ handler = "entering" => (handler = "entering")' \/ (handler = "waiting")'
    /\ handler = "waiting" =>
         (handler = "waiting")' \/ (handler = "handled")' \/ (handler = "wake")'
    /\ handler = "handled" => (handler = "handled")' \/ (handler = "wake")'
    /\ handler = "wake" => (handler = "wake")' \/ (handler = "out")'
<1> SUFFICES ASSUME [BulkNext]_bulkVars
             PROVE  /\ handler = "out" => handler' = "out" \/ (~do_exit /\ handler' = "entering")
                    /\ handler = "entering" => handler' \in {"entering", "waiting"}
                    /\ handler = "waiting" => handler' \in {"waiting", "handled", "wake"}
                    /\ handler = "handled" => handler' \in {"handled", "wake"}
                    /\ handler = "wake" => handler' \in {"wake", "out"}
  OBVIOUS
<1>1. CASE UNCHANGED handler
  BY <1>1
<1>2. CASE Submitted \/ Retry \/ Test \/ Ask \/ Finish \/ LoopEnds \/ UNCHANGED bulkVars
  BY <1>1, <1>2 DEF Submitted, Retry, Test, Ask, Finish, LoopEnds, bulkVars
<1>3. CASE \/ BulkMain /\ ~(Submitted \/ Retry \/ Test \/ Ask \/ Finish)
           \/ Found
           \/ BulkUser /\ UNCHANGED <<waitVars, handler>>
  BY <1>1, <1>3, Bystanders
<1>4. CASE LoopTest \/ HandleEvents \/ HandlerReturns \/ Broadcast
  BY <1>4
  DEF LoopTest, HandleEvents, HandlerReturns, Broadcast, libusb_event_handler_active
<1>5. CASE xfr_cb_in \/ ReadError \/ ReadCallback
  BY <1>5 DEF xfr_cb_in, ReadError, ReadCallback, libusb_event_handler_active
<1> QED
  BY <1>2, <1>3, <1>4, <1>5 DEF BulkNext

\* What the steps do that fairness speaks of.
LEMMA FairMoves ==
  BulkInv =>
    /\ BulkMain /\ waiter = "retry" => (waiter = "test")'
    /\ BulkMain /\ waiter = "test" => (waiter = "ask")' \/ (waiter = "out")'
    /\ BulkMain /\ waiter = "ask" => (waiter = "retry")' \/ (waiter = "asleep")'
    /\ EventLoop /\ handler = "out" => (handler = "entering")'
    /\ EventLoop /\ handler = "entering" => (handler = "waiting")'
    /\ EventLoop /\ handler = "handled" => (handler = "wake")'
    /\ LoopExit /\ libusb_event_handler_active => (handler = "wake")'
    /\ LoopExit /\ handler = "out" => (usb_thread = "ended")'
    /\ Broadcast => (handler = "out")' /\ (waiter = "asleep" => (waiter = "retry")')
    /\ xfr_cb_in => (completed # "no")'
<1>1. ASSUME BulkInv, BulkMain
      PROVE  /\ waiter = "retry" => waiter' = "test"
             /\ waiter = "test" => waiter' \in {"ask", "out"}
             /\ waiter = "ask" => waiter' \in {"retry", "asleep"}
  <2>1. CASE Submitted
    BY <1>1, <2>1, ServedWrite DEF Submitted, Submit
  <2>2. CASE Retry \/ Test \/ Ask \/ Finish
    BY <2>2 DEF Retry, Test, Ask, Finish
  <2>3. CASE ~(Submitted \/ Retry \/ Test \/ Ask \/ Finish)
    <3>1. pc \notin Writes
      BY <1>1, <2>3
      DEF BulkMain, Early, InitializeSdl, InitPort, AudioInit, SetRun, AsyncRead, Absent,
          Lost, WaitDone, LoopDone, Cleanup, Close, Join, FreeBuffer, Goto, Writes
    <3> QED
      BY <1>1, <3>1, ServedWrite
  <2> QED
    BY <2>1, <2>2, <2>3
<1>2. ASSUME EventLoop
      PROVE  /\ handler = "out" => handler' = "entering"
             /\ handler = "entering" => handler' = "waiting"
             /\ handler = "handled" => handler' = "wake"
  BY <1>2 DEF EventLoop, LoopTest, HandleEvents, HandlerReturns
<1>3. ASSUME LoopExit
      PROVE  /\ libusb_event_handler_active => handler' = "wake"
             /\ handler = "out" => usb_thread' = "ended"
  BY <1>3
  DEF LoopExit, HandlerReturns, LoopEnds, UsbLoopEnds, libusb_event_handler_active
<1>4. ASSUME Broadcast
      PROVE  handler' = "out" /\ (waiter = "asleep" => waiter' = "retry")
  BY <1>4 DEF Broadcast
<1>5. ASSUME xfr_cb_in PROVE completed' # "no"
  BY <1>5 DEF xfr_cb_in
<1> QED
  BY <1>1, <1>2, <1>3, <1>4, <1>5

\* One place at a time, for the temporal prover, which does not know equality.
LEMMA OnePlace ==
  BulkInv =>
    /\ waiter = "out" \/ waiter = "retry" \/ waiter = "test" \/ waiter = "ask" \/ waiter = "asleep"
    /\ waiter = "out" => ~(waiter = "retry" \/ waiter = "test" \/ waiter = "ask" \/ waiter = "asleep")
    /\ waiter = "retry" => ~(waiter = "test" \/ waiter = "ask" \/ waiter = "asleep")
    /\ waiter = "test" => ~(waiter = "ask" \/ waiter = "asleep")
    /\ waiter = "ask" => ~(waiter = "asleep")
    /\ handler = "out" \/ handler = "entering" \/ handler = "waiting" \/ handler = "handled" \/ handler = "wake"
    /\ handler = "out" => ~(handler = "entering" \/ handler = "waiting" \/ handler = "handled" \/ handler = "wake")
    /\ handler = "entering" => ~(handler = "waiting" \/ handler = "handled" \/ handler = "wake")
    /\ handler = "waiting" => ~(handler = "handled" \/ handler = "wake")
    /\ handler = "handled" => ~(handler = "wake")
    /\ handler \in {"entering", "handled"} <=> handler = "entering" \/ handler = "handled"
    /\ handler \in {"out", "waiting", "handled"} <=>
         handler = "out" \/ handler = "waiting" \/ handler = "handled"
    /\ Locked <=> waiter = "test" \/ waiter = "ask"
    /\ libusb_event_handler_active <=> handler = "waiting" \/ handler = "handled"
    /\ completed # "no" <=> ~(completed = "no")
  BY DEF BulkInv, WaitInv, Locked, libusb_event_handler_active

\* The USB thread comes out of a wake-up, for which it needs the lock: the main
\* thread that holds it gives it back, whether it goes to sleep or asks again.
LEMMA WakeEnds ==
  BulkFairSpec /\ []NothingElseBlocks =>
    (submitted /\ ~faulted /\ handler = "wake" ~> ~submitted \/ faulted \/ handler = "out")
<1>1. BulkFairSpec => []BulkInv /\ [][BulkNext]_bulkVars
  BY BulkAlways, PTL DEF BulkFairSpec, BulkSpec
<1>2. BulkInv =>
        /\ waiter = "test" \/ waiter = "ask" => ~MainWaits
        /\ submitted /\ ~faulted => UsbRuns
  BY ServedWrite
<1>3. BulkFairSpec /\ []NothingElseBlocks => (Locked ~> ~Locked)
  BY <1>1, <1>2, OnePlace, WaiterMoves, FairMoves, PTL DEF BulkFairSpec, NothingElseBlocks
<1> QED
  BY <1>1, <1>2, <1>3, HandlerMoves, FairMoves, PTL DEF BulkFairSpec, NothingElseBlocks

\* While a write is out the USB thread comes back to libusb_handle_events, and
\* libusb completes the write.
LEMMA WriteCompletes ==
  BulkFairSpec /\ []NothingElseBlocks =>
    (submitted ~> ~submitted \/ faulted \/ completed # "no")
<1>1. BulkFairSpec => []BulkInv /\ [][BulkNext]_bulkVars
  BY BulkAlways, PTL DEF BulkFairSpec, BulkSpec
<1>2. BulkInv =>
        /\ submitted => ~do_exit
        /\ submitted /\ ~faulted => UsbRuns
  BY ServedWrite
<1>3. BulkFairSpec /\ []NothingElseBlocks =>
        (submitted ~> ~submitted \/ faulted \/ libusb_event_handler_active)
  BY <1>1, <1>2, OnePlace, HandlerMoves, FairMoves, WakeEnds, PTL
  DEF BulkFairSpec, NothingElseBlocks
<1> QED
  BY <1>1, <1>2, <1>3, OnePlace, FairMoves, PTL DEF BulkFairSpec, NothingElseBlocks

\* The main thread does not sleep through the completion of its write, for every
\* interleaving of its tests with the callback and the wake-up (usb.c:62-70): it
\* sees the completion, or is woken after it and then sees it.
THEOREM WritesReturn == BulkFairSpec /\ []NothingElseBlocks => WriteReturns
<1>1. BulkFairSpec => []BulkInv /\ [][BulkNext]_bulkVars
  BY BulkAlways, PTL DEF BulkFairSpec, BulkSpec
<1>2. BulkInv =>
        /\ submitted <=> waiter # "out"
        /\ waiter = "retry" \/ waiter = "test" \/ waiter = "ask" => ~MainWaits
        /\ submitted /\ ~faulted => UsbRuns
        /\ waiter = "asleep" /\ completed # "no" => handler = "handled" \/ handler = "wake"
  BY ServedWrite DEF BulkInv, WakeInv
<1> DEFINE Done == submitted /\ ~faulted /\ completed # "no"
<1> DEFINE Over == ~submitted \/ faulted
<1>3. BulkInv /\ BulkInv' /\ [BulkNext]_bulkVars =>
        /\ (waiter = "out")' => Over'
        /\ Done => Over' \/ Done'
  <2>1. BulkInv' => (submitted' <=> waiter' # "out")
    BY DEF BulkInv, WaitInv
  <2> QED
    BY <2>1, WaiterMoves
<1>4. BulkFairSpec /\ []NothingElseBlocks =>
        (Done /\ waiter = "asleep" ~> Over \/ (Done /\ waiter = "retry"))
  <2>1. BulkInv /\ [BulkNext]_bulkVars =>
          /\ waiter = "asleep" => (waiter = "asleep")' \/ (waiter = "retry")'
          /\ handler = "handled" => (handler = "handled")' \/ (handler = "wake")'
    BY WaiterMoves, HandlerMoves
  <2>2. BulkInv =>
          /\ EventLoop /\ handler = "handled" => (handler = "wake")'
          /\ Broadcast /\ waiter = "asleep" => (waiter = "retry")'
    BY FairMoves
  <2>3. BulkInv => /\ handler = "handled" => handler \in {"entering", "handled"}
                   /\ waiter = "asleep" => ~Locked
    BY DEF Locked
  <2>4. BulkFairSpec /\ []NothingElseBlocks =>
          (Done /\ waiter = "asleep" /\ handler = "handled" ~>
             Over \/ (Done /\ waiter = "retry") \/ (Done /\ waiter = "asleep" /\ handler = "wake"))
    BY <1>1, <1>2, <1>3, <2>1, <2>2, <2>3, PTL DEF BulkFairSpec, NothingElseBlocks
  <2>5. BulkFairSpec /\ []NothingElseBlocks =>
          (Done /\ waiter = "asleep" /\ handler = "wake" ~> Over \/ (Done /\ waiter = "retry"))
    BY <1>1, <1>2, <1>3, <2>1, <2>2, <2>3, PTL DEF BulkFairSpec, NothingElseBlocks
  <2> QED
    BY <1>1, <1>2, <2>4, <2>5, PTL
<1>5. BulkFairSpec /\ []NothingElseBlocks =>
        (Done /\ (waiter = "retry" \/ waiter = "test") ~> Over)
  <2>1. BulkInv /\ [BulkNext]_bulkVars =>
          /\ waiter = "retry" => (waiter = "retry")' \/ (waiter = "test")'
          /\ completed # "no" /\ waiter = "test" => (waiter = "test")' \/ (waiter = "out")'
    BY WaiterMoves
  <2>2. BulkInv /\ [BulkNext]_bulkVars =>
          /\ BulkMain /\ waiter = "retry" => (waiter = "test")'
          /\ BulkMain /\ waiter = "test" /\ completed # "no" => (waiter = "out")'
    <3>1. BulkInv /\ BulkMain =>
            /\ waiter = "retry" => waiter' = "test"
            /\ waiter = "test" => waiter' # "test"
      BY FairMoves
    <3> QED
      BY <3>1, <2>1
  <2>3. BulkFairSpec /\ []NothingElseBlocks =>
          (Done /\ waiter = "retry" ~> Over \/ (Done /\ waiter = "test"))
    BY <1>1, <1>2, <1>3, <2>1, <2>2, PTL DEF BulkFairSpec, NothingElseBlocks
  <2>4. BulkFairSpec /\ []NothingElseBlocks => (Done /\ waiter = "test" ~> Over)
    BY <1>1, <1>2, <1>3, <2>1, <2>2, PTL DEF BulkFairSpec, NothingElseBlocks
  <2> QED
    BY <2>3, <2>4, PTL
<1>6. BulkFairSpec /\ []NothingElseBlocks =>
        (Done /\ waiter = "ask" ~>
           Over \/ (Done /\ waiter = "retry") \/ (Done /\ waiter = "asleep"))
  <2>1. BulkInv /\ [BulkNext]_bulkVars /\ waiter = "ask" =>
          (waiter = "ask")' \/ (waiter = "retry")' \/ (waiter = "asleep")'
    BY WaiterMoves
  <2>2. BulkInv /\ BulkMain /\ waiter = "ask" => (waiter = "retry")' \/ (waiter = "asleep")'
    BY FairMoves
  <2> QED
    BY <1>1, <1>2, <1>3, <2>1, <2>2, PTL DEF BulkFairSpec, NothingElseBlocks
<1>7. BulkInv => (Done => waiter = "retry" \/ waiter = "test" \/ waiter = "ask" \/ waiter = "asleep")
  BY <1>2, OnePlace
<1>8. BulkFairSpec /\ []NothingElseBlocks => (submitted ~> Over \/ Done)
  BY WriteCompletes, PTL
<1> QED
  BY <1>1, <1>4, <1>5, <1>6, <1>7, <1>8, PTL DEF WriteReturns

\* How main() goes on from the screensaver and from the main loop.
LEMMA PlaceMoves ==
  BulkInv /\ [BulkNext]_bulkVars =>
    /\ pc = "wait" /\ run # "WAIT" => pc' # "wait" \/ run' # "WAIT"
    /\ pc = "loop" /\ run = "QUIT" => pc' = "cleanup" \/ (pc' = "loop" /\ run' = "QUIT")
    /\ pc = "cleanup" => pc' \in {"cleanup", "D", "crashed"}
    /\ pc = "D" => \/ pc' = "D" /\ (submitted => submitted')
                  \/ pc' \in {"close", "free", "crashed"}
    /\ pc = "close" => pc' \in {"close", "join", "free"}
    /\ pc = "join" => pc' \in {"join", "free"}
    /\ pc = "free" => pc' \in {"free", "quit"}
    /\ pc = "quit" => pc' \in {"quit", "exit"}
<1> SUFFICES ASSUME PlacesOK, WaitInv, [BulkNext]_bulkVars
             PROVE  /\ pc = "wait" /\ run # "WAIT" => pc' # "wait" \/ run' # "WAIT"
                    /\ pc = "loop" /\ run = "QUIT" =>
                         pc' = "cleanup" \/ (pc' = "loop" /\ run' = "QUIT")
                    /\ pc = "cleanup" => pc' \in {"cleanup", "D", "crashed"}
                    /\ pc = "D" => \/ pc' = "D" /\ (submitted => submitted')
                                  \/ pc' \in {"close", "free", "crashed"}
                    /\ pc = "close" => pc' \in {"close", "join", "free"}
                    /\ pc = "join" => pc' \in {"join", "free"}
                    /\ pc = "free" => pc' \in {"free", "quit"}
                    /\ pc = "quit" => pc' \in {"quit", "exit"}
  BY TypeParts DEF BulkInv, LifeInv
<1>1. CASE UNCHANGED <<pc, submitted>> /\ run' \in {run, "QUIT"}
  BY <1>1
<1>2. CASE Submitted
  BY <1>2 DEF Submitted, Submit, Failure, Writes
<1>3. CASE Finish
  <2>1. pc \in Writes
    BY <1>3 DEF Finish, PlacesOK, WaitInv
  <2>2. pc = "D" => pc' \in {"close", "free"}
    BY <1>3 DEF Finish, Returned, Success, Failure
  <2> QED
    BY <2>1, <2>2 DEF Writes
<1>4. CASE \/ Early \/ InitializeSdl \/ InitPort \/ AudioInit \/ SetRun \/ AsyncRead
           \/ Absent \/ Lost \/ WaitDone
  BY <1>4
  DEF Early, InitializeSdl, InitPort, AudioInit, SetRun, AsyncRead, Absent, Lost,
      WaitDone, Goto
<1>5. CASE LoopDone \/ Cleanup \/ Close \/ Join \/ FreeBuffer
  BY <1>5 DEF LoopDone, Cleanup, Close, Join, FreeBuffer, Goto
<1>6. CASE Found
  BY <1>6 DEF Found, PollFound, Polling
<1>7. CASE LoopInput
  BY <1>7 DEF LoopInput
<1>8. CASE PollFailed \/ WaitQuit \/ Signal \/ Unplug \/ Plug
  BY <1>1, <1>8 DEF PollFailed, WaitQuit, Signal, Unplug, Plug, mainVars
<1>9. CASE Retry \/ Test \/ Ask \/ UNCHANGED bulkVars
  BY <1>1, <1>9 DEF Retry, Test, Ask, bulkVars, vars, mainVars
<1>10. CASE LoopTest \/ LoopEnds \/ HandleEvents \/ HandlerReturns \/ Broadcast
  BY <1>1, <1>10
  DEF LoopTest, LoopEnds, UsbLoopEnds, HandleEvents, HandlerReturns, Broadcast, vars, mainVars
<1>11. CASE xfr_cb_in \/ ReadError \/ ReadCallback
  BY <1>1, <1>11
  DEF xfr_cb_in, ReadError, ReadCallback, CallbackError, CallbackZero, CallbackData, mainVars
<1> QED
  BY <1>2, <1>3, <1>4, <1>5, <1>6, <1>7, <1>8, <1>9, <1>10, <1>11
  DEF BulkNext, BulkMain, BulkUser, User

\* A step of main() there is one to another place, or submits the D.
LEMMA PlaceLeft ==
  BulkInv /\ BulkMain =>
    /\ pc = "wait" => pc' # "wait"
    /\ pc = "loop" /\ run = "QUIT" => pc' = "cleanup"
    /\ pc = "cleanup" => pc' \in {"D", "crashed"}
    /\ pc = "D" /\ ~submitted => submitted' \/ pc' # "D"
    /\ pc = "close" => pc' \in {"join", "free"}
    /\ pc = "join" => pc' = "free"
    /\ pc = "free" => pc' = "quit"
    /\ pc = "quit" => pc' = "exit"
<1> SUFFICES ASSUME PlacesOK, WaitInv, BulkMain,
                    pc \in {"wait", "loop", "cleanup", "D", "close", "join", "free", "quit"}
             PROVE  /\ pc = "wait" => pc' # "wait"
                    /\ pc = "loop" /\ run = "QUIT" => pc' = "cleanup"
                    /\ pc = "cleanup" => pc' \in {"D", "crashed"}
                    /\ pc = "D" /\ ~submitted => submitted' \/ pc' # "D"
                    /\ pc = "close" => pc' \in {"join", "free"}
                    /\ pc = "join" => pc' = "free"
                    /\ pc = "free" => pc' = "quit"
                    /\ pc = "quit" => pc' = "exit"
  BY TypeParts DEF BulkInv, LifeInv
<1>1. CASE Submitted
  BY <1>1 DEF Submitted, Submit, Failure, Writes
<1>2. CASE Retry \/ Test \/ Ask \/ Finish
  BY <1>2 DEF Retry, Test, Ask, Finish, WaitInv, PlacesOK, Writes
<1>3. CASE \/ Early \/ InitializeSdl \/ InitPort \/ AudioInit \/ SetRun \/ AsyncRead
           \/ Absent \/ Lost \/ WaitDone
  BY <1>3
  DEF Early, InitializeSdl, InitPort, AudioInit, SetRun, AsyncRead, Absent, Lost,
      WaitDone, Goto
<1>4. CASE LoopDone \/ Cleanup \/ Close \/ Join \/ FreeBuffer
  BY <1>4 DEF LoopDone, Cleanup, Close, Join, FreeBuffer, Goto
<1> QED
  BY <1>1, <1>2, <1>3, <1>4 DEF BulkMain

\* Nobody starts the USB thread again.
LEMMA EndedStays ==
  pc = "join" /\ usb_thread = "ended" /\ [BulkNext]_bulkVars => usb_thread' = "ended"
<1> SUFFICES ASSUME pc = "join", usb_thread = "ended", [BulkNext]_bulkVars
             PROVE  usb_thread' = "ended"
  OBVIOUS
<1>1. CASE Finish \/ xfr_cb_in
  BY <1>1 DEF Finish, xfr_cb_in, usbVars
<1>2. CASE MainStep
  BY <1>2
  DEF MainStep, Submit, Complete, Early, InitializeSdl, InitPort, AudioInit, SetRun,
      AsyncRead, Absent, Lost, WaitDone, LoopDone, Cleanup, Close, Join, FreeBuffer,
      Goto, usbVars
<1>3. CASE PollFound \/ PollFailed \/ UsbThread \/ User
  BY <1>3
  DEF PollFound, PollFailed, Polling, UsbThread, CallbackZero, CallbackData,
      CallbackError, UsbLoopEnds, Reading, User, WaitQuit, LoopInput, Signal, Unplug,
      Plug, usbVars
<1>4. CASE UNCHANGED vars
  BY <1>4 DEF vars, usbVars
<1> QED
  BY <1>1, <1>2, <1>3, <1>4, BulkSteps DEF Next

\* And main() does not wait there, but for a write and for the USB thread.
LEMMA PlaceRuns ==
  BulkInv =>
    /\ pc = "wait" /\ run # "WAIT" => ~MainWaits
    /\ pc = "loop" /\ run = "QUIT" => ~MainWaits
    /\ pc \in {"cleanup", "close", "free", "quit"} => ~MainWaits
    /\ pc = "D" /\ ~submitted => ~MainWaits
    /\ pc = "join" /\ usb_thread = "ended" => ~MainWaits
  BY TypeParts DEF BulkInv, LifeInv, PlacesOK, WaitInv, MainWaits, Ended, Writes

\* The polls find an M8 that stays plugged in, whatever else fails and however
\* often: the loop with the screensaver is left with it, or for the end.
THEOREM PollsDoFind == BulkFairSpec /\ []NothingElseBlocks => PollsFind
<1>1. BulkFairSpec => []BulkInv /\ [][BulkNext]_bulkVars
  BY BulkAlways, PTL DEF BulkFairSpec, BulkSpec
<1> DEFINE Sought == pc = "wait" /\ attached /\ ~port_inited
<1> DEFINE Waits == run = "WAIT"
<1>2. BulkInv => (Sought /\ Waits => Polling)
  BY DEF Polling
<1>3. BulkInv => (Sought /\ ~Waits => ~MainWaits)
  BY PlaceRuns
<1>4. BulkInv /\ [BulkNext]_bulkVars => (Sought /\ ~Waits => ~Sought' \/ ~Waits')
  BY PlaceMoves
<1>5. BulkInv => (Found => ~Sought')
  BY DEF Found, PollFound
<1>6. BulkInv => (BulkMain => (Sought => ~Sought'))
  BY PlaceLeft
<1>7. BulkFairSpec /\ []NothingElseBlocks => (Sought /\ ~Waits ~> ~Sought)
  BY <1>1, <1>3, <1>4, <1>6, PTL DEF BulkFairSpec, NothingElseBlocks
<1>8. BulkFairSpec /\ []NothingElseBlocks => (Sought ~> ~Sought)
  BY <1>1, <1>2, <1>5, <1>7, PTL DEF BulkFairSpec, NothingElseBlocks
<1>9. pc # "wait" <=> ~(pc = "wait")
  OBVIOUS
<1> QED
  BY <1>8, <1>9, PTL DEF PollsFind

\* Once disconnect waits for it the USB thread ends: it comes out of
\* libusb_handle_events, wakes nobody, since no write is out, and sees do_exit.
LEMMA ThreadEnds ==
  BulkFairSpec /\ []NothingElseBlocks => (pc = "join" ~> pc = "free" \/ usb_thread = "ended")
<1>1. BulkFairSpec => []BulkInv /\ [][BulkNext]_bulkVars
  BY BulkAlways, PTL DEF BulkFairSpec, BulkSpec
<1> DEFINE Joining == pc = "join"
<1> DEFINE Left == pc = "free" \/ usb_thread = "ended"
<1> DEFINE Active == handler = "waiting" \/ handler = "handled"
<1>2. BulkInv =>
        /\ Joining => do_exit /\ ~Locked /\ (UsbRuns \/ Left)
        /\ handler = "out" \/ handler = "entering" \/ Active \/ handler = "wake"
        /\ handler = "entering" => handler \in {"entering", "handled"}
        /\ handler = "out" \/ Active => handler \in {"out", "waiting", "handled"}
  <2>1. BulkInv => (Joining => waiter = "out" /\ do_exit /\ usb_thread \in {"running", "ended"})
    BY TypeParts DEF BulkInv, LifeInv, PlacesOK, ExitInv, WaitInv, Writes
  <2> QED
    BY <2>1, OnePlace DEF UsbRuns, Ended, Locked
<1>3. BulkInv /\ [BulkNext]_bulkVars =>
        /\ Joining => Joining' \/ Left'
        /\ do_exit /\ handler = "out" => (handler = "out")'
        /\ handler = "entering" => (handler = "entering")' \/ Active'
        /\ Active => Active' \/ (handler = "wake")'
        /\ handler = "wake" => (handler = "wake")' \/ (handler = "out")'
  BY PlaceMoves, HandlerMoves
<1>4. BulkInv =>
        /\ EventLoop /\ handler = "entering" => Active'
        /\ LoopExit /\ Active => (handler = "wake")'
        /\ LoopExit /\ handler = "out" => Left'
        /\ Broadcast => (handler = "out")'
  BY FairMoves DEF libusb_event_handler_active
<1>5. BulkFairSpec /\ []NothingElseBlocks => (Joining /\ handler = "out" ~> Left)
  BY <1>1, <1>2, <1>3, <1>4, PTL DEF BulkFairSpec, NothingElseBlocks
<1>6. BulkFairSpec /\ []NothingElseBlocks =>
        (Joining /\ handler = "wake" ~> Left \/ (Joining /\ handler = "out"))
  BY <1>1, <1>2, <1>3, <1>4, PTL DEF BulkFairSpec, NothingElseBlocks
<1>7. BulkFairSpec /\ []NothingElseBlocks =>
        (Joining /\ Active ~> Left \/ (Joining /\ handler = "wake"))
  BY <1>1, <1>2, <1>3, <1>4, PTL DEF BulkFairSpec, NothingElseBlocks
<1>8. BulkFairSpec /\ []NothingElseBlocks =>
        (Joining /\ handler = "entering" ~> Left \/ (Joining /\ Active))
  BY <1>1, <1>2, <1>3, <1>4, PTL DEF BulkFairSpec, NothingElseBlocks
<1> QED
  BY <1>1, <1>2, <1>5, <1>6, <1>7, <1>8, PTL

\* A request to quit in the main loop ends the program, for every interleaving
\* with the USB thread and the user and whatever the M8 does: main() reaches the
\* clean up, the D is waited for and no longer, and the USB thread is waited for
\* only when it was told to end.
THEOREM QuittingEnds == BulkFairSpec /\ []NothingElseBlocks => QuitEnds
<1>1. BulkFairSpec => []BulkInv /\ [][BulkNext]_bulkVars
  BY BulkAlways, PTL DEF BulkFairSpec, BulkSpec
<1> DEFINE Quitting == pc = "loop" /\ run = "QUIT"
<1> DEFINE Over == Ended \/ faulted
<1> DEFINE Unsent == pc = "D" /\ ~submitted
<1> DEFINE Sent == pc = "D" /\ submitted
<1> DEFINE Joined == pc = "join" /\ usb_thread = "ended"
<1>2. BulkInv =>
        /\ Quitting => ~MainWaits
        /\ pc = "cleanup" \/ Unsent \/ pc = "close" \/ Joined \/ pc = "free" \/ pc = "quit" =>
             ~MainWaits
  BY PlaceRuns
<1>3. BulkInv /\ BulkInv' /\ [BulkNext]_bulkVars =>
        /\ Quitting => Quitting' \/ (pc = "cleanup")'
        /\ pc = "cleanup" => (pc = "cleanup")' \/ Unsent' \/ Sent' \/ Over'
        /\ Unsent => Unsent' \/ Sent' \/ (pc = "close")' \/ (pc = "free")' \/ Over'
        /\ Sent => Sent' \/ (pc = "close")' \/ (pc = "free")' \/ Over'
        /\ pc = "close" => (pc = "close")' \/ (pc = "join")' \/ (pc = "free")'
        /\ pc = "join" => (pc = "join")' \/ (pc = "free")'
        /\ pc = "free" => (pc = "free")' \/ (pc = "quit")'
        /\ pc = "quit" => (pc = "quit")' \/ Over'
  BY PlaceMoves DEF Ended
<1>4. BulkInv /\ BulkMain =>
        /\ Quitting => (pc = "cleanup")'
        /\ pc = "cleanup" => Unsent' \/ Sent' \/ Over'
        /\ Unsent => ~Unsent'
        /\ pc = "close" => (pc = "join")' \/ (pc = "free")'
        /\ pc = "join" => (pc = "free")'
        /\ pc = "free" => (pc = "quit")'
        /\ pc = "quit" => Over'
  BY PlaceLeft DEF Ended
<1>5. BulkInv /\ [BulkNext]_bulkVars => (Joined => Joined' \/ (pc = "free")')
  BY PlaceMoves, EndedStays
<1>6. BulkFairSpec /\ []NothingElseBlocks =>
        /\ Quitting ~> pc = "cleanup"
        /\ pc = "cleanup" ~> Unsent \/ Sent \/ Over
  BY <1>1, <1>2, <1>3, <1>4, PTL DEF BulkFairSpec, NothingElseBlocks
<1>7. BulkFairSpec /\ []NothingElseBlocks =>
        (Unsent ~> Sent \/ pc = "close" \/ pc = "free" \/ Over)
  BY <1>1, <1>2, <1>3, <1>4, PTL DEF BulkFairSpec, NothingElseBlocks
<1>8. BulkFairSpec /\ []NothingElseBlocks => (Sent ~> pc = "close" \/ pc = "free" \/ Over)
  BY <1>1, <1>3, WritesReturn, PTL DEF WriteReturns
<1>9. BulkFairSpec /\ []NothingElseBlocks =>
        /\ pc = "close" ~> pc = "join" \/ pc = "free"
        /\ pc = "free" ~> pc = "quit"
        /\ pc = "quit" ~> Over
  BY <1>1, <1>2, <1>3, <1>4, PTL DEF BulkFairSpec, NothingElseBlocks
<1>10. BulkFairSpec /\ []NothingElseBlocks => (pc = "join" ~> pc = "free")
  BY <1>1, <1>2, <1>3, <1>4, <1>5, ThreadEnds, PTL DEF BulkFairSpec, NothingElseBlocks
<1> QED
  BY <1>6, <1>7, <1>8, <1>9, <1>10, PTL DEF QuitEnds
=============================================================================
