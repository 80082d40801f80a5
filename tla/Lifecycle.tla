----------------------------- MODULE Lifecycle ------------------------------
(***************************************************************************)
(* The life of the program: main() in main.c, the signal handler, the      *)
(* completion callback of the serial read, and what usb.c does to open,    *)
(* enable and close the M8.  Three things run at once: the main thread,    *)
(* the USB thread it creates, and the user, who plugs and unplugs the M8,  *)
(* asks to quit and sends signals.                                         *)
(*                                                                         *)
(* A blocking write to the M8 (blocking_write, bulk_transfer) is two       *)
(* steps, the submission and the wait for its completion.  Only the USB    *)
(* thread completes it: without one the wait never ends.                   *)
(***************************************************************************)
EXTENDS Integers

CONSTANTS
  WaitForDevice,  \* the values of conf.wait_for_device, one of which is chosen
  Audio,          \* conf.audio_enabled; init_config and read_audio_config make
                  \* it 1 whatever the configuration file says
  WaitPackets,    \* conf.wait_packets
  Faults,         \* the faults that may happen, of those below
  MaxUnplugs      \* times the M8 is unplugged, at most

ASSUME LifecycleAssumption ==
  /\ WaitForDevice \subseteq BOOLEAN
  /\ Audio \in BOOLEAN
  /\ WaitPackets \in Nat
  /\ Faults \subseteq {"sdl",        \* initialize_sdl fails
                       "interface",  \* init_interface fails on an open device
                       "thread",     \* SDL_CreateThread fails
                       "events"}     \* libusb_handle_events fails
  /\ MaxUnplugs \in Nat

VARIABLES
  wait_for_device,  \* conf.wait_for_device
  pc,            \* where the main thread is
  submitted,     \* its blocking write is submitted and not completed
  run, port_inited,
  devh,          \* a device handle is open
  do_exit,
  usb_thread,    \* "none", "running" or "ended"
  reading,       \* the serial read transfer: "none", "pending" or "dead"
  zerobyte_packets,
  faulted,       \* one of the last three Faults has happened
  audio,         \* audio_init has succeeded and audio_destroy has not run
  calls,         \* how often the thread, the read and the audio were started
  attached,      \* the M8 is plugged in
  gone,          \* it was unplugged since devh was opened
  display,       \* the M8 sends its display
  unplugs

mainVars == <<pc, submitted>>
usbVars == <<devh, do_exit, usb_thread, reading, zerobyte_packets, faulted>>
envVars == <<wait_for_device, attached, gone, display, unplugs>>
vars == <<mainVars, run, port_inited, usbVars, audio, calls, envVars>>

Init ==
  /\ wait_for_device \in WaitForDevice
  /\ pc = IF wait_for_device THEN "sdl" ELSE "early"
  /\ submitted = FALSE
  /\ run = "WAIT"
  /\ port_inited = FALSE
  /\ devh = FALSE
  /\ do_exit = FALSE
  /\ usb_thread = "none"
  /\ reading = "none"
  /\ zerobyte_packets = 0
  /\ faulted = FALSE
  /\ audio = FALSE
  /\ calls = [thread |-> 0, read |-> 0, audio |-> 0]
  /\ attached \in BOOLEAN
  /\ gone = FALSE
  /\ display = FALSE
  /\ unplugs = 0

Goto(from, to) == pc = from /\ pc' = to
-----------------------------------------------------------------------------
(* usb.c, as main() calls it. *)

\* init_serial.  An open handle is success, also one left open by a call that
\* failed in init_interface.
init_serial_open == devh /\ UNCHANGED <<usbVars, calls, envVars>>

\* Mutant: the thread is not created.
init_serial_threadless ==
  /\ ~devh
  /\ attached
  /\ devh' = TRUE
  /\ gone' = FALSE
  /\ UNCHANGED <<do_exit, usb_thread, reading, zerobyte_packets, faulted, calls,
                 attached, display, unplugs>>

\* Mutant: the handle is opened again although one is open.
init_serial_again ==
  /\ attached
  /\ devh' = TRUE
  /\ gone' = FALSE
  /\ usb_thread' = "running"
  /\ calls' = [calls EXCEPT !.thread = @ + 1]
  /\ UNCHANGED <<do_exit, reading, zerobyte_packets, faulted, attached, display, unplugs>>

\* Nobody looks whether SDL_CreateThread returned a thread.
init_serial_new ==
  /\ ~devh
  /\ attached
  /\ devh' = TRUE
  /\ gone' = FALSE
  /\ \/ /\ usb_thread' = "running"
        /\ calls' = [calls EXCEPT !.thread = @ + 1]
        /\ UNCHANGED faulted
     \/ /\ "thread" \in Faults
        /\ faulted' = TRUE
        /\ UNCHANGED <<usb_thread, calls>>
  /\ UNCHANGED <<do_exit, reading, zerobyte_packets, attached, display, unplugs>>

init_serial_success == init_serial_open \/ init_serial_new

\* libusb_init or the opening fails, or init_interface does and devh stays.
init_serial_failure ==
  /\ ~devh
  /\ \/ UNCHANGED <<devh, gone, faulted>>
     \/ /\ "interface" \in Faults
        /\ attached
        /\ devh' = TRUE
        /\ gone' = FALSE
        /\ faulted' = TRUE
  /\ UNCHANGED <<do_exit, usb_thread, reading, zerobyte_packets, calls,
                 attached, display, unplugs>>

\* The places where the main thread writes to the M8, where it goes on when
\* the write succeeds, and where when it fails.
Writes == {"E1", "R1", "R2", "E2", "R3", "C", "D"}

Success(at) ==
  CASE at = "E1" -> "R1"
    [] at = "R1" -> IF Audio THEN "audio1" ELSE "run1"
    [] at = "R2" -> "run1"
    [] at = "E2" -> "R3"
    [] at = "R3" -> "run2"
    [] at = "C"  -> "loop"
    [] at = "D"  -> "close"

\* Mutant: the result of a reset is not looked at after enabling.
FailureIgnored(at) ==
  CASE at = "E1"           -> "R1"
    [] at = "R1"           -> "run1"
    [] at = "R2"           -> "run1"
    [] at \in {"E2", "R3"} -> "lost"
    [] at = "C"            -> "loop"
    [] at = "D"            -> "free"

Failure(at) ==
  CASE at \in {"E1", "R1"} -> "absent"
    [] at = "R2"           -> "run1"
    [] at \in {"E2", "R3"} -> "lost"
    [] at = "C"            -> "loop"
    [] at = "D"            -> "free"

\* libusb_submit_transfer, which dereferences the handle.
Submit ==
  /\ pc \in Writes
  /\ ~submitted
  /\ \/ devh /\ submitted' = TRUE /\ UNCHANGED pc
     \/ devh /\ pc' = Failure(pc) /\ UNCHANGED submitted
     \/ ~devh /\ pc' = "crashed" /\ UNCHANGED submitted
  /\ UNCHANGED <<run, port_inited, usbVars, audio, calls, envVars>>

\* The USB thread has run xfr_cb_in: the M8 took the bytes, or it did not
\* within 5 ms, or it is gone.
Complete ==
  /\ submitted
  /\ usb_thread = "running"
  /\ submitted' = FALSE
  /\ \/ /\ ~gone
        /\ pc' = Success(pc)
        /\ display' = IF pc = "D" THEN FALSE ELSE display \/ pc \in {"E1", "E2"}
     \/ pc' = Failure(pc) /\ UNCHANGED display
  /\ UNCHANGED <<wait_for_device, run, port_inited, usbVars, audio, calls,
                 attached, gone, unplugs>>
-----------------------------------------------------------------------------
(* main(): start. *)

\* First device detection, if we shouldn't wait for the M8.
Early ==
  /\ \/ Goto("early", "sdl") /\ init_serial_success
     \/ Goto("early", "exit") /\ init_serial_failure
  /\ UNCHANGED <<wait_for_device, submitted, run, port_inited, audio>>

InitializeSdl ==
  /\ Goto("sdl", "begin")
  /\ \/ UNCHANGED run
     \/ "sdl" \in Faults /\ run' = "QUIT"
  /\ UNCHANGED <<submitted, port_inited, usbVars, audio, calls, envVars>>

\* Mutant: the display is enabled whether or not there is a port.
InitPortUntested ==
  /\ Goto("begin", "E1")
  /\ \/ init_serial_success /\ port_inited' = TRUE
     \/ init_serial_failure /\ port_inited' = FALSE
  /\ UNCHANGED <<wait_for_device, submitted, run, audio>>

InitPort ==
  /\ \/ Goto("begin", "E1") /\ init_serial_success /\ port_inited' = TRUE
     \/ Goto("begin", "absent") /\ init_serial_failure /\ port_inited' = FALSE
  /\ UNCHANGED <<wait_for_device, submitted, run, audio>>

\* audio_init returns 1 or a negative number; neither caller acts on it, the
\* second because it waits for 0.
AudioInit ==
  /\ Goto("audio1", "R2") \/ Goto("audio2", "E2")
  /\ audio' \in BOOLEAN
  /\ calls' = [calls EXCEPT !.audio = @ + 1]
  /\ UNCHANGED <<submitted, run, port_inited, usbVars, envVars>>

SetRun ==
  /\ Goto("run1", "read1") \/ Goto("run2", "read2")
  /\ run' = "RUN"
  /\ port_inited' = TRUE
  /\ UNCHANGED <<submitted, usbVars, audio, calls, envVars>>

\* async_read.  Nobody looks whether the transfer could be submitted.
AsyncRead ==
  /\ Goto("read1", IF wait_for_device THEN "wait" ELSE "loop") \/ Goto("read2", "wait")
  /\ \/ reading' = "pending"
     \/ UNCHANGED reading
  /\ calls' = [calls EXCEPT !.read = @ + 1]
  /\ UNCHANGED <<submitted, run, port_inited, devh, do_exit, usb_thread,
                 zerobyte_packets, faulted, audio, envVars>>

\* The branch for a classic start without a port is never taken: Early has left
\* an open handle or ended the program.
Absent ==
  /\ Goto("absent", IF wait_for_device THEN "wait" ELSE "loop")
  /\ run' = IF wait_for_device THEN "WAIT" ELSE "QUIT"
  /\ UNCHANGED <<submitted, port_inited, usbVars, audio, calls, envVars>>
-----------------------------------------------------------------------------
(* main(): the loop with the screensaver, and the main loop. *)

WaitQuit ==
  /\ pc = "wait"
  /\ run = "WAIT"
  /\ run' = "QUIT"
  /\ UNCHANGED <<mainVars, port_inited, usbVars, audio, calls, envVars>>

\* Mutant: a poll only starts when no handle is open.
PollingClosed == pc = "wait" /\ run = "WAIT" /\ ~port_inited /\ ~devh

Polling == pc = "wait" /\ run = "WAIT" /\ ~port_inited

PollFound ==
  /\ Polling
  /\ pc' = IF Audio THEN "audio2" ELSE "E2"
  /\ init_serial_success
  /\ UNCHANGED <<wait_for_device, submitted, run, port_inited, audio>>

PollFailed ==
  /\ Polling
  /\ init_serial_failure
  /\ UNCHANGED <<wait_for_device, mainVars, run, port_inited, audio>>

\* The M8 was found but did not answer.
Lost ==
  /\ Goto("lost", "wait")
  /\ run' = "QUIT"
  /\ UNCHANGED <<submitted, port_inited, usbVars, audio, calls, envVars>>

WaitDone ==
  /\ Goto("wait", "loop")
  /\ run # "WAIT"
  /\ UNCHANGED <<submitted, run, port_inited, usbVars, audio, calls, envVars>>

\* The main loop sends input to the M8 or takes a request to quit.
LoopInput ==
  /\ pc = "loop"
  /\ run = "RUN"
  /\ \/ pc' = "C" /\ UNCHANGED run
     \/ run' = "QUIT" /\ UNCHANGED pc
  /\ UNCHANGED <<submitted, port_inited, usbVars, audio, calls, envVars>>

LoopDone ==
  /\ Goto("loop", IF run = "QUIT" THEN "cleanup" ELSE "begin")
  /\ run # "RUN"
  /\ UNCHANGED <<submitted, run, port_inited, usbVars, audio, calls, envVars>>
-----------------------------------------------------------------------------
(* main(): exit.  audio_destroy and disconnect use whatever was set up. *)

\* audio_destroy dereferences transfers that were never allocated.  Of those that
\* were it frees the packets while the USB thread still calls them back, and the
\* ring buffer they are pushed into (UsbAudio): what that does to the heap may
\* crash the program too.
Cleanup ==
  /\ \/ Goto("cleanup", "D") /\ (Audio => audio)
     \/ Goto("cleanup", "crashed") /\ Audio
  /\ audio' = FALSE
  /\ UNCHANGED <<submitted, run, port_inited, usbVars, calls, envVars>>

\* Mutant: the thread is not told to end before it is waited for.
CloseNoExit ==
  /\ Goto("close", "join") \/ Goto("close", "free")
  /\ UNCHANGED <<submitted, run, port_inited, usbVars, audio, calls, envVars>>

\* disconnect, after the M8 took the D.  If an interface cannot be released
\* the handle stays open and the thread is left alone.
Close ==
  /\ \/ Goto("close", "join") /\ do_exit' = TRUE
     \/ Goto("close", "free") /\ UNCHANGED do_exit
  /\ UNCHANGED <<submitted, run, port_inited, devh, usb_thread, reading,
                 zerobyte_packets, faulted, audio, calls, envVars>>

Join ==
  /\ Goto("join", "free")
  /\ usb_thread = "ended"
  /\ UNCHANGED <<submitted, run, port_inited, usbVars, audio, calls, envVars>>

\* serial_buf is freed, whatever became of the read into it; SDL_Quit and the end
\* of the process come after that.
FreeBuffer ==
  /\ Goto("free", "quit") \/ Goto("quit", "exit")
  /\ UNCHANGED <<submitted, run, port_inited, usbVars, audio, calls, envVars>>
-----------------------------------------------------------------------------
(* The USB thread: usb_loop, and callback for the serial read. *)

Ended == pc \in {"exit", "crashed"}

Reading == ~Ended /\ usb_thread = "running" /\ reading = "pending"

\* Mutant: the counter of empty packets has no end.
CallbackZeroNoReset ==
  /\ Reading
  /\ ~gone
  /\ zerobyte_packets' = (zerobyte_packets + 1) % 65536
  /\ UNCHANGED <<mainVars, run, port_inited, devh, do_exit, usb_thread, reading,
                 faulted, audio, calls, envVars>>

\* An empty packet.  check_serial_port, asked at every WaitPackets + 1 of them,
\* always answers yes, so callback never gets to the branch that would close
\* the port.
CallbackZero ==
  /\ Reading
  /\ ~gone
  /\ zerobyte_packets' = IF zerobyte_packets + 1 > WaitPackets
                         THEN 0 ELSE zerobyte_packets + 1
  /\ UNCHANGED <<mainVars, run, port_inited, devh, do_exit, usb_thread, reading,
                 faulted, audio, calls, envVars>>

CallbackData ==
  /\ Reading
  /\ ~gone
  /\ zerobyte_packets' = 0
  /\ UNCHANGED <<mainVars, run, port_inited, devh, do_exit, usb_thread, reading,
                 faulted, audio, calls, envVars>>

\* The status is not COMPLETED and the transfer cannot be submitted again.
\* When it can, after a timeout, nothing changes here.
CallbackError ==
  /\ Reading
  /\ gone
  /\ reading' = "dead"
  /\ UNCHANGED <<mainVars, run, port_inited, devh, do_exit, usb_thread,
                 zerobyte_packets, faulted, audio, calls, envVars>>

UsbLoopEnds ==
  /\ ~Ended
  /\ usb_thread = "running"
  /\ do_exit \/ "events" \in Faults
  /\ usb_thread' = "ended"
  /\ faulted' = (faulted \/ ~do_exit)
  /\ UNCHANGED <<mainVars, run, port_inited, devh, do_exit, reading,
                 zerobyte_packets, audio, calls, envVars>>
-----------------------------------------------------------------------------
(* The user. *)

Signal ==
  /\ ~Ended
  /\ run' = "QUIT"
  /\ UNCHANGED <<mainVars, port_inited, usbVars, audio, calls, envVars>>

Unplug ==
  /\ ~Ended
  /\ attached
  /\ unplugs < MaxUnplugs
  /\ attached' = FALSE
  /\ gone' = devh
  /\ display' = FALSE
  /\ unplugs' = unplugs + 1
  /\ UNCHANGED <<wait_for_device, mainVars, run, port_inited, usbVars, audio, calls>>

Plug ==
  /\ ~Ended
  /\ ~attached
  /\ attached' = TRUE
  /\ UNCHANGED <<wait_for_device, mainVars, run, port_inited, usbVars, audio,
                 calls, gone, display, unplugs>>
-----------------------------------------------------------------------------
MainStep ==
  \/ Submit \/ Complete \/ Early \/ InitializeSdl \/ InitPort \/ AudioInit
  \/ SetRun \/ AsyncRead \/ Absent \/ Lost \/ WaitDone \/ LoopDone
  \/ Cleanup \/ Close \/ Join \/ FreeBuffer

UsbThread == CallbackZero \/ CallbackData \/ CallbackError \/ UsbLoopEnds

User == WaitQuit \/ LoopInput \/ Signal \/ Unplug \/ Plug

Next == MainStep \/ PollFound \/ PollFailed \/ UsbThread \/ User

Spec == Init /\ [][Next]_vars

\* The main thread never stops by itself; a program that polls an attached M8
\* again and again finds it; libusb reports the failed read of an unplugged
\* device; libusb_close wakes the USB thread, which then sees do_exit.
FairSpec ==
  /\ Spec
  /\ WF_vars(MainStep)
  /\ SF_vars(PollFound)
  /\ WF_vars(CallbackError)
  /\ WF_vars(do_exit /\ UsbLoopEnds)
-----------------------------------------------------------------------------
TypeOK ==
  /\ wait_for_device \in BOOLEAN
  /\ pc \in Writes \cup {"early", "sdl", "begin", "audio1", "run1", "read1",
                        "absent", "wait", "audio2", "run2", "read2", "lost",
                        "loop", "cleanup", "close", "join", "free", "quit",
                        "exit", "crashed"}
  /\ submitted \in BOOLEAN
  /\ submitted => pc \in Writes
  /\ run \in {"QUIT", "WAIT", "RUN"}
  /\ port_inited \in BOOLEAN
  /\ devh \in BOOLEAN
  /\ do_exit \in BOOLEAN
  /\ usb_thread \in {"none", "running", "ended"}
  /\ reading \in {"none", "pending", "dead"}
  /\ zerobyte_packets \in 0 .. WaitPackets
  /\ faulted \in BOOLEAN
  /\ audio \in BOOLEAN
  /\ calls \in [thread : Nat, read : Nat, audio : Nat]
  /\ attached \in BOOLEAN
  /\ gone \in BOOLEAN
  /\ display \in BOOLEAN
  /\ unplugs \in 0 .. MaxUnplugs

\* However main() came to the main loop, it serves an M8 that took the E and
\* the R, with a USB thread to complete its writes and one read submitted.
LoopReady ==
  pc = "C" \/ (pc = "loop" /\ run = "RUN") =>
    /\ devh
    /\ usb_thread # "none"
    /\ calls.read = 1
    /\ gone \/ display

\* The retries of main() start nothing twice: no second USB thread handles
\* events, no second read transfer feeds the SLIP decoder out of order, and no
\* second set of audio transfers replaces the one in flight.
StartedOnce == calls.thread <= 1 /\ calls.read <= 1 /\ calls.audio <= 1

\* A write to the M8 has a thread to complete it.  That is so unless the program
\* goes on after one of three faults: init_interface failed and the handle stayed
\* open (usb.c:219), there is no thread (usb.c:158), or libusb_handle_events
\* failed and the thread ended (usb.c:31-33).  A write then never returns.
WriteIsServed == submitted /\ ~faulted => usb_thread = "running"

\* The program crashes in the clean up only.  No write of main() before that goes
\* to a handle that was not opened, whichever of init_serial, enabling, resetting
\* and audio failed before it, now or at an earlier poll (main.c:184-252).
CrashesAtExit == [][pc' = "crashed" => pc \in {"cleanup", "D", "crashed"}]_vars

\* A request to quit in the main loop ends the program, whatever the M8 does,
\* unless one of those faults happened.  It may end in a crash of the clean up.
QuitEnds == pc = "loop" /\ run = "QUIT" ~> Ended \/ faulted

\* The polls find an M8 that stays plugged in, except when it was opened at the
\* start and did not answer, for then main() does not poll.
PollsFind == pc = "wait" ~> pc # "wait" \/ ~attached \/ port_inited
-----------------------------------------------------------------------------
(* What comments of main.c say, and the code does not do. *)

\* zerobyte_packets is "used to detect device disconnection" (main.c:31): an
\* M8 that was unplugged does not leave the program in the main loop.
DisconnectDetected == pc = "loop" /\ gone ~> run # "RUN"
=============================================================================
