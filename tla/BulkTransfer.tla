---------------------------- MODULE BulkTransfer -----------------------------
(***************************************************************************)
(* A blocking write in detail: how bulk_transfer in usb.c waits for the    *)
(* USB thread.  The waiting thread holds libusb's lock of event waiters    *)
(* while it looks at completed and asks whether somebody handles events,   *)
(* and gives it back while it sleeps; when the USB thread has handled      *)
(* events it takes this lock to wake the sleepers.                         *)
(*                                                                         *)
(* All else is as in Lifecycle, which this module implements: a write is   *)
(* completed there when the USB thread stores completed here.              *)
(***************************************************************************)
EXTENDS Lifecycle

VARIABLES
  waiter,     \* bulk_transfer after the submission: "out", at "retry", at the
              \* "test" of completed, about to "ask" for a handler, "asleep"
  completed,  \* "no", or how the transfer ended: "taken" or "failed"
  handler     \* usb_loop: "out" of libusb_handle_events, "entering" it,
              \* "waiting" for events in it, has "handled" some, or is about to
              \* "wake" the waiters

waitVars == <<waiter, completed>>
bulkVars == <<vars, waitVars, handler>>

BulkInit == Init /\ waiter = "out" /\ completed = "no" /\ handler = "out"

-----------------------------------------------------------------------------
(* bulk_transfer, in the main thread. *)

Submitted ==
  /\ Submit
  /\ waiter' = IF submitted' THEN "retry" ELSE "out"
  /\ UNCHANGED <<completed, handler>>

\* libusb_lock_event_waiters.  The USB thread only holds the lock for a moment.
Retry ==
  /\ waiter = "retry"
  /\ waiter' = "test"
  /\ UNCHANGED <<vars, completed, handler>>

Test ==
  /\ waiter = "test"
  /\ completed = "no"
  /\ waiter' = "ask"
  /\ UNCHANGED <<vars, completed, handler>>

libusb_event_handler_active == handler \in {"waiting", "handled"}

\* Mutant: the case that nobody handles events is forgotten.
AskHandler ==
  /\ waiter = "ask"
  /\ libusb_event_handler_active
  /\ waiter' = "asleep"
  /\ UNCHANGED <<vars, completed, handler>>

\* libusb_wait_for_event gives the lock back while it sleeps.
Ask ==
  /\ waiter = "ask"
  /\ waiter' = IF libusb_event_handler_active THEN "asleep" ELSE "retry"
  /\ UNCHANGED <<vars, completed, handler>>

\* Where the write ends.
Returned == IF completed = "taken" THEN Success(pc) ELSE Failure(pc)

\* Mutant: whoever wakes up believes that his transfer is complete.
FinishUntested ==
  /\ waiter = "test"
  /\ waiter' = "out"
  /\ completed' = "no"
  /\ submitted' = FALSE
  /\ pc' = Returned
  /\ UNCHANGED <<run, port_inited, usbVars, audio, calls, envVars, handler>>

Finish ==
  /\ waiter = "test"
  /\ completed # "no"
  /\ waiter' = "out"
  /\ completed' = "no"
  /\ submitted' = FALSE
  /\ pc' = Returned
  /\ UNCHANGED <<run, port_inited, usbVars, audio, calls, envVars, handler>>

\* Mutant: the lock is given back after completed was tested.
LockedForTest == waiter = "test"

\* The waiting thread has the lock of event waiters.
Locked == waiter \in {"test", "ask"}

-----------------------------------------------------------------------------
(* The USB thread. *)

UsbRuns == ~Ended /\ usb_thread = "running"

\* The test of do_exit in usb_loop.
LoopTest ==
  /\ UsbRuns
  /\ handler = "out"
  /\ ~do_exit
  /\ handler' = "entering"
  /\ UNCHANGED <<vars, waitVars>>

LoopEnds ==
  /\ handler = "out"
  /\ UsbLoopEnds
  /\ UNCHANGED <<waitVars, handler>>

HandleEvents ==
  /\ UsbRuns
  /\ handler = "entering"
  /\ handler' = "waiting"
  /\ UNCHANGED <<vars, waitVars>>

\* The completion callback of the write.
xfr_cb_in ==
  /\ UsbRuns
  /\ libusb_event_handler_active
  /\ submitted
  /\ completed = "no"
  /\ \/ /\ ~gone
        /\ completed' = "taken"
        /\ display' = IF pc = "D" THEN FALSE ELSE display \/ pc \in {"E1", "E2"}
     \/ completed' = "failed" /\ UNCHANGED display
  /\ handler' = "handled"
  /\ UNCHANGED <<wait_for_device, mainVars, run, port_inited, usbVars, audio, calls,
                 attached, gone, unplugs, waiter>>

\* The callback of the serial read.
ReadError ==
  /\ libusb_event_handler_active
  /\ CallbackError
  /\ handler' = "handled"
  /\ UNCHANGED waitVars

ReadCallback ==
  /\ libusb_event_handler_active
  /\ CallbackZero \/ CallbackData
  /\ handler' = "handled"
  /\ UNCHANGED waitVars

\* libusb_handle_events has handled something, or it was interrupted by
\* libusb_close, or its 60 seconds are over.
HandlerReturns ==
  /\ UsbRuns
  /\ libusb_event_handler_active
  /\ handler' = "wake"
  /\ UNCHANGED <<vars, waitVars>>

Broadcast ==
  /\ UsbRuns
  /\ handler = "wake"
  /\ ~Locked
  /\ handler' = "out"
  /\ waiter' = IF waiter = "asleep" THEN "retry" ELSE waiter
  /\ UNCHANGED <<vars, completed>>

-----------------------------------------------------------------------------
BulkMain ==
  \/ Submitted \/ Retry \/ Test \/ Ask \/ Finish
  \/ /\ \/ Early \/ InitializeSdl \/ InitPort \/ AudioInit \/ SetRun \/ AsyncRead
        \/ Absent \/ Lost \/ WaitDone \/ LoopDone \/ Cleanup \/ Close \/ Join
        \/ FreeBuffer
     /\ UNCHANGED <<waitVars, handler>>

Found == PollFound /\ UNCHANGED <<waitVars, handler>>

BulkUser == PollFailed \/ User

BulkNext ==
  \/ BulkMain \/ Found
  \/ BulkUser /\ UNCHANGED <<waitVars, handler>>
  \/ LoopTest \/ LoopEnds \/ HandleEvents \/ xfr_cb_in \/ ReadError \/ ReadCallback
  \/ HandlerReturns \/ Broadcast

BulkSpec == BulkInit /\ [][BulkNext]_bulkVars

\* What usb_loop does whether or not it was told to end, and then.
EventLoop == LoopTest \/ HandleEvents \/ (handler = "handled" /\ HandlerReturns)

LoopExit == do_exit /\ (HandlerReturns \/ LoopEnds)

\* As in Lifecycle; neither thread stops outside the calls that wait; libusb
\* ends a write, at the latest after its timeout of 5 ms; the USB thread gets
\* the lock of event waiters, which the waiting thread gives back again and
\* again.  That libusb_handle_events returns without an event is only relied on
\* at the end, where libusb_close interrupts it or, if the USB thread has just
\* tested do_exit, the 60 seconds go by.
BulkFairSpec ==
  /\ BulkSpec
  /\ WF_bulkVars(BulkMain)
  /\ SF_bulkVars(Found)
  /\ WF_bulkVars(EventLoop)
  /\ WF_bulkVars(LoopExit)
  /\ SF_bulkVars(xfr_cb_in)
  /\ SF_bulkVars(ReadError)
  /\ SF_bulkVars(Broadcast)

-----------------------------------------------------------------------------
\* Only a submitted write is waited for, and only the main thread waits.
BulkTypeOK ==
  /\ TypeOK
  /\ waiter \in {"out", "retry", "test", "ask", "asleep"}
  /\ completed \in {"no", "taken", "failed"}
  /\ handler \in {"out", "entering", "waiting", "handled", "wake"}
  /\ submitted <=> waiter # "out"
  /\ completed # "no" => submitted

\* The wait of bulk_transfer is the two steps of a write of Lifecycle: it ends
\* with the result the USB thread stored, and neither before that nor never
\* (usb.c:41-44, 61-70).
L == INSTANCE Lifecycle WITH
  pc        <- IF completed = "no" THEN pc ELSE Returned,
  submitted <- submitted /\ completed = "no"

IsLifecycle == L!FairSpec

\* What main() waits for: to be woken, for an M8, for the user, for the USB thread.
MainWaits ==
  \/ waiter = "asleep"
  \/ pc = "wait" /\ run = "WAIT"
  \/ pc = "loop" /\ run = "RUN"
  \/ pc = "join" /\ usb_thread # "ended"
  \/ Ended

\* At every other place of main() the main thread can go on, whatever failed
\* before; and so can usb_loop and the callbacks it runs, except for the lock the
\* waiting main thread holds (usb.c:29-44, 61-70).
NothingElseBlocks ==
  /\ MainWaits \/ ENABLED <<BulkMain>>_bulkVars
  /\ Polling /\ attached => ENABLED <<Found>>_bulkVars
  /\ UsbRuns =>
       /\ handler \in {"entering", "handled"} \/ (handler = "out" /\ ~do_exit) =>
            ENABLED <<EventLoop>>_bulkVars
       /\ do_exit /\ handler \in {"out", "waiting", "handled"} =>
            ENABLED <<LoopExit>>_bulkVars
       /\ libusb_event_handler_active /\ submitted /\ completed = "no" =>
            ENABLED <<xfr_cb_in>>_bulkVars
       /\ handler = "wake" /\ ~Locked => ENABLED <<Broadcast>>_bulkVars

\* The main thread does not sleep through the completion of its write: no
\* wake-up is lost between its tests and its sleep, although completed is
\* stored without the lock (usb.c:62-70).
WriteReturns == submitted ~> ~submitted \/ faulted
=============================================================================
