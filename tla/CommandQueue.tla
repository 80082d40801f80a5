---------------------------- MODULE CommandQueue ----------------------------
(***************************************************************************)
(* The queue of draw commands in main.c.  The SLIP decoder, in the USB     *)
(* thread, calls pullCommand for each packet; the main loop, in the main   *)
(* thread, calls popCommand until it returns 0, then shows the screen and  *)
(* polls the user's input.                                                 *)
(* The two share two arrays, two cursors and the heap, with no lock: each  *)
(* access to them is a step of its own here.                               *)
(*                                                                         *)
(* Packets are numbered in the order in which they arrive.  A buffer is    *)
(* the number of the packet it was allocated for, and a stored size is the *)
(* number of the packet it is the size of, so that buffer and size fit     *)
(* when they are equal.                                                    *)
(***************************************************************************)
EXTENDS Integers, FiniteSets

CONSTANTS
  command_size,   \* the slots of the queue
  MaxPackets      \* packets in a behaviour, at most

ASSUME QueueAssumption ==
  /\ command_size \in Nat \ {0}
  /\ MaxPackets \in Nat

VARIABLES
  command,         \* a buffer or NULL in each slot
  command_sizes,   \* its size
  writeCursor, readCursor,
  live,            \* the buffers that are allocated
  writer,          \* pullCommand: its place and the packet it was called with
  pending,         \* its stores that the main thread does not see yet
  ordered,         \* so far the main thread saw all stores in program order
  reader,          \* the main loop: place, pointer and size of the command, and
                   \* whether they were read before they were stored
  draws,           \* commands drawn since the screen was last shown
  shown            \* commands on the screen

vars == <<command, command_sizes, writeCursor, readCursor, live, writer,
          pending, ordered, reader, draws, shown>>

Slot == 0 .. command_size - 1

NULL == -1

Packet == 0 .. MaxPackets - 1

\* main leaves both arrays as malloc returns them.  A block of this size comes
\* fresh from the system, so its bytes are zero.
Init ==
  /\ command = [i \in Slot |-> NULL]
  /\ command_sizes = [i \in Slot |-> NULL]
  /\ writeCursor = 0
  /\ readCursor = 0
  /\ live = {}
  /\ writer = [pc |-> "idle", packet |-> 0]
  /\ pending = {}
  /\ ordered = TRUE
  /\ reader = [pc |-> "idle", data |-> NULL, size |-> NULL, early |-> FALSE]
  /\ draws = 0
  /\ shown = 0

readerVars == <<readCursor, reader, draws, shown>>
-----------------------------------------------------------------------------
(* pullCommand, in the USB thread. *)

\* malloc and memcpy, at the call.  Nothing in pullCommand looks at readCursor:
\* the M8 can be any number of commands ahead of the drawing.
PushAllocate ==
  /\ writer.pc = "idle"
  /\ writeCursor \in Packet
  /\ writer' = [pc |-> "free", packet |-> writeCursor]
  /\ live' = live \cup {writeCursor}
  /\ UNCHANGED <<command, command_sizes, writeCursor, pending, ordered, readerVars>>

\* Mutant: the buffer the slot held is not freed.
PushNoFree ==
  /\ writer.pc = "free"
  /\ writer' = [writer EXCEPT !.pc = "store"]
  /\ pending' = {"command", "size", "cursor"}
  /\ UNCHANGED <<command, command_sizes, writeCursor, live, ordered, readerVars>>

\* The buffer the slot held before is freed.
PushFree ==
  /\ writer.pc = "free"
  /\ live' = live \ {command[writer.packet % command_size]}
  /\ writer' = [writer EXCEPT !.pc = "store"]
  /\ pending' = {"command", "size", "cursor"}
  /\ UNCHANGED <<command, command_sizes, writeCursor, ordered, readerVars>>

\* Mutant: the cursor goes up before the slot is filled.
CursorFirst(store) ==
  /\ store = "command" => "cursor" \notin pending
  /\ store = "size"    => pending = {"size"}

\* In program order the pointer comes first, then the size, then the cursor.
ProgramOrder(store) ==
  /\ store = "size"   => "command" \notin pending
  /\ store = "cursor" => pending = {"cursor"}

\* The store becomes visible to the main thread.  Neither the compiler nor the
\* processor has to keep the order of these plain stores.
Stored(store) ==
  /\ store \in pending
  /\ pending' = pending \ {store}
  /\ ordered' = (ordered /\ ProgramOrder(store))
  /\ writer' = [writer EXCEPT !.pc = IF pending = {store} THEN "idle" ELSE "store"]

StoreCommand ==
  /\ Stored("command")
  /\ command' = [command EXCEPT ![writer.packet % command_size] = writer.packet]
  /\ UNCHANGED <<command_sizes, writeCursor, live, readerVars>>

StoreSize ==
  /\ Stored("size")
  /\ command_sizes' = [command_sizes EXCEPT ![writer.packet % command_size] = writer.packet]
  /\ UNCHANGED <<command, writeCursor, live, readerVars>>

StoreCursor ==
  /\ Stored("cursor")
  /\ writeCursor' = writer.packet + 1
  /\ UNCHANGED <<command, command_sizes, live, readerVars>>
-----------------------------------------------------------------------------
(* popCommand and the main loop, in the main thread. *)

writerVars == <<command, command_sizes, writeCursor, live, writer, pending, ordered>>

PopSome ==
  /\ reader.pc = "idle"
  /\ writeCursor - readCursor # 0
  /\ reader' = [reader EXCEPT !.pc = "data"]
  /\ UNCHANGED <<writerVars, readCursor, draws, shown>>

\* The store is one of the packet in the reader's hands, which does not see it.
Unseen(store) == store \in pending /\ writer.packet = readCursor

PopData ==
  /\ reader.pc = "data"
  /\ reader' = [reader EXCEPT !.pc = "size",
                              !.data = command[readCursor % command_size],
                              !.early = Unseen("command")]
  /\ UNCHANGED <<writerVars, readCursor, draws, shown>>

\* Mutant: the cursor has gone up when the size is read.
PopSizeNext ==
  /\ reader.pc = "size"
  /\ reader' = [reader EXCEPT !.pc = "advance",
                              !.size = command_sizes[(readCursor + 1) % command_size],
                              !.early = @ \/ Unseen("size")]
  /\ UNCHANGED <<writerVars, readCursor, draws, shown>>

PopSize ==
  /\ reader.pc = "size"
  /\ reader' = [reader EXCEPT !.pc = "advance",
                              !.size = command_sizes[readCursor % command_size],
                              !.early = @ \/ Unseen("size")]
  /\ UNCHANGED <<writerVars, readCursor, draws, shown>>

PopAdvance ==
  /\ reader.pc = "advance"
  /\ readCursor' = readCursor + 1
  /\ reader' = [reader EXCEPT !.pc = "draw"]
  /\ UNCHANGED <<writerVars, draws, shown>>

\* process_command copies the buffer, then draws from its copy.
Draw ==
  /\ reader.pc = "draw"
  /\ draws' = draws + 1
  /\ reader' = [reader EXCEPT !.pc = "idle"]
  /\ UNCHANGED <<writerVars, readCursor, shown>>

\* Mutant: the screen is shown only while commands are still waiting.
ShowWhileBusy ==
  /\ reader.pc = "idle"
  /\ writeCursor - readCursor # 0
  /\ draws > 0
  /\ shown' = shown + draws
  /\ draws' = 0
  /\ UNCHANGED <<writerVars, readCursor, reader>>

\* popCommand returned 0: render_screen, if anything was drawn.
Show ==
  /\ reader.pc = "idle"
  /\ writeCursor - readCursor = 0
  /\ shown' = shown + draws
  /\ draws' = 0
  /\ reader' = [reader EXCEPT !.pc = "input"]
  /\ UNCHANGED <<writerVars, readCursor>>

\* SDL_Delay, and then get_input_msg and what is to be done about the input.
PollInput ==
  /\ reader.pc = "input"
  /\ reader' = [reader EXCEPT !.pc = "idle"]
  /\ UNCHANGED <<writerVars, readCursor, draws, shown>>
-----------------------------------------------------------------------------
Write == PushAllocate \/ PushFree \/ StoreCommand \/ StoreSize \/ StoreCursor

Read == PopSome \/ PopData \/ PopSize \/ PopAdvance \/ Draw \/ Show \/ PollInput

Next == Write \/ Read

Spec == Init /\ [][Next]_vars

\* Neither thread stops within a call, and the main loop comes back to
\* popCommand every idle_ms.  The M8 need not send.
FairSpec ==
  /\ Spec
  /\ WF_vars(PushFree \/ StoreCommand \/ StoreSize \/ StoreCursor)
  /\ WF_vars(Read)
-----------------------------------------------------------------------------
TypeOK ==
  /\ command \in [Slot -> Packet \cup {NULL}]
  /\ command_sizes \in [Slot -> Packet \cup {NULL}]
  /\ writeCursor \in 0 .. MaxPackets
  /\ readCursor \in 0 .. MaxPackets
  /\ live \subseteq Packet
  /\ writer \in [pc : {"idle", "free", "store"}, packet : 0 .. MaxPackets]
  /\ pending \subseteq {"command", "size", "cursor"}
  /\ ordered \in BOOLEAN
  /\ reader \in [pc : {"idle", "data", "size", "advance", "draw", "input"},
                 data : Packet \cup {NULL}, size : Packet \cup {NULL},
                 early : BOOLEAN]
  /\ draws \in Nat
  /\ shown \in Nat

\* "process the incoming bytes into commands and draw them" (main.c:85): each
\* command is drawn once and in the order of arrival, with its own size and from
\* a buffer that is not freed while it is read.  pullCommand gives no such
\* promise: it neither waits for a free slot nor orders its stores.
DrawsEach ==
  reader.pc = "draw" =>
    /\ reader.data = readCursor - 1
    /\ reader.size = reader.data
    /\ reader.data \in live

\* The packets pullCommand has been called with.
Called == IF writer.pc = "idle" THEN writeCursor ELSE writer.packet + 1

\* The slot of a packet went, or goes in this call, to a later one.
Lapped(packet) == Called > packet + command_size

\* Those two are all that ever goes wrong between the threads: the command that
\* is drawn is the next one, with its own size and a buffer of its own, unless
\* the M8 got a whole queue ahead of the drawing before it was drawn, or the
\* main thread saw the cursor go up before the stores that came first.
DrawsNext == ~Lapped(readCursor - 1) /\ ~reader.early => DrawsEach

\* The buffers that some slots point to.
Kept(slots) == {command[i] : i \in slots} \ {NULL}

\* No buffer is leaked and none is freed twice: between two calls of
\* pullCommand the allocated buffers are those the slots point to.
NoLeak == writer.pc = "idle" => live = Kept(Slot)

\* The main loop catches up: as many commands as were queued are drawn and shown
\* in the end.  Only a burst that never ends, in which popCommand never returns
\* 0, keeps them from the screen; every burst ends here with MaxPackets.
AllShown == \A packet \in Packet : writeCursor > packet ~> shown > packet
-----------------------------------------------------------------------------
(* Why that holds. *)

\* The packet the main thread needs next, or is drawing.
Oldest == IF reader.pc = "draw" THEN readCursor - 1 ELSE readCursor

\* The reading cursor stays behind the writing one, which goes up once a call.
CursorInv ==
  /\ readCursor <= writeCursor
  /\ writer.pc # "idle" =>
       /\ writer.packet \in Packet
       /\ writeCursor = IF writer.pc = "store" /\ "cursor" \notin pending
                          THEN writer.packet + 1
                          ELSE writer.packet
  /\ reader.pc \in {"data", "size", "advance"} => readCursor < writeCursor
  /\ reader.pc = "draw" => readCursor > 0

\* As long as stores become visible in program order the cursor comes last.
StoreInv ==
  /\ writer.pc = "store" <=> pending # {}
  /\ ordered =>
       /\ "command" \in pending => "size" \in pending
       /\ "size" \in pending => "cursor" \in pending

\* The packet is being queued, and this store of it is not visible.
Unstored(store, packet) ==
  writer.packet = packet /\ (writer.pc = "free" \/ store \in pending)

\* A slot holds no packet of another slot, and none that is yet to be stored.
SlotInv ==
  \A i \in Slot : command[i] # NULL =>
    /\ command[i] % command_size = i
    /\ command[i] < Called
    /\ ~Unstored("command", command[i])

\* Each of the last command_size packets has its buffer, and is in its slot with
\* its size once they are stored.
RecentInv ==
  \A packet \in Packet : packet < Called /\ ~Lapped(packet) =>
    /\ packet \in live
    /\ ~Unstored("command", packet) => command[packet % command_size] = packet
    /\ ~Unstored("size", packet) => command_sizes[packet % command_size] = packet

\* What the main thread has read of a packet is right, unless it was too early or
\* too late; and it is never too early when the stores were seen in order.
ReaderInv ==
  /\ ordered => ~reader.early
  /\ ~Lapped(Oldest) /\ ~reader.early =>
       /\ reader.pc \in {"size", "advance", "draw"} => reader.data = Oldest
       /\ reader.pc \in {"advance", "draw"} => reader.size = Oldest

\* During a call the new buffer is allocated too, and from the free to the store
\* of the pointer its slot points to a buffer that is gone.
LeakInv ==
  /\ NoLeak
  /\ writer.pc = "free" => live = Kept(Slot) \cup {writer.packet}
  /\ writer.pc = "store" =>
       live = Kept(Slot \ {writer.packet % command_size}) \cup {writer.packet}

QueueInv ==
  TypeOK /\ CursorInv /\ StoreInv /\ SlotInv /\ RecentInv /\ ReaderInv
=============================================================================
