------------------------- MODULE CommandQueueProofs -------------------------
(***************************************************************************)
(* Theorems about the queue of draw commands, for every length of the      *)
(* queue, every number of packets, and stores that become visible in any   *)
(* order.                                                                  *)
(***************************************************************************)
EXTENDS CommandQueue, TLAPS

\* The remainder of the division of a cursor by the length of the queue.
LEMMA Remainder ==
  ASSUME NEW a \in Nat
  PROVE  /\ a % command_size \in 0 .. command_size - 1
         /\ a \div command_size \in Int
         /\ a = command_size * (a \div command_size) + (a % command_size)
  BY QueueAssumption, SMT

\* A packet has a slot.
LEMMA PacketSlot ==
  ASSUME NEW packet \in Nat
  PROVE  packet % command_size \in Slot
  BY Remainder DEF Slot

\* Two packets less than a queue length apart are in different slots: their
\* distance is no multiple of it.
LEMMA SlotsApart ==
  ASSUME NEW a \in Nat, NEW b \in Nat, a < b, b < a + command_size
  PROVE  a % command_size # b % command_size
<1> SUFFICES ASSUME a % command_size = b % command_size
             PROVE  FALSE
  OBVIOUS
<1> DEFINE p == a \div command_size
           q == b \div command_size
           c == q - p - 1
<1>1. /\ p \in Int /\ q \in Int /\ command_size \in Nat \ {0}
      /\ b - a = command_size * q - command_size * p
  BY Remainder, QueueAssumption
<1>2. c \in Int /\ q = p + c + 1
  BY <1>1
<1> HIDE DEF p, q, c
<1>3. command_size * (p + c + 1) = command_size * p + command_size * c + command_size
  BY <1>1, <1>2, SMT
<1>4. b - a = command_size * c + command_size /\ command_size * c \in Int
  BY <1>1, <1>2, <1>3, SMT
<1>5. CASE c >= 0
  <2>1. command_size * c >= 0
    BY <1>1, <1>2, <1>5, SMT
  <2> QED
    BY <1>1, <1>4, <2>1
<1>6. CASE c < 0
  <2> DEFINE d == -c - 1
  <2>1. d \in Nat /\ c = -d - 1
    BY <1>2, <1>6
  <2> HIDE DEF d
  <2>2. command_size * d >= 0 /\ command_size * d \in Int
    BY <1>1, <2>1, SMT
  <2>3. command_size * (-d - 1) = -(command_size * d) - command_size
    BY <1>1, <2>1, SMT
  <2> QED
    BY <1>1, <1>4, <2>1, <2>2, <2>3
<1> QED
  BY <1>2, <1>5, <1>6

LEMMA InitQueueInv == Init => QueueInv
<1> SUFFICES ASSUME Init PROVE QueueInv
  OBVIOUS
<1> USE QueueAssumption DEF Init, Slot, NULL, Packet
<1>1. TypeOK
  BY DEF TypeOK
<1>2. CursorInv /\ StoreInv /\ SlotInv /\ ReaderInv
  BY DEF CursorInv, StoreInv, SlotInv, ReaderInv
<1>3. RecentInv
  BY DEF RecentInv, Called
<1> QED BY <1>1, <1>2, <1>3 DEF QueueInv

\* What a step that leaves the writer alone keeps of the invariant.
LEMMA WriterKept ==
  ASSUME QueueInv, UNCHANGED writerVars
  PROVE  StoreInv' /\ SlotInv' /\ RecentInv'
<1> USE DEF QueueInv, writerVars
<1>1. StoreInv'
  BY DEF StoreInv
<1>2. Called' = Called /\ \A packet : Lapped(packet)' = Lapped(packet)
  BY DEF Called, Lapped
<1>3. \A store, packet : Unstored(store, packet)' = Unstored(store, packet)
  BY DEF Unstored
<1>4. SlotInv'
  BY <1>2, <1>3 DEF SlotInv
<1>5. RecentInv'
  BY <1>2, <1>3 DEF RecentInv
<1> QED BY <1>1, <1>4, <1>5

\* The call of pullCommand under way, if there is one, is the last.
LEMMA CallFacts ==
  ASSUME QueueInv
  PROVE  /\ Called \in Nat
         /\ readCursor \in Nat /\ writeCursor \in Nat /\ writeCursor <= Called
         /\ Oldest \in Nat
         /\ writer.pc # "idle" =>
              /\ writer.packet \in Packet
              /\ writer.packet \in Nat
              /\ Called = writer.packet + 1
              /\ writer.packet % command_size \in Slot
<1> USE QueueAssumption DEF QueueInv, TypeOK, CursorInv, Packet
<1>1. writer.pc # "idle" => writer.packet % command_size \in Slot
  BY PacketSlot
<1> QED BY <1>1 DEF Called, Oldest

LEMMA AllocateStep ==
  ASSUME QueueInv, PushAllocate
  PROVE  QueueInv'
<1> USE QueueAssumption DEF QueueInv, PushAllocate, readerVars
<1>0. /\ writer'.pc = "free" /\ writer'.packet = writeCursor
      /\ writeCursor \in Nat /\ pending = {} /\ pending' = {}
      /\ Called = writeCursor /\ Called' = writeCursor + 1
  BY DEF TypeOK, Packet, Called, StoreInv
<1>1. TypeOK'
  BY DEF TypeOK, Packet, NULL
<1>2. CursorInv'
  BY DEF TypeOK, CursorInv, Packet
<1>3. StoreInv'
  BY DEF TypeOK, StoreInv
<1>4. SlotInv'
  <2> SUFFICES ASSUME NEW i \in Slot, command[i] # NULL
               PROVE  /\ command[i] < Called'
                      /\ ~Unstored("command", command[i])'
    BY DEF SlotInv
  <2>1. command[i] \in Nat /\ command[i] < writeCursor
    BY <1>0 DEF SlotInv, TypeOK, Packet
  <2> QED BY <1>0, <2>1 DEF Unstored
<1>5. RecentInv'
  <2> SUFFICES ASSUME NEW packet \in Packet, packet < Called', ~Lapped(packet)'
               PROVE  /\ packet \in live'
                      /\ ~Unstored("command", packet)' => command[packet % command_size] = packet
                      /\ ~Unstored("size", packet)' => command_sizes[packet % command_size] = packet
    BY DEF RecentInv
  <2>1. CASE packet = writeCursor
    BY <1>0, <2>1 DEF Unstored
  <2>2. CASE packet # writeCursor
    <3>1. packet < Called /\ ~Lapped(packet)
      BY <1>0, <2>2 DEF Lapped, Packet
    <3>2. ~Unstored("command", packet) /\ ~Unstored("size", packet)
      BY <1>0 DEF Unstored
    <3> QED BY <3>1, <3>2 DEF RecentInv
  <2> QED BY <2>1, <2>2
<1>6. ReaderInv'
  <2>1. Oldest' = Oldest /\ Oldest \in Nat
    BY CallFacts DEF Oldest
  <2>2. Lapped(Oldest) => Lapped(Oldest)'
    BY <1>0, <2>1 DEF Lapped
  <2> QED BY <2>1, <2>2 DEF ReaderInv
<1> QED BY <1>1, <1>2, <1>3, <1>4, <1>5, <1>6

\* The buffer that is freed is at least a whole queue older than the packet that
\* is being queued.
LEMMA FreeStep ==
  ASSUME QueueInv, PushFree
  PROVE  QueueInv'
<1> USE QueueAssumption DEF QueueInv, PushFree, readerVars
<1> DEFINE old == command[writer.packet % command_size]
<1>0. /\ writer.packet \in Nat /\ writer.packet \in Packet
      /\ writer.packet % command_size \in Slot
      /\ Called = writer.packet + 1 /\ Called' = Called
      /\ writer'.pc = "store" /\ writer'.packet = writer.packet
      /\ pending = {}
  BY CallFacts DEF TypeOK, Called, StoreInv
<1>1. \A packet : Lapped(packet)' = Lapped(packet)
  BY <1>0 DEF Lapped
<1>2. \A store \in {"command", "size", "cursor"} : \A packet :
        Unstored(store, packet)' = Unstored(store, packet)
  BY <1>0 DEF Unstored
<1>3. ASSUME NEW packet \in Packet, packet < Called, ~Lapped(packet)
      PROVE  packet # old
  <2> SUFFICES ASSUME packet = old PROVE FALSE
    OBVIOUS
  <2>1. /\ packet \in Nat /\ packet # NULL
        /\ packet % command_size = writer.packet % command_size
        /\ packet # writer.packet
    BY <1>0 DEF SlotInv, Unstored, Packet, NULL
  <2>2. packet < writer.packet /\ writer.packet < packet + command_size
    BY <1>0, <1>3, <2>1 DEF Lapped
  <2> QED BY <1>0, <2>1, <2>2, SlotsApart
<1> HIDE DEF old
<1>4. live' = live \ {old}
  BY DEF old
<1>5. TypeOK'
  BY <1>4 DEF TypeOK, Packet, NULL
<1>6. CursorInv'
  BY <1>0 DEF TypeOK, CursorInv
<1>7. StoreInv'
  BY <1>0 DEF StoreInv
<1>8. SlotInv'
  BY <1>0, <1>2 DEF SlotInv
<1>9. RecentInv'
  BY <1>0, <1>1, <1>2, <1>3, <1>4 DEF RecentInv
<1>10. ReaderInv'
  BY <1>1 DEF ReaderInv, Oldest
<1> QED BY <1>5, <1>6, <1>7, <1>8, <1>9, <1>10

\* What the three stores have in common.  The slot they write held none of the
\* other packets of the last round.
LEMMA StoreFacts ==
  ASSUME QueueInv, NEW store \in {"command", "size", "cursor"}, Stored(store)
  PROVE  /\ writer.pc = "store"
         /\ writer.packet \in Nat /\ writer.packet \in Packet
         /\ writer.packet % command_size \in Slot
         /\ writer'.packet = writer.packet
         /\ writer'.pc \in {"idle", "store"}
         /\ Called = writer.packet + 1
         /\ pending' \subseteq {"command", "size", "cursor"}
         /\ writer'.pc = "store" <=> pending' # {}
         /\ \A s, packet : Unstored(s, packet)' <=> Unstored(s, packet) /\ s # store
         /\ ~Lapped(writer.packet)
         /\ \A packet \in Packet :
              packet < Called /\ ~Lapped(packet) /\ packet # writer.packet =>
                packet % command_size # writer.packet % command_size
<1> USE QueueAssumption DEF QueueInv, Stored
<1>1. writer.pc = "store"
  BY DEF StoreInv
<1>2. /\ writer.packet \in Nat /\ writer.packet \in Packet
      /\ writer.packet % command_size \in Slot
      /\ Called = writer.packet + 1
  BY <1>1, CallFacts
<1>3. /\ writer'.packet = writer.packet
      /\ writer'.pc = IF pending = {store} THEN "idle" ELSE "store"
      /\ pending' = pending \ {store}
      /\ pending \subseteq {"command", "size", "cursor"}
  BY <1>1 DEF TypeOK
<1>4. writer'.pc \in {"idle", "store"} /\ (writer'.pc = "store" <=> pending' # {})
  BY <1>3
<1>5. \A s, packet : Unstored(s, packet)' <=> Unstored(s, packet) /\ s # store
  BY <1>1, <1>3, <1>4 DEF Unstored
<1>6. ~Lapped(writer.packet)
  BY <1>2 DEF Lapped
<1>7. ASSUME NEW packet \in Packet, packet < Called, ~Lapped(packet), packet # writer.packet
      PROVE  packet % command_size # writer.packet % command_size
  <2>1. packet \in Nat /\ packet < writer.packet /\ writer.packet < packet + command_size
    BY <1>2, <1>7 DEF Lapped, Packet
  <2> QED BY <1>2, <2>1, SlotsApart
<1> QED BY <1>1, <1>2, <1>3, <1>4, <1>5, <1>6, <1>7

\* A store that is not the last does not end the call; the last store does, and
\* the cursor went up with it or before.
LEMMA StoreCalled ==
  ASSUME QueueInv, NEW store \in {"command", "size", "cursor"}, Stored(store),
         writeCursor' = IF store = "cursor" THEN writer.packet + 1 ELSE writeCursor
  PROVE  /\ Called' = Called
         /\ \A packet : Lapped(packet)' = Lapped(packet)
         /\ writer'.pc # "idle" =>
              writeCursor' = IF "cursor" \notin pending' THEN writer.packet + 1
                                                         ELSE writer.packet
         /\ writeCursor' \in Nat /\ writeCursor' <= MaxPackets
         /\ writeCursor <= writeCursor'
<1> USE QueueAssumption DEF QueueInv
<1>1. /\ writer.pc = "store" /\ writer.packet \in Nat /\ writer.packet \in Packet
      /\ writer'.packet = writer.packet
      /\ Called = writer.packet + 1
      /\ writeCursor = IF "cursor" \notin pending THEN writer.packet + 1 ELSE writer.packet
  BY StoreFacts DEF CursorInv
<1>2. store \in pending /\ pending' = pending \ {store}
      /\ writer'.pc = IF pending = {store} THEN "idle" ELSE "store"
  BY <1>1 DEF Stored, TypeOK
<1>3. writer'.pc # "idle" =>
        writeCursor' = IF "cursor" \notin pending' THEN writer.packet + 1 ELSE writer.packet
  BY <1>1, <1>2
<1>4. Called' = Called
  <2>1. CASE pending = {store}
    <3>1. writeCursor' = writer.packet + 1
      BY <1>1, <2>1
    <3> QED BY <1>1, <1>2, <2>1, <3>1 DEF Called
  <2>2. CASE pending # {store}
    BY <1>1, <1>2, <2>2 DEF Called
  <2> QED BY <2>1, <2>2
<1>5. writeCursor' \in Nat /\ writeCursor' <= MaxPackets /\ writeCursor <= writeCursor'
  BY <1>1 DEF Packet
<1> QED BY <1>3, <1>4, <1>5 DEF Lapped

\* Stores that were seen in order until now were so before.
LEMMA OrderedBefore ==
  ASSUME NEW store, Stored(store), ordered'
  PROVE  ordered
  BY DEF Stored

LEMMA StoreCommandStep ==
  ASSUME QueueInv, StoreCommand
  PROVE  QueueInv'
<1> USE QueueAssumption DEF StoreCommand, readerVars
<1> DEFINE w == writer.packet
<1>1. /\ writer.pc = "store"
      /\ w \in Nat /\ w \in Packet
      /\ w % command_size \in Slot
      /\ writer'.packet = w
      /\ writer'.pc \in {"idle", "store"}
      /\ Called = w + 1
      /\ pending' \subseteq {"command", "size", "cursor"}
      /\ writer'.pc = "store" <=> pending' # {}
      /\ \A s, packet : Unstored(s, packet)' <=> Unstored(s, packet) /\ s # "command"
      /\ \A packet \in Packet :
           packet < Called /\ ~Lapped(packet) /\ packet # w =>
             packet % command_size # w % command_size
  BY StoreFacts
<1>2. /\ Called' = Called
      /\ \A packet : Lapped(packet)' = Lapped(packet)
      /\ writer'.pc # "idle" =>
           writeCursor' = IF "cursor" \notin pending' THEN w + 1 ELSE w
  BY StoreCalled
<1>3. command' = [command EXCEPT ![w % command_size] = w]
  OBVIOUS
<1> HIDE DEF w
<1> USE DEF QueueInv
<1>4. TypeOK'
  BY <1>1, <1>3 DEF TypeOK, Stored
<1>5. CursorInv'
  BY <1>1, <1>2 DEF CursorInv
<1>6. StoreInv'
  BY <1>1 DEF StoreInv, Stored, ProgramOrder
<1>7. SlotInv'
  <2> SUFFICES ASSUME NEW i \in Slot, command'[i] # NULL
               PROVE  /\ command'[i] % command_size = i
                      /\ command'[i] < Called
                      /\ ~Unstored("command", command[i])'
    BY <1>2 DEF SlotInv
  <2>1. CASE i = w % command_size
    <3>1. command'[i] = w
      BY <1>1, <1>3, <2>1 DEF TypeOK
    <3>2. w < Called /\ w % command_size = i
      BY <1>1, <2>1
    <3>3. ~Unstored("command", command[i])'
      BY <1>1
    <3> QED BY <3>1, <3>2, <3>3
  <2>2. CASE i # w % command_size
    BY <1>1, <1>3, <2>2 DEF TypeOK, SlotInv
  <2> QED BY <2>1, <2>2
<1>8. RecentInv'
  <2> SUFFICES ASSUME NEW packet \in Packet, packet < Called, ~Lapped(packet)
               PROVE  /\ packet \in live
                      /\ ~Unstored("command", packet)' => command'[packet % command_size] = packet
                      /\ ~Unstored("size", packet)' => command_sizes[packet % command_size] = packet
    BY <1>2 DEF RecentInv
  <2>1. CASE packet = w
    BY <1>1, <1>3, <2>1 DEF RecentInv, TypeOK
  <2>2. CASE packet # w
    <3>1. packet % command_size # w % command_size
      BY <1>1, <2>2
    <3>2. ~Unstored("command", packet)
      BY <2>2 DEF Unstored, w
    <3> QED BY <1>1, <1>3, <3>1, <3>2 DEF RecentInv, TypeOK
  <2> QED BY <2>1, <2>2
<1>9. ReaderInv'
  BY <1>2, OrderedBefore DEF ReaderInv, Oldest
<1> QED BY <1>4, <1>5, <1>6, <1>7, <1>8, <1>9

LEMMA StoreSizeStep ==
  ASSUME QueueInv, StoreSize
  PROVE  QueueInv'
<1> USE QueueAssumption DEF StoreSize, readerVars
<1> DEFINE w == writer.packet
<1>1. /\ writer.pc = "store"
      /\ w \in Nat /\ w \in Packet
      /\ w % command_size \in Slot
      /\ writer'.packet = w
      /\ writer'.pc \in {"idle", "store"}
      /\ Called = w + 1
      /\ pending' \subseteq {"command", "size", "cursor"}
      /\ writer'.pc = "store" <=> pending' # {}
      /\ \A s, packet : Unstored(s, packet)' <=> Unstored(s, packet) /\ s # "size"
      /\ \A packet \in Packet :
           packet < Called /\ ~Lapped(packet) /\ packet # w =>
             packet % command_size # w % command_size
  BY StoreFacts
<1>2. /\ Called' = Called
      /\ \A packet : Lapped(packet)' = Lapped(packet)
      /\ writer'.pc # "idle" =>
           writeCursor' = IF "cursor" \notin pending' THEN w + 1 ELSE w
  BY StoreCalled
<1>3. command_sizes' = [command_sizes EXCEPT ![w % command_size] = w]
  OBVIOUS
<1> HIDE DEF w
<1> USE DEF QueueInv
<1>4. TypeOK'
  BY <1>1, <1>3 DEF TypeOK, Stored
<1>5. CursorInv'
  BY <1>1, <1>2 DEF CursorInv
<1>6. StoreInv'
  BY <1>1 DEF StoreInv, Stored, ProgramOrder
<1>7. SlotInv'
  BY <1>1, <1>2 DEF SlotInv
<1>8. RecentInv'
  <2> SUFFICES ASSUME NEW packet \in Packet, packet < Called, ~Lapped(packet)
               PROVE  /\ packet \in live
                      /\ ~Unstored("command", packet)' => command[packet % command_size] = packet
                      /\ ~Unstored("size", packet)' => command_sizes'[packet % command_size] = packet
    BY <1>2 DEF RecentInv
  <2>1. CASE packet = w
    BY <1>1, <1>3, <2>1 DEF RecentInv, TypeOK
  <2>2. CASE packet # w
    <3>1. packet % command_size # w % command_size
      BY <1>1, <2>2
    <3>2. ~Unstored("size", packet)
      BY <2>2 DEF Unstored, w
    <3> QED BY <1>1, <1>3, <3>1, <3>2 DEF RecentInv, TypeOK
  <2> QED BY <2>1, <2>2
<1>9. ReaderInv'
  BY <1>2, OrderedBefore DEF ReaderInv, Oldest
<1> QED BY <1>4, <1>5, <1>6, <1>7, <1>8, <1>9

LEMMA StoreCursorStep ==
  ASSUME QueueInv, StoreCursor
  PROVE  QueueInv'
<1> USE QueueAssumption DEF StoreCursor, readerVars
<1>1. /\ writer.pc = "store"
      /\ writer.packet \in Nat /\ writer.packet \in Packet
      /\ writer'.packet = writer.packet
      /\ writer'.pc \in {"idle", "store"}
      /\ pending' \subseteq {"command", "size", "cursor"}
      /\ writer'.pc = "store" <=> pending' # {}
      /\ \A s, packet : Unstored(s, packet)' <=> Unstored(s, packet) /\ s # "cursor"
  BY StoreFacts
<1>2. /\ Called' = Called
      /\ \A packet : Lapped(packet)' = Lapped(packet)
      /\ writer'.pc # "idle" =>
           writeCursor' = IF "cursor" \notin pending' THEN writer.packet + 1 ELSE writer.packet
      /\ writeCursor' \in Nat /\ writeCursor' <= MaxPackets
      /\ writeCursor <= writeCursor'
  BY StoreCalled
<1> USE DEF QueueInv
<1>4. TypeOK'
  BY <1>1, <1>2 DEF TypeOK, Stored
<1>5. CursorInv'
  BY <1>1, <1>2 DEF CursorInv, TypeOK
<1>6. StoreInv'
  BY <1>1 DEF StoreInv, Stored, ProgramOrder
<1>7. SlotInv'
  BY <1>1, <1>2 DEF SlotInv
<1>8. RecentInv'
  BY <1>1, <1>2 DEF RecentInv
<1>9. ReaderInv'
  BY <1>2, OrderedBefore DEF ReaderInv, Oldest
<1> QED BY <1>4, <1>5, <1>6, <1>7, <1>8, <1>9

\* What the main thread finds in the slot of the next packet.
LEMMA ReadFacts ==
  ASSUME QueueInv, reader.pc \in {"data", "size"}
  PROVE  /\ readCursor \in Packet
         /\ readCursor % command_size \in Slot
         /\ Oldest = readCursor
         /\ ~Lapped(readCursor) /\ ~Unseen("command") =>
              command[readCursor % command_size] = readCursor
         /\ ~Lapped(readCursor) /\ ~Unseen("size") =>
              command_sizes[readCursor % command_size] = readCursor
         /\ ordered => ~Unseen("command") /\ ~Unseen("size")
<1> USE QueueAssumption DEF QueueInv
<1>1. /\ readCursor \in Nat /\ writeCursor \in Nat /\ readCursor < writeCursor
      /\ writeCursor <= MaxPackets /\ writeCursor <= Called /\ Called \in Nat
  BY CallFacts DEF TypeOK, CursorInv
<1>2. readCursor \in Packet /\ readCursor < Called
  BY <1>1 DEF Packet
<1>3. readCursor % command_size \in Slot
  BY <1>1, PacketSlot
<1>4. ASSUME NEW store \in {"command", "size"}
      PROVE  Unstored(store, readCursor) => Unseen(store)
  BY <1>1 DEF CursorInv, Unstored, Unseen
<1>5. ordered => ~Unseen("command") /\ ~Unseen("size")
  <2> SUFFICES ASSUME ordered, NEW store \in {"command", "size"}, Unseen(store)
               PROVE  FALSE
    OBVIOUS
  <2>1. writer.pc = "store" /\ "cursor" \in pending /\ writer.packet = readCursor
    BY DEF StoreInv, Unseen
  <2> QED BY <1>1, <2>1 DEF CursorInv
<1>6. Oldest = readCursor
  BY DEF Oldest
<1>7. ~Lapped(readCursor) =>
        /\ ~Unseen("command") => command[readCursor % command_size] = readCursor
        /\ ~Unseen("size") => command_sizes[readCursor % command_size] = readCursor
  BY <1>2, <1>4 DEF RecentInv
<1> QED BY <1>2, <1>3, <1>5, <1>6, <1>7

LEMMA ReadStep ==
  ASSUME QueueInv, Read
  PROVE  QueueInv'
<1> USE QueueAssumption
<1>0. /\ UNCHANGED writerVars
      /\ \A packet : Lapped(packet)' = Lapped(packet)
  BY DEF Read, PopSome, PopData, PopSize, PopAdvance, Draw, Show, PollInput, writerVars,
     Lapped, Called
<1>1. StoreInv' /\ SlotInv' /\ RecentInv'
  BY <1>0, WriterKept
<1> SUFFICES TypeOK' /\ CursorInv' /\ ReaderInv'
  BY <1>1 DEF QueueInv
<1>2. CASE PopSome
  BY <1>0, <1>2 DEF PopSome, QueueInv, TypeOK, CursorInv, ReaderInv, Oldest, writerVars
<1>3. CASE PopData
  <2>1. /\ reader.pc = "data"
        /\ reader'.pc = "size" /\ reader'.early = Unseen("command")
        /\ reader'.data = command[readCursor % command_size]
        /\ Oldest' = readCursor /\ readCursor' = readCursor
    BY <1>3 DEF PopData, QueueInv, TypeOK, Oldest
  <2>2. TypeOK'
    BY <1>0, <1>3, <2>1, ReadFacts DEF PopData, QueueInv, TypeOK, writerVars, Unseen
  <2>3. CursorInv'
    BY <1>0, <2>1 DEF QueueInv, CursorInv, writerVars
  <2>4. ReaderInv'
    BY <1>0, <2>1, ReadFacts DEF ReaderInv, writerVars
  <2> QED BY <2>2, <2>3, <2>4
<1>4. CASE PopSize
  <2>1. /\ reader.pc = "size"
        /\ reader'.pc = "advance" /\ reader'.early = (reader.early \/ Unseen("size"))
        /\ reader'.data = reader.data
        /\ reader'.size = command_sizes[readCursor % command_size]
        /\ Oldest = readCursor /\ Oldest' = readCursor /\ readCursor' = readCursor
    BY <1>4 DEF PopSize, QueueInv, TypeOK, Oldest
  <2>2. TypeOK'
    BY <1>0, <1>4, <2>1, ReadFacts DEF PopSize, QueueInv, TypeOK, writerVars, Unseen
  <2>3. CursorInv'
    BY <1>0, <2>1 DEF QueueInv, CursorInv, writerVars
  <2>4. ReaderInv'
    BY <1>0, <2>1, ReadFacts DEF QueueInv, ReaderInv, writerVars
  <2> QED BY <2>2, <2>3, <2>4
<1>5. CASE PopAdvance
  <2>1. /\ readCursor < writeCursor /\ readCursor \in Nat /\ writeCursor \in 0 .. MaxPackets
        /\ reader.pc = "advance" /\ reader' = [reader EXCEPT !.pc = "draw"]
        /\ readCursor' = readCursor + 1
    BY <1>5 DEF PopAdvance, QueueInv, TypeOK, CursorInv
  <2>2. TypeOK'
    BY <1>0, <1>5, <2>1 DEF PopAdvance, QueueInv, TypeOK, writerVars
  <2>3. CursorInv'
    BY <1>0, <2>1 DEF QueueInv, TypeOK, CursorInv, writerVars
  <2>4. Oldest' = Oldest
    BY <2>1 DEF QueueInv, TypeOK, Oldest
  <2>5. ReaderInv'
    BY <1>0, <2>1, <2>4 DEF QueueInv, TypeOK, ReaderInv, writerVars
  <2> QED BY <2>2, <2>3, <2>5
<1>6. CASE Draw
  BY <1>0, <1>6 DEF Draw, QueueInv, TypeOK, CursorInv, ReaderInv, Oldest, writerVars
<1>7. CASE Show
  BY <1>0, <1>7 DEF Show, QueueInv, TypeOK, CursorInv, ReaderInv, Oldest, writerVars
<1>8. CASE PollInput
  BY <1>0, <1>8 DEF PollInput, QueueInv, TypeOK, CursorInv, ReaderInv, Oldest, writerVars
<1> QED BY <1>2, <1>3, <1>4, <1>5, <1>6, <1>7, <1>8 DEF Read

LEMMA QueueStep ==
  ASSUME QueueInv, [Next]_vars
  PROVE  QueueInv'
<1>1. CASE Next
  BY <1>1, AllocateStep, FreeStep, StoreCommandStep, StoreSizeStep, StoreCursorStep,
     ReadStep DEF Next, Write
<1>2. CASE UNCHANGED vars
  <2>1. StoreInv' /\ SlotInv' /\ RecentInv'
    BY <1>2, WriterKept DEF vars, writerVars
  <2>2. TypeOK' /\ CursorInv' /\ ReaderInv'
    BY <1>2 DEF vars, QueueInv, TypeOK, CursorInv, ReaderInv, Oldest, Lapped, Called
  <2> QED BY <2>1, <2>2 DEF QueueInv
<1> QED BY <1>1, <1>2

\* However far the M8 gets ahead of the drawing and in whatever order its stores
\* become visible, the last command_size packets have their buffers, are in
\* their slots with their sizes once they are stored, and are what the main
\* thread has read of them, unless it was too early; which it never is when the
\* stores are in order.
THEOREM QueueHolds == Spec => []QueueInv
<1>1. Init => QueueInv
  BY InitQueueInv
<1>2. QueueInv /\ [Next]_vars => QueueInv'
  BY QueueStep
<1> QED BY <1>1, <1>2, PTL DEF Spec

\* process_command draws the next packet, with its own size, from a buffer that
\* pullCommand has not freed, in all but two cases: the M8 got a whole queue
\* ahead before it was drawn, or the main thread saw the cursor of a packet
\* before its other stores.  There is no third way to go wrong.
THEOREM DrawsInOrder == Spec => []DrawsNext
<1>1. QueueInv => DrawsNext
  <2> SUFFICES ASSUME QueueInv, ~Lapped(readCursor - 1), ~reader.early, reader.pc = "draw"
               PROVE  /\ reader.data = readCursor - 1
                      /\ reader.size = reader.data
                      /\ reader.data \in live
    BY DEF DrawsNext, DrawsEach
  <2>1. Oldest = readCursor - 1 /\ Oldest \in Packet /\ Oldest < Called
    BY QueueAssumption, CallFacts DEF QueueInv, TypeOK, CursorInv, Oldest, Packet
  <2>2. reader.data = Oldest /\ reader.size = Oldest
    BY <2>1 DEF QueueInv, ReaderInv
  <2>3. Oldest \in live
    BY <2>1 DEF QueueInv, RecentInv
  <2> QED BY <2>1, <2>2, <2>3
<1> QED BY <1>1, QueueHolds, PTL

\* The stores leave the buffers of the other slots alone, and when all are visible
\* the slot of the packet holds its buffer.
LEMMA StoreLeakStep ==
  ASSUME QueueInv, QueueInv', LeakInv, StoreCommand \/ StoreSize \/ StoreCursor
  PROVE  LeakInv'
<1> USE DEF LeakInv, NoLeak
<1> SUFFICES ASSUME NEW w, w = writer.packet
             PROVE  LeakInv'
  OBVIOUS
<1> DEFINE slot == w % command_size
<1>1. /\ writer.pc = "store" /\ w \in Packet /\ slot \in Slot
      /\ writer'.packet = w /\ writer'.pc \in {"idle", "store"}
      /\ Called = w + 1 /\ ~Lapped(w)
  BY StoreFacts DEF StoreCommand, StoreSize, StoreCursor
<1>2. live' = live /\ \A i \in Slot \ {slot} : command'[i] = command[i]
  BY DEF StoreCommand, StoreSize, StoreCursor, readerVars, QueueInv, TypeOK
<1>3. Kept(Slot \ {slot})' = Kept(Slot \ {slot})
  BY <1>2 DEF Kept
<1>4. live' = Kept(Slot \ {slot})' \cup {w}
  BY <1>1, <1>2, <1>3
<1>5. writer'.pc = "idle" => command'[slot] = w
  <2> SUFFICES ASSUME writer'.pc = "idle" PROVE command'[slot] = w
    OBVIOUS
  <2>1. pending' = {} /\ writeCursor' \in Nat /\ writeCursor \in Nat
    BY DEF QueueInv, StoreInv, TypeOK
  <2>2. Called' = w + 1
    BY <1>1, <2>1, StoreCalled DEF StoreCommand, StoreSize, StoreCursor
  <2>3. w < Called' /\ ~Lapped(w)'
    BY <1>1, <2>2 DEF Lapped, Packet
  <2>4. ~Unstored("command", w)'
    BY <2>1 DEF Unstored
  <2> QED BY <1>1, <2>3, <2>4 DEF QueueInv, RecentInv
<1>6. writer'.pc = "idle" => Kept(Slot)' = Kept(Slot \ {slot})' \cup {w}
  <2>1. w # NULL
    BY <1>1 DEF Packet, NULL
  <2> HIDE DEF slot
  <2> QED BY <1>1, <1>5, <2>1 DEF Kept
<1> QED BY <1>1, <1>4, <1>6 DEF Kept

\* A buffer is in one slot only, so freeing it leaves no other slot dangling.
LEMMA LeakStep ==
  ASSUME QueueInv, QueueInv', LeakInv, [Next]_vars
  PROVE  LeakInv'
<1> USE QueueAssumption DEF LeakInv, NoLeak
<1>1. CASE PushAllocate
  <2> USE <1>1 DEF PushAllocate, readerVars
  <2>1. writer'.pc = "free" /\ writer'.packet = writeCursor
    BY DEF QueueInv, TypeOK
  <2> QED BY <2>1 DEF Kept
<1>2. CASE PushFree
  <2> USE <1>2 DEF PushFree, readerVars
  <2> DEFINE slot == writer.packet % command_size
  <2>1. /\ writer.packet \in Nat /\ slot \in Slot
        /\ writer'.pc = "store" /\ writer'.packet = writer.packet
    BY CallFacts DEF QueueInv, TypeOK
  <2>2. command[slot] # writer.packet
    BY <2>1 DEF QueueInv, SlotInv, Unstored, NULL
  <2> HIDE DEF slot
  <2>3. ASSUME NEW i \in Slot \ {slot}, command[i] # NULL
        PROVE  command[i] # command[slot]
    BY <2>1, <2>3 DEF QueueInv, SlotInv
  <2>4. Kept(Slot) \ {command[slot]} = Kept(Slot \ {slot})
    BY <2>1, <2>3 DEF Kept
  <2>5. live' = Kept(Slot \ {slot}) \cup {writer.packet}
    BY <2>2, <2>4 DEF slot
  <2> QED BY <2>1, <2>5 DEF Kept, slot
<1>3. CASE StoreCommand \/ StoreSize \/ StoreCursor
  BY <1>3, StoreLeakStep
<1>4. CASE Read
  BY <1>4 DEF Read, PopSome, PopData, PopSize, PopAdvance, Draw, Show, PollInput, writerVars, Kept
<1>5. CASE UNCHANGED vars
  BY <1>5 DEF vars, Kept
<1> QED BY <1>1, <1>2, <1>3, <1>4, <1>5 DEF Next, Write

\* No command buffer is lost and none is freed while a slot still points to it,
\* even when the M8 laps the drawing.
THEOREM NothingLeaks == Spec => []NoLeak
<1>1. Init => QueueInv /\ LeakInv
  BY InitQueueInv DEF Init, LeakInv, NoLeak, Kept
<1>2. QueueInv /\ LeakInv /\ [Next]_vars => QueueInv' /\ LeakInv'
  BY QueueStep, LeakStep
<1>3. LeakInv => NoLeak
  BY DEF LeakInv
<1> QED BY <1>1, <1>2, <1>3, PTL DEF Spec
-----------------------------------------------------------------------------
\* A command that was popped is drawn or shown, once.
CountInv ==
  /\ shown + draws = Oldest
  /\ reader.pc = "input" => draws = 0

LEMMA CountStep == QueueInv /\ CountInv /\ [Next]_vars => CountInv'
<1> SUFFICES ASSUME TypeOK, CountInv, [Next]_vars PROVE CountInv'
  BY DEF QueueInv
<1> USE DEF TypeOK, CountInv, Oldest
<1>1. CASE Write
  BY <1>1
  DEF Write, PushAllocate, PushFree, StoreCommand, StoreSize, StoreCursor, readerVars
<1>2. CASE PopSome \/ PopData \/ PopSize
  <2>1. /\ reader.pc \notin {"draw", "input"} /\ reader'.pc \notin {"draw", "input"}
        /\ UNCHANGED <<readCursor, draws, shown>>
    BY <1>2 DEF PopSome, PopData, PopSize
  <2> QED
    BY <2>1
<1>3. CASE PopAdvance
  BY <1>3 DEF PopAdvance
<1>4. CASE Draw \/ Show \/ PollInput
  BY <1>4 DEF Draw, Show, PollInput
<1>5. CASE UNCHANGED vars
  BY <1>5 DEF vars
<1> QED
  BY <1>1, <1>2, <1>3, <1>4, <1>5 DEF Next, Read

\* When popCommand returns 0 the screen gets all that was queued: each command was
\* drawn once, none was left out, and render_screen leaves no drawing unshown
\* (main.c:313-322).
THEOREM ShowsAll == Spec => [][Show => shown' = writeCursor /\ draws' = 0]_vars
<1>1. Init => QueueInv /\ CountInv
  BY InitQueueInv DEF Init, CountInv, Oldest
<1>2. QueueInv /\ CountInv /\ [Next]_vars => (QueueInv /\ CountInv)'
  BY QueueStep, CountStep
<1>3. QueueInv /\ CountInv => [Show => shown' = writeCursor /\ draws' = 0]_vars
  BY DEF QueueInv, TypeOK, CountInv, Oldest, Show
<1> QED
  BY <1>1, <1>2, <1>3, PTL DEF Spec
=============================================================================
