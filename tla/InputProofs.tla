---------------------------- MODULE InputProofs -----------------------------
(***************************************************************************)
(* Buttons and notes, for every keyboard and configuration, every order of *)
(* events, whatever writes are lost and whatever SDL leaves on the stack.  *)
(***************************************************************************)
EXTENDS Input, TLAPS

\* The parts of TypeOK.
UserOK ==
  /\ hands \in Hands
  /\ pressed \subseteq hands
  /\ queue \in Seq(Event)
  /\ Len(queue) <= MaxQueue

EventOK == event \in Event

JazzOK ==
  /\ keyjazz_enabled \in BOOLEAN
  /\ keyjazz_base_octave \in 0 .. 8
  /\ keyjazz_velocity \in 1 .. 127

BytesOK ==
  /\ keycode \subseteq Bit
  /\ prev_input \subseteq Bit
  /\ prev_note \subseteq Bit
  /\ buttons \subseteq Bit
  /\ note \subseteq Bit

SeenOK ==
  /\ run \in {"WAIT_FOR_DEVICE", "RUN", "QUIT"}
  /\ lost \subseteq {"buttons", "note"}
  /\ down \subseteq hands
  /\ disturbed \subseteq Disturbances

\* Events come from the keys this user uses.
UserEvent == {e \in Event : IsKey(e) => e.key \in hands}

HandsInv == event \in UserEvent /\ queue \in Seq(UserEvent)

Told == "buttons" \in lost \/ buttons = prev_input

\* Before the first iteration of the main loop nothing was told.
WaitInv ==
  /\ run = "WAIT_FOR_DEVICE" => "waiting" \in disturbed
  /\ "waiting" \in disturbed => prev_input = {} /\ buttons = {} /\ note = Off

\* With keyjazz off, keycode has the buttons that are held, and prev_input what
\* the M8 was told of them, but for the chord.
ButtonInv ==
  OneKeyEach /\ ~keyjazz_enabled /\ disturbed \subseteq {"waiting"} =>
    /\ keycode = Held
    /\ "waiting" \notin disturbed =>
         IF keycode = Chord THEN prev_input = msg_reset_display
         ELSE prev_input = keycode /\ Told

\* The bits k has in keyjazz: of its note, or of its button.
JazzBits(k) ==
  IF Note[k] = NoNote THEN handle_normal_keys(k).value
  ELSE Bits(Note[k] + 12 * keyjazz_base_octave)

\* With keyjazz on, keycode may be anything between nothing and the bits of the
\* keys that are down.  What matters is that nothing is left for the time after,
\* and that ESC will then tell the M8, or has no need to.
JazzInv ==
  OneKeyEach /\ keyjazz_enabled /\ disturbed \subseteq {"waiting"} =>
    /\ keycode \subseteq UNION {JazzBits(k) : k \in down}
    /\ \A k \in hands : Kind[k] = "escape" /\ prev_input = Buttons[k] => Told

\* The note that is on is the one that will be recognised when its key, which is
\* down, is released.
NoteInv ==
  "meaning" \notin disturbed /\ "note" \notin lost /\ note # Off =>
    /\ keyjazz_enabled
    /\ note = prev_note /\ note # {}
    /\ \E k \in down : Note[k] # NoNote /\ note = JazzBits(k)

InputInv == TypeOK /\ HandsInv /\ WaitInv /\ ButtonInv /\ JazzInv /\ NoteInv
-----------------------------------------------------------------------------
LEMMA TypeParts == TypeOK <=> UserOK /\ EventOK /\ JazzOK /\ BytesOK /\ SeenOK
  BY DEF TypeOK, UserOK, EventOK, JazzOK, BytesOK, SeenOK

LEMMA NoEventFacts == NoEvent \in Event /\ ~IsKey(NoEvent) /\ NoEvent.type = "none"
  BY DEF NoEvent, Event, IsKey

LEMMA BitsAreBits == \A n : Bits(n) \subseteq Bit
  BY DEF Bits

LEMMA ButtonsOf ==
  ASSUME NEW k \in Key
  PROVE  /\ Buttons[k] \subseteq Bit
         /\ ~(Chord \subseteq Buttons[k])
         /\ Chord \ Buttons[k] # msg_reset_display
<1>1. \/ \E b \in Bit : Buttons[k] = {b}
      \/ Buttons[k] = {key_opt, key_edit}
      \/ Buttons[k] = {}
  BY InputAssumption
<1> QED
  BY <1>1 DEF Bit, Chord, msg_reset_display, key_opt, key_edit, key_start, key_select

\* What handle_normal_keys and handle_keyjazz make of an event.
LEMMA Translation ==
  ASSUME NEW e \in Event, NEW jazz \in BOOLEAN, NEW key, key = Translate(e, jazz)
  PROVE  /\ key.type \in {"normal", "keyjazz", "special"}
         /\ key.value \subseteq Bit
         /\ key.type = "keyjazz" <=> IsKey(e) /\ jazz /\ Note[e.key] # NoNote
         /\ key.type = "keyjazz" => key.value = JazzBits(e.key)
         /\ key.type = "normal" /\ ~IsKey(e) => key.value = {}
         /\ key.type = "normal" /\ e.type = "KEYUP" =>
              key.value = IF jazz THEN JazzBits(e.key) ELSE Buttons[e.key]
         /\ key.type = "normal" /\ e.type = "KEYDOWN" /\ Kind[e.key] # "alt-enter" =>
              key.value = IF jazz THEN JazzBits(e.key) ELSE Buttons[e.key]
         /\ key.type = "normal" /\ e.type = "KEYDOWN" /\ Kind[e.key] = "alt-enter" =>
              key.value = {}
<1>1. CASE ~IsKey(e)
  <2>1. CASE e.type = "QUIT"
    BY <1>1, <2>1 DEF Translate, Message, IsKey, msg_quit, Bit
  <2>2. CASE e.type # "QUIT"
    BY <1>1, <2>2 DEF Translate, Message, IsKey, Presses
  <2> QED
    BY <2>1, <2>2
<1>2. CASE IsKey(e)
  <2>1. e.key \in Key /\ e.type # "QUIT"
    BY <1>2 DEF Event, IsKey, NoEvent
  <2>2. CASE Presses(e, "alt-F4")
    <3>1. key = Message("special", msg_quit)
      BY <1>2, <2>1, <2>2 DEF Translate, IsKey, Presses
    <3>2. Note[e.key] = NoNote
      BY <2>1, <2>2, InputAssumption DEF Presses
    <3> QED
      BY <3>1, <3>2 DEF Message, msg_quit, Bit
  <2>3. CASE Presses(e, "alt-enter")
    <3>1. key = Message("normal", {})
      BY <1>2, <2>1, <2>3 DEF Translate, Presses
    <3>2. Note[e.key] = NoNote
      BY <2>1, <2>3, InputAssumption DEF Presses
    <3> QED
      BY <2>3, <3>1, <3>2 DEF Message, Presses
  <2>4. CASE ~Presses(e, "alt-F4") /\ ~Presses(e, "alt-enter")
    <3> DEFINE n == handle_normal_keys(e.key)
    <3>1. key = IF jazz THEN handle_keyjazz(e.key, n.value) ELSE n
      BY <1>2, <2>1, <2>4 DEF Translate
    <3>2. Buttons[e.key] \subseteq Bit
      BY <2>1, ButtonsOf
    <3>3. /\ n.type \in {"normal", "special"} /\ n.value \subseteq Bit
          /\ n.type = "normal" => n.value = Buttons[e.key]
      BY <3>2 DEF handle_normal_keys, Message, msg_reset_display, Bit
    <3>4. ~(e.type = "KEYDOWN" /\ Kind[e.key] = "alt-enter")
      BY <2>4 DEF Presses
    <3>5. CASE ~jazz
      BY <1>2, <3>1, <3>3, <3>4, <3>5
    <3>6. CASE jazz
      <4>1. key = handle_keyjazz(e.key, n.value)
        BY <3>1, <3>6
      <4>2. CASE Note[e.key] = NoNote
        <5>1. key = Message("normal", n.value) /\ n.value = JazzBits(e.key)
          BY <4>1, <4>2 DEF handle_keyjazz, JazzBits
        <5>2. /\ key.type = "normal" /\ key.value = JazzBits(e.key)
              /\ key.value \subseteq Bit
          BY <3>3, <5>1 DEF Message
        <5> QED
          BY <1>2, <3>4, <3>6, <4>2, <5>2
      <4>3. CASE Note[e.key] # NoNote
        <5>1. key = Message("keyjazz", JazzBits(e.key))
          BY <4>1, <4>3 DEF handle_keyjazz, JazzBits
        <5>2. JazzBits(e.key) \subseteq Bit
          BY <4>3, BitsAreBits DEF JazzBits
        <5>3. /\ key.type = "keyjazz" /\ key.value = JazzBits(e.key)
              /\ key.value \subseteq Bit
          BY <5>1, <5>2 DEF Message
        <5> QED
          BY <1>2, <3>6, <4>3, <5>3
      <4> QED
        BY <4>2, <4>3
    <3> QED
      BY <3>5, <3>6
  <2> QED
    BY <2>2, <2>3, <2>4
<1> QED
  BY <1>1, <1>2

\* What an iteration does to keycode, and which branch of the switch it takes, if
\* it is one of the main loop.
LEMMA Branches ==
  ASSUME NEW e, Handle(e), NEW key, key = Translate(e, keyjazz_enabled'),
         key.type \in {"normal", "keyjazz", "special"}
  PROVE  /\ keycode' = NextKeycode(e, key)
         /\ run \in {"RUN", "WAIT_FOR_DEVICE"}
         /\ run = "RUN" /\ ~keyjazz_enabled' /\ keycode' = Chord =>
              Special(Message("special", msg_reset_display))
         /\ run = "RUN" /\ (keyjazz_enabled' \/ keycode' # Chord) =>
              /\ key.type = "normal" => Normal(Message("normal", keycode'))
              /\ key.type = "keyjazz" => Jazz(key, e)
              /\ key.type = "special" => Special(key)
<1> DEFINE msg == InputMessage(key, keycode', keyjazz_enabled')
<1>1. /\ keycode' = NextKeycode(e, key)
      /\ run \in {"RUN", "WAIT_FOR_DEVICE"}
      /\ run = "RUN" => Normal(msg) \/ Jazz(msg, e) \/ Special(msg)
  <2> USE DEF Handle
  <2>1. keycode' = NextKeycode(e, key)
    BY Zenon
  <2>2. run \in {"RUN", "WAIT_FOR_DEVICE"}
    OBVIOUS
  <2>3. run = "RUN" => Normal(msg) \/ Jazz(msg, e) \/ Special(msg)
    BY DEF Normal, Jazz, Special
  <2> QED
    BY <2>1, <2>2, <2>3
<1>2. CASE run = "RUN" /\ ~keyjazz_enabled' /\ keycode' = Chord
  <2>1. msg = Message("special", msg_reset_display)
    BY <1>2 DEF InputMessage
  <2>2. msg.type = "special"
    BY <2>1 DEF Message
  <2> HIDE DEF msg
  <2>3. Special(msg)
    BY <1>1, <1>2, <2>2 DEF Normal, Jazz
  <2> QED
    BY <1>1, <1>2, <2>1, <2>3
<1>3. CASE run = "RUN" /\ (keyjazz_enabled' \/ keycode' # Chord)
  <2>1. msg = IF key.type = "normal" THEN Message("normal", keycode') ELSE key
    BY <1>3 DEF InputMessage
  <2>2. msg.type = key.type
    BY <2>1 DEF Message
  <2> HIDE DEF msg
  <2>3. /\ msg.type = "normal" => Normal(msg)
        /\ msg.type = "keyjazz" => Jazz(msg, e)
        /\ msg.type = "special" => Special(msg)
    BY <1>1, <1>3 DEF Normal, Jazz, Special
  <2>4. key.type = "normal" => Normal(Message("normal", keycode'))
    BY <2>1, <2>2, <2>3 DEF Normal
  <2>5. key.type = "keyjazz" => Jazz(key, e)
    BY <2>1, <2>2, <2>3 DEF Jazz
  <2>6. key.type = "special" => Special(key)
    BY <2>1, <2>2, <2>3 DEF Special
  <2> QED
    BY <1>1, <1>3, <2>4, <2>5, <2>6
<1> QED
  BY <1>1, <1>2, <1>3

\* An iteration of the loop that waits for the M8 leaves all but run alone.
LEMMA WaitingStep ==
  ASSUME NEW e, Handle(e), run # "RUN"
  PROVE  /\ UNCHANGED <<prev_input, prev_note, buttons, note, lost>>
         /\ run' \in {"WAIT_FOR_DEVICE", "QUIT"}
         /\ "waiting" \in disturbed'
<1> USE DEF Handle
<1>1. run = "WAIT_FOR_DEVICE" /\ \E msg : Waiting(msg)
  BY DEF Waiting
<1>2. "waiting" \in disturbed'
  BY <1>1 DEF Disturbances, Disturbs
<1> QED
  BY <1>1, <1>2 DEF Waiting

LEMMA WaitStep ==
  ASSUME InputInv, NEW e, Handle(e)
  PROVE  WaitInv'
<1>1. CASE run # "RUN"
  <2>1. run = "WAIT_FOR_DEVICE"
    BY <1>1 DEF Handle
  <2> QED
    BY <1>1, <2>1, WaitingStep DEF InputInv, WaitInv
<1>2. CASE run = "RUN"
  <2> USE DEF Handle
  <2>1. run' # "WAIT_FOR_DEVICE"
    BY <1>2 DEF Normal, Jazz, Special
  <2>2. "waiting" \notin disturbed'
    BY <1>2 DEF Disturbs
  <2> QED
    BY <2>1, <2>2 DEF WaitInv
<1> QED
  BY <1>1, <1>2

\* The state an event leaves, apart from what the M8 is told.
LEMMA Effects ==
  ASSUME NEW e \in UserEvent, Handle(e), NEW key, key = Translate(e, keyjazz_enabled'),
         keyjazz_enabled \in BOOLEAN
  PROVE  /\ e \in Event /\ (IsKey(e) => e.key \in hands)
         /\ hands' = hands /\ event' = e
         /\ keyjazz_enabled' \in BOOLEAN
         /\ keyjazz_enabled' = keyjazz_enabled \/ Presses(e, "escape")
         /\ \/ keyjazz_base_octave' = keyjazz_base_octave
            \/ keyjazz_enabled' /\ (Presses(e, "octave-") \/ Presses(e, "octave+"))
         /\ e.type = "KEYDOWN" => down' = down \cup {e.key}
         /\ e.type = "KEYUP" => down' = down \ {e.key}
         /\ ~IsKey(e) => down' = down
<1>1. e \in Event /\ (IsKey(e) => e.key \in hands)
  BY DEF UserEvent
<1>2. hands' = hands /\ event' = e
  BY DEF Handle, userVars
<1>3. keyjazz_enabled' = (keyjazz_enabled # Presses(e, "escape"))
  BY DEF Handle
<1>4. keyjazz_enabled' \in BOOLEAN /\ (keyjazz_enabled' = keyjazz_enabled \/ Presses(e, "escape"))
  <2>1. Presses(e, "escape") \in BOOLEAN
    BY DEF Presses
  <2> QED
    BY <1>3, <2>1, Zenon
<1>5. \/ keyjazz_base_octave' = keyjazz_base_octave
      \/ keyjazz_enabled' /\ (Presses(e, "octave-") \/ Presses(e, "octave+"))
  <2>1. AdjustOctave(e)
    BY DEF Handle
  <2> QED
    BY <2>1, Zenon DEF AdjustOctave
<1>6. down' = CASE e.type = "KEYDOWN" -> down \cup {e.key}
                [] e.type = "KEYUP"   -> down \ {e.key}
                [] OTHER              -> down
  BY DEF Handle
<1>7. /\ e.type = "KEYDOWN" => down' = down \cup {e.key}
      /\ e.type = "KEYUP" => down' = down \ {e.key}
      /\ ~IsKey(e) => down' = down
  BY <1>6 DEF IsKey
<1> QED
  BY <1>1, <1>2, <1>4, <1>5, <1>7

\* What has to be true of an event that disturbs nothing.
LEMMA Undisturbed ==
  ASSUME NEW e, Handle(e), NEW key, key = Translate(e, keyjazz_enabled')
  PROVE  /\ disturbed \subseteq disturbed' \cup {"waiting"}
         /\ run = "RUN" => "waiting" \notin disturbed'
         /\ "special" \notin disturbed' => key.type # "special"
         /\ "meaning" \notin disturbed' =>
              \/ down' \ {e.key} = {}
              \/ keyjazz_enabled' = keyjazz_enabled /\ keyjazz_base_octave' = keyjazz_base_octave
         /\ "byte" \notin disturbed' /\ key.type = "keyjazz" =>
              \A k \in hands : Kind[k] = "escape" => Buttons[k] # key.value
<1>1. disturbed' = (disturbed \ {"waiting"}) \cup {d \in Disturbances : Disturbs(d, e, key)}
  BY DEF Handle, Disturbs
<1>2. "special" \notin disturbed' => key.type # "special"
  BY <1>1 DEF Disturbances, Disturbs
<1>3. "meaning" \notin disturbed' =>
        \/ down' \ {e.key} = {}
        \/ keyjazz_enabled' = keyjazz_enabled /\ keyjazz_base_octave' = keyjazz_base_octave
  BY <1>1 DEF Disturbances, Disturbs
<1>4. "byte" \notin disturbed' /\ key.type = "keyjazz" =>
        \A k \in hands : Kind[k] = "escape" => Buttons[k] # key.value
  BY <1>1 DEF Disturbances, Disturbs
<1>5. run = "RUN" => "waiting" \notin disturbed'
  BY <1>1 DEF Disturbs
<1> QED
  BY <1>1, <1>2, <1>3, <1>4, <1>5

\* keycode collects the bits of buttons, and is the byte of a note.
LEMMA Keycodes ==
  ASSUME NEW e, Handle(e), NEW key, key = Translate(e, keyjazz_enabled'),
         key.type \in {"normal", "keyjazz", "special"}
  PROVE  /\ key.type = "normal" /\ e.type = "KEYDOWN" => keycode' = keycode \cup key.value
         /\ key.type = "normal" /\ e.type # "KEYDOWN" => keycode' = keycode \ key.value
         /\ key.type # "normal" /\ e.type = "KEYDOWN" => keycode' = key.value
         /\ key.type # "normal" /\ e.type # "KEYDOWN" => keycode' = {}
<1>1. keycode' = NextKeycode(e, key)
  BY Branches
<1> QED
  BY <1>1 DEF NextKeycode

LEMMA Polled ==
  TypeOK /\ HandsInv /\ (PollEvent \/ PollNothing) => \E e \in UserEvent : Handle(e)
<1> SUFFICES ASSUME TypeOK, HandsInv, PollEvent \/ PollNothing
             PROVE  \E e \in UserEvent : Handle(e)
  OBVIOUS
<1>1. CASE PollEvent
  <2>1. Head(queue) \in UserEvent
    BY <1>1 DEF PollEvent, HandsInv
  <2>2. PICK e \in UserEvent : e = Head(queue)
    BY <2>1
  <2>3. Handle(e)
    BY <1>1, <2>2
    DEF PollEvent, Handle, AdjustVelocity, AdjustOctave, Normal, Jazz, Special,
        Waiting, Disturbs
  <2> QED
    BY <2>2, <2>3
<1>2. CASE PollNothing
  <2>1. PICK e \in {NoEvent} \cup (IF StaleEvent THEN {event} ELSE {}) : Handle(e)
    BY <1>2 DEF PollNothing
  <2>2. e \in UserEvent
    BY NoEventFacts DEF HandsInv, UserEvent
  <2> QED
    BY <2>1, <2>2
<1> QED
  BY <1>1, <1>2
-----------------------------------------------------------------------------
(* Types, and events of this user's keys. *)

LEMMA InputInit == Init => InputInv
<1> SUFFICES ASSUME Init PROVE InputInv
  OBVIOUS
<1>1. TypeOK
  <2>1. UserOK
    BY InputAssumption DEF UserOK, Init
  <2>2. EventOK
    BY NoEventFacts DEF EventOK, Init
  <2>3. JazzOK
    <3>1. keyjazz_enabled \in BOOLEAN
      BY Zenon DEF Init
    <3>2. keyjazz_base_octave \in 0 .. 8 /\ keyjazz_velocity \in 1 .. 127
      BY DEF Init
    <3> QED
      BY <3>1, <3>2 DEF JazzOK
  <2>4. BytesOK
    BY BitsAreBits DEF BytesOK, Off, Init
  <2>5. SeenOK
    BY DEF SeenOK, Init, Disturbances
  <2> QED
    BY <2>1, <2>2, <2>3, <2>4, <2>5, TypeParts
<1>2. HandsInv
  BY NoEventFacts DEF Init, HandsInv, UserEvent
<1>3. ButtonInv
  BY DEF Init, ButtonInv, Held, Told, Chord
<1>6. WaitInv
  BY DEF Init, WaitInv
<1>4. JazzInv
  BY DEF Init, JazzInv
<1>5. NoteInv
  BY DEF Init, NoteInv
<1> QED
  BY <1>1, <1>2, <1>3, <1>4, <1>5, <1>6 DEF InputInv

\* What the user does concerns nothing else.
LEMMA UserStep ==
  TypeOK /\ HandsInv /\ ((\E k \in Key : Press(k) \/ Release(k)) \/ CloseWindow) =>
    /\ UserOK' /\ HandsInv'
    /\ UNCHANGED <<hands, event, keycode, keyjazzVars, mainVars, seenVars>>
<1> SUFFICES ASSUME TypeOK, HandsInv, (\E k \in Key : Press(k) \/ Release(k)) \/ CloseWindow
             PROVE  /\ UserOK' /\ HandsInv'
                    /\ UNCHANGED <<hands, event, keycode, keyjazzVars, mainVars, seenVars>>
  OBVIOUS
<1>1. \A k \in Key : Press(k) \/ Release(k) =>
        /\ UNCHANGED <<hands, event, keycode, keyjazzVars, mainVars, seenVars>>
        /\ pressed' \subseteq hands
        /\ \E e \in UserEvent : Enqueue(e)
  <2> SUFFICES ASSUME NEW k \in Key, Press(k) \/ Release(k)
               PROVE  /\ UNCHANGED <<hands, event, keycode, keyjazzVars, mainVars, seenVars>>
                      /\ pressed' \subseteq hands
                      /\ \E e \in UserEvent : Enqueue(e)
    OBVIOUS
  <2>1. k \in hands /\ pressed' \subseteq hands
    BY DEF Press, Release, TypeOK
  <2>2. PICK t \in {"KEYDOWN", "KEYUP"} : Enqueue([type |-> t, key |-> k])
    BY DEF Press, Release, Enqueue
  <2>3. [type |-> t, key |-> k] \in UserEvent
    BY <2>1 DEF UserEvent, Event
  <2> QED
    BY <2>1, <2>2, <2>3 DEF Press, Release
<1>2. CloseWindow =>
        /\ UNCHANGED <<hands, event, keycode, keyjazzVars, mainVars, seenVars>>
        /\ pressed' \subseteq hands
        /\ \E e \in UserEvent : Enqueue(e)
  <2> SUFFICES ASSUME CloseWindow
               PROVE  /\ UNCHANGED <<hands, event, keycode, keyjazzVars, mainVars, seenVars>>
                      /\ pressed' \subseteq hands
                      /\ \E e \in UserEvent : Enqueue(e)
    OBVIOUS
  <2>1. [type |-> "QUIT"] \in UserEvent
    BY DEF UserEvent, Event, IsKey
  <2> QED
    BY <2>1 DEF CloseWindow, TypeOK, userVars
<1>3. /\ UNCHANGED <<hands, event, keycode, keyjazzVars, mainVars, seenVars>>
      /\ pressed' \subseteq hands
  BY <1>1, <1>2
<1>4. PICK e \in UserEvent : Enqueue(e)
  BY <1>1, <1>2
<1>5. queue' \in Seq(UserEvent) /\ queue' \in Seq(Event) /\ Len(queue') <= MaxQueue
  <2>1. queue \in Seq(UserEvent) /\ Len(queue) < MaxQueue /\ queue' = Append(queue, e)
    BY <1>4 DEF HandsInv, Enqueue
  <2>2. UserEvent \subseteq Event
    BY DEF UserEvent
  <2> QED
    BY <2>1, <2>2, InputAssumption, e \in Event, queue \in Seq(Event) DEF TypeOK
<1>6. UserOK'
  BY <1>3, <1>5 DEF UserOK, TypeOK
<1>7. HandsInv'
  BY <1>3, <1>5 DEF HandsInv, UserEvent
<1> QED
  BY <1>3, <1>6, <1>7

LEMMA QueueStep ==
  TypeOK /\ HandsInv /\ (PollEvent \/ PollNothing) => UserOK' /\ HandsInv'
<1> SUFFICES ASSUME TypeOK, HandsInv, PollEvent \/ PollNothing
             PROVE  UserOK' /\ HandsInv'
  OBVIOUS
<1>1. PICK e \in UserEvent : Handle(e)
  BY Polled
<1>2. event' = e /\ UNCHANGED <<hands, pressed>>
  BY <1>1 DEF Handle, userVars
<1>3. queue' \in Seq(UserEvent) /\ queue' \in Seq(Event) /\ Len(queue') <= MaxQueue
  <2>1. CASE PollEvent
    BY <2>1, InputAssumption DEF PollEvent, HandsInv, TypeOK
  <2>2. CASE PollNothing
    BY <2>2 DEF PollNothing, HandsInv, TypeOK
  <2> QED
    BY <2>1, <2>2
<1>4. UserOK'
  BY <1>2, <1>3 DEF UserOK, TypeOK
<1>5. HandsInv'
  BY <1>2, <1>3 DEF HandsInv, UserEvent
<1> QED
  BY <1>4, <1>5

LEMMA HandleTypes ==
  ASSUME TypeOK, NEW e \in UserEvent, Handle(e)
  PROVE  EventOK' /\ JazzOK' /\ BytesOK' /\ SeenOK'
<1>0. PICK key : key = Translate(e, keyjazz_enabled')
  OBVIOUS
<1>1. /\ keyjazz_enabled \in BOOLEAN /\ keyjazz_base_octave \in 0 .. 8
      /\ keyjazz_velocity \in 1 .. 127
  BY DEF TypeOK
<1>2. /\ e \in Event /\ (IsKey(e) => e.key \in hands)
      /\ hands' = hands /\ event' = e /\ keyjazz_enabled' \in BOOLEAN
      /\ e.type = "KEYDOWN" => down' = down \cup {e.key}
      /\ e.type = "KEYUP" => down' = down \ {e.key}
      /\ ~IsKey(e) => down' = down
  BY <1>0, <1>1, Effects
<1>3. key.type \in {"normal", "keyjazz", "special"} /\ key.value \subseteq Bit
  BY <1>0, <1>2, Translation
<1>4. EventOK'
  BY <1>2 DEF EventOK
<1>5. JazzOK'
  <2>1. keyjazz_base_octave' \in 0 .. 8
    BY <1>1 DEF Handle, AdjustOctave
  <2>2. keyjazz_velocity' \in 1 .. 127
    BY <1>1 DEF Handle, AdjustVelocity
  <2> QED
    BY <1>2, <2>1, <2>2 DEF JazzOK
<1>6. keycode' \subseteq Bit
  <2>1. keycode \subseteq Bit
    BY DEF TypeOK
  <2> QED
    BY <1>0, <1>3, <2>1, Keycodes
<1>7. run = "RUN" =>
        \E msg : msg.value \subseteq Bit /\ (Normal(msg) \/ Jazz(msg, e) \/ Special(msg))
  <2> HAVE run = "RUN"
  <2>1. CASE ~keyjazz_enabled' /\ keycode' = Chord
    <3>1. Special(Message("special", msg_reset_display))
      BY <1>0, <1>3, <2>1, Branches
    <3> QED
      BY <3>1 DEF Message, msg_reset_display, Bit
  <2>2. CASE key.type = "normal" /\ (keyjazz_enabled' \/ keycode' # Chord)
    <3>1. Normal(Message("normal", keycode'))
      BY <1>0, <2>2, Branches
    <3>2. PICK msg : msg = Message("normal", keycode')
      OBVIOUS
    <3>3. msg.value \subseteq Bit /\ Normal(msg)
      BY <1>6, <3>1, <3>2 DEF Message, Normal
    <3> QED
      BY <3>3
  <2>3. CASE key.type # "normal" /\ (keyjazz_enabled' \/ keycode' # Chord)
    BY <1>0, <1>3, <2>3, Branches
  <2> QED
    BY <1>2, <2>1, <2>2, <2>3
<1>8. BytesOK'
  <2>1. CASE run = "RUN"
    BY <1>6, <1>7, <2>1, BitsAreBits DEF BytesOK, TypeOK, Normal, Jazz, Special, Send, Off
  <2>2. CASE run # "RUN"
    BY <1>6, <2>2, WaitingStep DEF BytesOK, TypeOK
  <2> QED
    BY <2>1, <2>2
<1>9. SeenOK'
  <2>1. run' \in {"WAIT_FOR_DEVICE", "RUN", "QUIT"} /\ lost' \subseteq {"buttons", "note"}
    <3>1. CASE run = "RUN"
      BY <1>7, <3>1 DEF TypeOK, Normal, Jazz, Special, Send
    <3>2. CASE run # "RUN"
      BY <3>2, WaitingStep DEF TypeOK
    <3> QED
      BY <3>1, <3>2
  <2>2. down' \subseteq hands'
    BY <1>2 DEF TypeOK, IsKey
  <2>3. disturbed' \subseteq Disturbances
    BY DEF Handle, TypeOK
  <2> QED
    BY <2>1, <2>2, <2>3 DEF SeenOK
<1> QED
  BY <1>4, <1>5, <1>8, <1>9
-----------------------------------------------------------------------------
(* The buttons. *)

\* The keys of the special kinds play no note.
LEMMA Kinds ==
  ASSUME NEW k \in Key
  PROVE  /\ Kind[k] \in {"escape", "octave-", "octave+"} => Note[k] = NoNote
         /\ Kind[k] = "escape" => JazzBits(k) = Buttons[k]
  BY InputAssumption DEF JazzBits, handle_normal_keys, Message

\* The buttons of a set of keys.
ButtonsOfKeys(d) == UNION {Buttons[k] : k \in {k \in d : Kind[k] # "alt-enter"}}

LEMMA HeldOfKeys ==
  ASSUME TypeOK, OneKeyEach, NEW k \in hands
  PROVE  /\ Held = ButtonsOfKeys(down)
         /\ ButtonsOfKeys(down \cup {k}) =
              IF Kind[k] = "alt-enter" THEN Held ELSE Held \cup Buttons[k]
         /\ ButtonsOfKeys(down \ {k}) = Held \ Buttons[k]
<1>1. Held = ButtonsOfKeys(down)
  BY DEF Held, ButtonsOfKeys
<1>2. ButtonsOfKeys(down \cup {k}) =
        IF Kind[k] = "alt-enter" THEN Held ELSE Held \cup Buttons[k]
  BY DEF Held, ButtonsOfKeys
<1>3. \A l \in down : l # k => Buttons[l] \cap Buttons[k] = {}
  BY DEF OneKeyEach, TypeOK
<1>4. ButtonsOfKeys(down \ {k}) = Held \ Buttons[k]
  BY <1>3 DEF Held, ButtonsOfKeys
<1> QED
  BY <1>1, <1>2, <1>4

\* A button that is told.
LEMMA Telling ==
  ASSUME NEW value, Normal(Message("normal", value))
  PROVE  /\ prev_input' = value
         /\ prev_input # value \/ Told => Told'
  BY DEF Normal, Message, Send, Told

LEMMA ButtonStep ==
  ASSUME InputInv, NEW e \in UserEvent, Handle(e)
  PROVE  ButtonInv'
<1> SUFFICES ASSUME OneKeyEach', ~keyjazz_enabled', disturbed' \subseteq {"waiting"}
             PROVE  /\ keycode' = Held'
                    /\ "waiting" \notin disturbed' =>
                         IF keycode' = Chord THEN prev_input' = msg_reset_display
                         ELSE prev_input' = keycode' /\ Told'
  BY DEF ButtonInv
<1>0. PICK key : key = Translate(e, keyjazz_enabled')
  OBVIOUS
<1>1. /\ TypeOK /\ WaitInv /\ ButtonInv /\ JazzInv
      /\ keyjazz_enabled \in BOOLEAN /\ hands \subseteq Key
  BY InputAssumption DEF InputInv, TypeOK
<1>2. /\ e \in Event /\ (IsKey(e) => e.key \in hands)
      /\ hands' = hands /\ keyjazz_enabled' \in BOOLEAN
      /\ keyjazz_enabled' = keyjazz_enabled \/ Presses(e, "escape")
      /\ e.type = "KEYDOWN" => down' = down \cup {e.key}
      /\ e.type = "KEYUP" => down' = down \ {e.key}
      /\ ~IsKey(e) => down' = down
  BY <1>0, <1>1, Effects
<1>3. /\ OneKeyEach /\ disturbed \subseteq {"waiting"} /\ "meaning" \notin disturbed'
      /\ key.type # "special"
  <2>1. OneKeyEach
    BY <1>2 DEF OneKeyEach
  <2> QED
    BY <1>0, <2>1, Undisturbed
<1>4. /\ key.type = "normal"
      /\ ~IsKey(e) => key.value = {}
      /\ e.type = "KEYUP" => key.value = Buttons[e.key]
      /\ e.type = "KEYDOWN" =>
           key.value = IF Kind[e.key] = "alt-enter" THEN {} ELSE Buttons[e.key]
  BY <1>0, <1>2, <1>3, Translation
<1>5. /\ e.type = "KEYDOWN" => keycode' = keycode \cup key.value
      /\ e.type # "KEYDOWN" => keycode' = keycode \ key.value
  BY <1>0, <1>4, Keycodes
<1>6. run = "RUN" =>
        /\ keycode' = Chord => Special(Message("special", msg_reset_display))
        /\ keycode' # Chord => Normal(Message("normal", keycode'))
  BY <1>0, <1>4, Branches
<1>7. Held = ButtonsOfKeys(down) /\ Held' = ButtonsOfKeys(down')
  BY DEF Held, ButtonsOfKeys
<1>8. /\ keycode' = Held'
      /\ keycode' # Chord /\ prev_input = keycode' => Told
  <2>1. CASE ~keyjazz_enabled
    <3>1. /\ keycode = Held
          /\ Told \/ (keycode = Chord /\ prev_input = msg_reset_display)
      BY <1>1, <1>3, <2>1 DEF ButtonInv, WaitInv, Told
    <3>2. keycode' = Held'
      <4>1. CASE ~IsKey(e)
        BY <1>2, <1>4, <1>5, <1>7, <3>1, <4>1 DEF IsKey
      <4>2. CASE e.type = "KEYDOWN"
        BY <1>1, <1>2, <1>3, <1>4, <1>5, <1>7, <3>1, <4>2, HeldOfKeys DEF IsKey
      <4>3. CASE e.type = "KEYUP"
        BY <1>1, <1>2, <1>3, <1>4, <1>5, <1>7, <3>1, <4>3, HeldOfKeys DEF IsKey
      <4> QED
        BY <4>1, <4>2, <4>3 DEF IsKey
    <3>3. keycode = Chord /\ keycode' # Chord => keycode' # msg_reset_display
      <4> SUFFICES ASSUME keycode = Chord, keycode' # Chord
                   PROVE  keycode' # msg_reset_display
        OBVIOUS
      <4>1. CASE e.type = "KEYDOWN"
        BY <1>5, <4>1 DEF Chord, msg_reset_display, key_start, key_edit, key_opt, key_select
      <4>2. CASE e.type # "KEYDOWN"
        <5>1. keycode' = Chord \ key.value
          BY <1>5, <4>2
        <5>2. IsKey(e)
          BY <1>4, <5>1
        <5>3. e.key \in Key /\ key.value = Buttons[e.key]
          BY <1>1, <1>2, <1>4, <4>2, <5>2 DEF IsKey
        <5> QED
          BY <5>1, <5>3, ButtonsOf
      <4> QED
        BY <4>1, <4>2
    <3> QED
      BY <3>1, <3>2, <3>3
  <2>2. CASE keyjazz_enabled
    <3>1. e.type = "KEYDOWN" /\ Kind[e.key] = "escape" /\ e.key \in hands
      BY <1>2, <2>2 DEF Presses, IsKey
    <3>2. down' = {e.key} /\ down \subseteq {e.key}
      <4>1. down' \ {e.key} = {}
        BY <1>0, <1>3, <2>2, Undisturbed
      <4> QED
        BY <1>2, <3>1, <4>1
    <3>3. keycode \subseteq Buttons[e.key]
      <4>1. keycode \subseteq UNION {JazzBits(k) : k \in down}
        BY <1>1, <1>3, <2>2 DEF JazzInv
      <4>2. JazzBits(e.key) = Buttons[e.key]
        BY <1>1, <3>1, Kinds
      <4> QED
        BY <3>2, <4>1, <4>2
    <3>4. keycode' = Buttons[e.key]
      BY <1>4, <1>5, <3>1, <3>3
    <3>5. Held' = Buttons[e.key]
      BY <1>7, <3>1, <3>2 DEF ButtonsOfKeys
    <3>6. prev_input = Buttons[e.key] => Told
      BY <1>1, <1>3, <2>2, <3>1 DEF JazzInv
    <3> QED
      BY <3>4, <3>5, <3>6
  <2> QED
    BY <1>1, <2>1, <2>2
<1>9. run = "RUN" /\ keycode' = Chord => prev_input' = msg_reset_display
  BY <1>6 DEF Special, Message
<1>10. run = "RUN" /\ keycode' # Chord => prev_input' = keycode' /\ Told'
  <2>1. PICK value : value = keycode'
    OBVIOUS
  <2>2. run = "RUN" /\ keycode' # Chord => Normal(Message("normal", value))
    BY <1>6, <2>1 DEF Normal, Message
  <2> QED
    BY <1>8, <2>1, <2>2, Telling
<1> QED
  BY <1>8, <1>9, <1>10, WaitingStep

\* A key keeps its bits in keyjazz unless the octave changes, and then it does
\* if it is no note.
LEMMA SameBits ==
  ASSUME NEW k
  PROVE  keyjazz_base_octave' = keyjazz_base_octave \/ Note[k] = NoNote =>
           JazzBits(k)' = JazzBits(k)
  BY DEF JazzBits

\* ESC and the keys of the octave disturb nothing only while no other key is down.
LEMMA Meanings ==
  ASSUME TypeOK, NEW e \in UserEvent, Handle(e), "meaning" \notin disturbed'
  PROVE  \/ keyjazz_enabled' = keyjazz_enabled /\ keyjazz_base_octave' = keyjazz_base_octave
         \/ /\ e.type = "KEYDOWN" /\ e.key \in Key /\ Note[e.key] = NoNote
            /\ down \subseteq {e.key} /\ down' = {e.key}
<1> SUFFICES ASSUME \/ keyjazz_enabled' # keyjazz_enabled
                    \/ keyjazz_base_octave' # keyjazz_base_octave
             PROVE  /\ e.type = "KEYDOWN" /\ e.key \in Key /\ Note[e.key] = NoNote
                    /\ down \subseteq {e.key} /\ down' = {e.key}
  OBVIOUS
<1>0. PICK key : key = Translate(e, keyjazz_enabled')
  OBVIOUS
<1>1. keyjazz_enabled \in BOOLEAN /\ hands \subseteq Key
  BY InputAssumption DEF TypeOK
<1>2. /\ IsKey(e) => e.key \in hands
      /\ keyjazz_enabled' = keyjazz_enabled \/ Presses(e, "escape")
      /\ \/ keyjazz_base_octave' = keyjazz_base_octave
         \/ keyjazz_enabled' /\ (Presses(e, "octave-") \/ Presses(e, "octave+"))
      /\ e.type = "KEYDOWN" => down' = down \cup {e.key}
  BY <1>0, <1>1, Effects
<1>3. e.type = "KEYDOWN" /\ Kind[e.key] \in {"escape", "octave-", "octave+"}
  BY <1>2 DEF Presses
<1>4. e.key \in Key /\ Note[e.key] = NoNote
  BY <1>1, <1>2, <1>3, Kinds DEF IsKey
<1>5. down' \ {e.key} = {}
  BY <1>0, Undisturbed
<1> QED
  BY <1>2, <1>3, <1>4, <1>5

LEMMA JazzStep ==
  ASSUME InputInv, NEW e \in UserEvent, Handle(e)
  PROVE  JazzInv'
<1> SUFFICES ASSUME OneKeyEach', keyjazz_enabled', disturbed' \subseteq {"waiting"}
             PROVE  /\ keycode' \subseteq UNION {JazzBits(k)' : k \in down'}
                    /\ \A k \in hands' : Kind[k] = "escape" /\ prev_input' = Buttons[k] => Told'
  BY DEF JazzInv
<1>0. PICK key : key = Translate(e, keyjazz_enabled')
  OBVIOUS
<1>1. /\ TypeOK /\ WaitInv /\ ButtonInv /\ JazzInv
      /\ keyjazz_enabled \in BOOLEAN /\ hands \subseteq Key /\ down \subseteq hands
  BY InputAssumption DEF InputInv, TypeOK
<1>2. /\ e \in Event /\ (IsKey(e) => e.key \in hands)
      /\ hands' = hands /\ keyjazz_enabled' \in BOOLEAN
      /\ keyjazz_enabled' = keyjazz_enabled \/ Presses(e, "escape")
      /\ e.type = "KEYDOWN" => down' = down \cup {e.key}
      /\ e.type = "KEYUP" => down' = down \ {e.key}
      /\ ~IsKey(e) => down' = down
  BY <1>0, <1>1, Effects
<1>3. /\ OneKeyEach /\ disturbed \subseteq {"waiting"} /\ "meaning" \notin disturbed'
      /\ key.type # "special"
  <2>1. OneKeyEach
    BY <1>2 DEF OneKeyEach
  <2> QED
    BY <1>0, <2>1, Undisturbed
<1>4. /\ key.type \in {"normal", "keyjazz"}
      /\ key.type = "keyjazz" => IsKey(e) /\ Note[e.key] # NoNote /\ key.value = JazzBits(e.key)
      /\ key.type = "normal" /\ ~IsKey(e) => key.value = {}
      /\ key.type = "normal" /\ e.type = "KEYUP" => key.value = JazzBits(e.key)
      /\ key.type = "normal" /\ e.type = "KEYDOWN" => key.value \in {{}, JazzBits(e.key)}
      /\ key.type = "normal" /\ e.type = "KEYDOWN" /\ Kind[e.key] # "alt-enter" =>
           key.value = JazzBits(e.key)
  BY <1>0, <1>2, <1>3, Translation
<1>5. /\ key.type = "normal" /\ e.type = "KEYDOWN" => keycode' = keycode \cup key.value
      /\ key.type = "normal" /\ e.type # "KEYDOWN" => keycode' = keycode \ key.value
      /\ key.type = "keyjazz" /\ e.type = "KEYDOWN" => keycode' = key.value
      /\ key.type = "keyjazz" /\ e.type # "KEYDOWN" => keycode' = {}
  BY <1>0, <1>4, Keycodes
<1>6. run = "RUN" =>
        /\ key.type = "normal" => Normal(Message("normal", keycode'))
        /\ key.type = "keyjazz" => Jazz(key, e)
  BY <1>0, <1>4, Branches
<1>7. \A k \in down \cup {e.key} : JazzBits(k)' = JazzBits(k)
  BY <1>1, <1>3, Meanings, SameBits
<1>8. PICK value : value = keycode'
  OBVIOUS
<1>9. run = "RUN" /\ key.type = "normal" =>
        prev_input' = value /\ (prev_input # value \/ Told => Told')
  <2>1. run = "RUN" /\ key.type = "normal" => Normal(Message("normal", value))
    BY <1>6, <1>8 DEF Normal, Message
  <2> QED
    BY <2>1, Telling
<1>10. run # "RUN" => Told'
  BY WaitingStep, WaitStep DEF WaitInv, Told
<1>11. CASE keyjazz_enabled
  <2>1. /\ keycode \subseteq UNION {JazzBits(k) : k \in down}
        /\ \A k \in hands : Kind[k] = "escape" /\ prev_input = Buttons[k] => Told
    BY <1>1, <1>3, <1>11 DEF JazzInv
  <2>2. keycode' \subseteq UNION {JazzBits(k)' : k \in down'}
    <3> SUFFICES ASSUME NEW b \in keycode'
                 PROVE  \E k \in down' : b \in JazzBits(k)'
      OBVIOUS
    <3>1. CASE e.type = "KEYDOWN"
      <4>1. b \in keycode \/ b \in JazzBits(e.key)
        BY <1>4, <1>5, <3>1
      <4>2. PICK k \in down' : b \in JazzBits(k) /\ k \in down \cup {e.key}
        BY <1>2, <2>1, <3>1, <4>1
      <4> QED
        BY <1>7, <4>2
    <3>2. CASE e.type = "KEYUP"
      <4>1. b \in keycode /\ b \notin JazzBits(e.key)
        BY <1>4, <1>5, <3>2
      <4>2. PICK k \in down : b \in JazzBits(k)
        BY <2>1, <4>1
      <4>3. k \in down'
        BY <1>2, <3>2, <4>1, <4>2
      <4> QED
        BY <1>7, <4>2, <4>3
    <3>3. CASE ~IsKey(e)
      <4>1. b \in keycode /\ down' = down
        BY <1>2, <1>4, <1>5, <3>3 DEF IsKey
      <4> QED
        BY <1>7, <2>1, <4>1
    <3> QED
      BY <3>1, <3>2, <3>3 DEF IsKey
  <2>3. \A k \in hands' : Kind[k] = "escape" /\ prev_input' = Buttons[k] => Told'
    <3> SUFFICES ASSUME NEW k \in hands, Kind[k] = "escape", prev_input' = Buttons[k]
                 PROVE  Told'
      BY <1>2
    <3>1. CASE run = "RUN" /\ key.type = "normal"
      BY <1>9, <2>1, <3>1
    <3>2. CASE run = "RUN" /\ key.type = "keyjazz"
      <4>1. prev_input' = key.value
        BY <1>6, <3>2 DEF Jazz
      <4>2. Buttons[k] # key.value
        BY <1>0, <3>2, Undisturbed
      <4> QED
        BY <4>1, <4>2
    <3> QED
      BY <1>4, <1>10, <3>1, <3>2
  <2> QED
    BY <2>2, <2>3
<1>12. CASE ~keyjazz_enabled
  <2>1. e.type = "KEYDOWN" /\ Kind[e.key] = "escape" /\ e.key \in hands /\ e.key \in Key
    BY <1>1, <1>2, <1>12 DEF Presses, IsKey
  <2>2. down \subseteq {e.key} /\ down' = {e.key}
    BY <1>1, <1>3, <1>12, Meanings
  <2>3. Note[e.key] = NoNote /\ JazzBits(e.key) = Buttons[e.key]
    BY <2>1, Kinds
  <2>4. keycode \subseteq Buttons[e.key] /\ keycode # Chord
    <3>1. keycode = Held
      BY <1>1, <1>3, <1>12 DEF ButtonInv
    <3> QED
      BY <2>1, <2>2, <3>1, ButtonsOf DEF Held
  <2>5. key.type = "normal" /\ keycode' = JazzBits(e.key)
    BY <1>4, <1>5, <2>1, <2>3, <2>4
  <2>6. Told'
    <3>1. Told
      BY <1>1, <1>3, <1>12, <2>4 DEF ButtonInv, WaitInv, Told
    <3> QED
      BY <1>9, <1>10, <2>5, <3>1
  <2>7. keycode' \subseteq UNION {JazzBits(k)' : k \in down'}
    BY <1>7, <2>2, <2>5
  <2> QED
    BY <2>6, <2>7
<1> QED
  BY <1>1, <1>11, <1>12
-----------------------------------------------------------------------------
(* The notes. *)

LEMMA NoteStep ==
  ASSUME InputInv, NEW e \in UserEvent, Handle(e)
  PROVE  NoteInv'
<1> SUFFICES ASSUME "meaning" \notin disturbed', "note" \notin lost', note' # Off
             PROVE  /\ keyjazz_enabled'
                    /\ note' = prev_note' /\ note' # {}
                    /\ \E k \in down' : Note[k] # NoNote /\ note' = JazzBits(k)'
  BY DEF NoteInv
<1>0. PICK key : key = Translate(e, keyjazz_enabled')
  OBVIOUS
<1>1. /\ TypeOK /\ WaitInv /\ NoteInv
      /\ keyjazz_enabled \in BOOLEAN /\ hands \subseteq Key /\ down \subseteq hands
  BY InputAssumption DEF InputInv, TypeOK
<1>2. /\ e \in Event /\ (IsKey(e) => e.key \in hands)
      /\ hands' = hands /\ keyjazz_enabled' \in BOOLEAN
      /\ e.type = "KEYDOWN" => down' = down \cup {e.key}
      /\ e.type = "KEYUP" => down' = down \ {e.key}
      /\ ~IsKey(e) => down' = down
  BY <1>0, <1>1, Effects
<1>3. /\ key.type \in {"normal", "keyjazz", "special"}
      /\ key.type = "keyjazz" <=> IsKey(e) /\ keyjazz_enabled' /\ Note[e.key] # NoNote
      /\ key.type = "keyjazz" => key.value = JazzBits(e.key)
  BY <1>0, <1>2, Translation
<1>4. \/ keyjazz_enabled' = keyjazz_enabled /\ keyjazz_base_octave' = keyjazz_base_octave
      \/ /\ e.type = "KEYDOWN" /\ Note[e.key] = NoNote
         /\ down \subseteq {e.key}
  BY <1>1, Meanings
<1>5. run = "RUN"
  <2> SUFFICES ASSUME run # "RUN" PROVE FALSE
    OBVIOUS
  <2> QED
    BY WaitingStep, WaitStep DEF WaitInv
<1>6. CASE key.type = "keyjazz" /\ NoteOn(key, e)
  <2>1. Jazz(key, e) /\ keyjazz_enabled'
    BY <1>0, <1>3, <1>6, <1>5, Branches
  <2>2. note' = key.value /\ prev_note' = key.value /\ key.value # {}
    BY <1>6, <2>1 DEF Jazz, Send, NoteOn
  <2>3. e.key \in down'
    BY <1>2, <1>6 DEF NoteOn
  <2>4. JazzBits(e.key)' = JazzBits(e.key)
    BY <1>3, <1>4, <1>6, SameBits
  <2> QED
    BY <1>3, <1>6, <2>1, <2>2, <2>3, <2>4
<1>7. CASE key.type = "keyjazz" /\ NoteOff(key, e)
  <2>1. Jazz(key, e) /\ ~NoteOn(key, e)
    BY <1>0, <1>3, <1>7, <1>5, Branches DEF NoteOff, NoteOn
  <2>2. note' = Off
    BY <1>7, <2>1 DEF Jazz, Send
  <2> QED
    BY <2>2
<1>8. CASE key.type = "keyjazz" => ~NoteOn(key, e) /\ ~NoteOff(key, e)
  <2>1. UNCHANGED <<note, prev_note>> /\ "note" \notin lost
    <3>1. CASE ~keyjazz_enabled' /\ keycode' = Chord
      <4>1. Special(Message("special", msg_reset_display))
        BY <1>0, <1>3, <3>1, <1>5, Branches
      <4> QED
        BY <4>1 DEF Special
    <3>2. CASE key.type = "normal" /\ (keyjazz_enabled' \/ keycode' # Chord)
      <4>1. Normal(Message("normal", keycode'))
        BY <1>0, <3>2, <1>5, Branches
      <4> QED
        BY <4>1 DEF Normal, Send
    <3>3. CASE key.type = "keyjazz"
      <4>1. Jazz(key, e)
        BY <1>0, <1>3, <3>3, <1>5, Branches
      <4> QED
        BY <1>8, <3>3, <4>1 DEF Jazz
    <3>4. CASE key.type = "special" /\ (keyjazz_enabled' \/ keycode' # Chord)
      <4>1. Special(key)
        BY <1>0, <3>4, <1>5, Branches
      <4> QED
        BY <4>1 DEF Special
    <3> QED
      BY <1>2, <1>3, <3>1, <3>2, <3>3, <3>4
  <2>2. /\ keyjazz_enabled /\ note = prev_note /\ note # {}
        /\ \E k \in down : Note[k] # NoNote /\ note = JazzBits(k)
    <3>1. "meaning" \notin disturbed
      BY <1>0, Undisturbed
    <3> QED
      BY <1>1, <2>1, <3>1 DEF NoteInv
  <2>3. PICK k \in down : Note[k] # NoNote /\ note = JazzBits(k)
    BY <2>2
  <2>4. keyjazz_enabled' = keyjazz_enabled /\ keyjazz_base_octave' = keyjazz_base_octave
    BY <1>4, <2>3
  <2>5. ~(e.type = "KEYUP" /\ e.key = k)
    <3> SUFFICES ASSUME e.type = "KEYUP", e.key = k
                 PROVE  FALSE
      OBVIOUS
    <3>1. key.type = "keyjazz" /\ key.value = prev_note
      BY <1>3, <2>2, <2>3, <2>4 DEF IsKey
    <3>2. NoteOff(key, e)
      BY <2>2, <3>1 DEF NoteOff
    <3> QED
      BY <1>8, <3>1, <3>2
  <2>6. k \in down'
    BY <1>2, <2>3, <2>5 DEF IsKey
  <2>7. JazzBits(k)' = JazzBits(k)
    BY <2>4, SameBits
  <2> QED
    BY <2>1, <2>2, <2>3, <2>4, <2>6, <2>7
<1> QED
  BY <1>6, <1>7, <1>8
-----------------------------------------------------------------------------
LEMMA InputStep == InputInv /\ [Next]_vars => InputInv'
<1> SUFFICES ASSUME InputInv, [Next]_vars PROVE InputInv'
  OBVIOUS
<1>1. TypeOK /\ HandsInv /\ WaitInv /\ ButtonInv /\ JazzInv /\ NoteInv
      /\ UserOK /\ EventOK /\ JazzOK /\ BytesOK /\ SeenOK
  BY TypeParts DEF InputInv
<1>2. CASE UserOK' /\ HandsInv' /\ UNCHANGED <<hands, event, keycode, keyjazzVars, mainVars, seenVars>>
  <2> USE DEF keyjazzVars, mainVars, seenVars
  <2>1. EventOK' /\ JazzOK' /\ BytesOK' /\ SeenOK'
    <3>1. EventOK'
      BY <1>1, <1>2 DEF EventOK
    <3>2. JazzOK'
      BY <1>1, <1>2 DEF JazzOK
    <3>3. BytesOK'
      BY <1>1, <1>2 DEF BytesOK
    <3>4. SeenOK'
      BY <1>1, <1>2 DEF SeenOK
    <3> QED
      BY <3>1, <3>2, <3>3, <3>4
  <2>2. TypeOK'
    BY <1>2, <2>1, TypeParts DEF TypeOK, UserOK, EventOK, JazzOK, BytesOK, SeenOK
  <2>3. ButtonInv'
    BY <1>1, <1>2 DEF ButtonInv, OneKeyEach, Held, Told
  <2>4. JazzInv'
    BY <1>1, <1>2 DEF JazzInv, OneKeyEach, JazzBits, Told
  <2>5. NoteInv'
    BY <1>1, <1>2 DEF NoteInv, JazzBits
  <2>6. WaitInv'
    BY <1>1, <1>2 DEF WaitInv
  <2> QED
    BY <1>2, <2>2, <2>3, <2>4, <2>5, <2>6 DEF InputInv
<1>3. CASE PollEvent \/ PollNothing
  <2>1. PICK e \in UserEvent : Handle(e)
    BY <1>1, <1>3, Polled
  <2>2. UserOK' /\ HandsInv'
    BY <1>1, <1>3, QueueStep
  <2>3. EventOK' /\ JazzOK' /\ BytesOK' /\ SeenOK'
    BY <1>1, <2>1, HandleTypes
  <2>4. TypeOK'
    BY <2>2, <2>3 DEF TypeOK, UserOK, EventOK, JazzOK, BytesOK, SeenOK
  <2>5. WaitInv' /\ ButtonInv' /\ JazzInv' /\ NoteInv'
    BY <2>1, WaitStep, ButtonStep, JazzStep, NoteStep
  <2> QED
    BY <2>2, <2>4, <2>5 DEF InputInv
<1>4. CASE (\E k \in Key : Press(k) \/ Release(k)) \/ CloseWindow
  BY <1>1, <1>2, <1>4, UserStep
<1>5. CASE Found
  <2> USE <1>5 DEF Found, userVars, keyjazzVars, seenVars
  <2>1. TypeOK' /\ HandsInv' /\ WaitInv'
    BY <1>1 DEF TypeOK, HandsInv, UserEvent, WaitInv
  <2>2. ButtonInv'
    BY <1>1 DEF ButtonInv, OneKeyEach, Held, Told
  <2>3. JazzInv' /\ NoteInv'
    BY <1>1 DEF JazzInv, NoteInv, OneKeyEach, JazzBits, Told
  <2> QED
    BY <2>1, <2>2, <2>3 DEF InputInv
<1>6. CASE UNCHANGED vars
  <2>1. UNCHANGED <<hands, event, keycode, keyjazzVars, mainVars, seenVars>>
    BY <1>6 DEF vars, userVars
  <2>2. UserOK' /\ HandsInv'
    BY <1>1, <1>6 DEF UserOK, HandsInv, UserEvent, vars, userVars
  <2> QED
    BY <1>2, <2>1, <2>2
<1> QED
  BY <1>3, <1>4, <1>6, <1>5 DEF Next

LEMMA InputInvariant == Spec => []InputInv
  BY InputInit, InputStep, PTL DEF Spec

\* The variables of input.c and of the main loop stay in their ranges: the octave
\* in 0 to 8, the velocity in 1 to 127, every byte a byte, although nothing but
\* the guards of handle_keyjazz keeps them there.
THEOREM InputTyped == Spec => []TypeOK
<1>1. InputInv => TypeOK
  BY DEF InputInv
<1> QED
  BY <1>1, InputInvariant, PTL

\* While keyjazz is off and the chord is not held, keycode is the union of the
\* buttons of the keys that are down, and the M8 has been told so unless that
\* write was lost, whatever ESC, the octave and SDL_PollEvent did before, as long
\* as nothing of Disturbances has happened.
THEOREM ButtonsFollow == Spec => []ButtonsAgree
<1>1. InputInv => ButtonsAgree
  BY DEF InputInv, ButtonInv, ButtonsAgree, Told
<1> QED
  BY <1>1, InputInvariant, PTL

\* The note the M8 plays is that of a key that is down: the main loop sends 0xFF
\* when the last note's key is released, and a note started over another takes
\* its place in prev_note.
THEOREM NoNoteHangs == Spec => []NoHangingNote
<1>1. InputInv => NoHangingNote
  BY DEF InputInv, NoteInv, NoHangingNote
<1> QED
  BY <1>1, InputInvariant, PTL
=============================================================================
