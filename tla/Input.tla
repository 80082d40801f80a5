------------------------------- MODULE Input --------------------------------
(***************************************************************************)
(* Keyboard input: handle_sdl_events and get_input_msg of input.c, the     *)
(* switch of the main loop that acts on their result, and the loop that    *)
(* waits for the M8, which takes events as well but only obeys a request   *)
(* to quit. The user presses keys; SDL queues the events; one iteration of *)
(* either loop takes one event and turns it into a message, and the main   *)
(* loop tells the M8.                                                      *)
(*                                                                         *)
(* A byte (keycode, value of a message, note) is the set of its bits that  *)
(* are 1, since buttons, note numbers and special messages share keycode   *)
(* and are compared with each other.                                       *)
(***************************************************************************)
EXTENDS Integers, Sequences

CONSTANTS
  Key,          \* the keys of the keyboard
  Hands,        \* sets of keys: a user has the hands on one of them
  Kind,         \* Kind[k]: "plain", "reset", "escape", "alt-F4", "alt-enter",
                \* "octave-", "octave+", "velocity-", "velocity+" or the last
                \* two with ALT, "fine-" and "fine+"
  Buttons,      \* Buttons[k]: the M8 buttons the configuration gives k
  Note,         \* Note[k]: the semitone of k in keyjazz, or NoNote
  NoNote,
  StaleEvent,   \* SDL_PollEvent may leave the event before in the structure
  Closable,     \* the user may close the window
  LostWrites,   \* a write to the M8 may fail
  MaxQueue      \* the events that wait in the queue, at most

Bit == 0 .. 7
Bits(n) == {b \in Bit : (n \div 2 ^ b) % 2 = 1}

key_start == 3
key_select == 4
key_opt == 1
key_edit == 0
Chord == {key_start, key_select, key_opt, key_edit}

\* A key is one button, or the two of key_delete, or none.  The notes are on
\* letters and digits.
ASSUME InputAssumption ==
  /\ Buttons \in [Key -> {{b} : b \in Bit} \cup {{key_opt, key_edit}, {}}]
  /\ \A k \in Key : Note[k] # NoNote => Kind[k] \in {"plain", "reset"}
  /\ NoNote \notin Nat
  /\ Note \in [Key -> (0 .. 28) \cup {NoNote}]
  /\ Hands \subseteq SUBSET Key
  /\ Closable \in BOOLEAN /\ StaleEvent \in BOOLEAN /\ LostWrites \in BOOLEAN
  /\ MaxQueue \in Nat

VARIABLES
  hands,              \* the keys this user uses
  pressed,            \* the keys the user holds down
  queue,              \* SDL's event queue
  event,              \* the SDL_Event on the stack of handle_sdl_events
  keycode,
  keyjazz_enabled, keyjazz_base_octave, keyjazz_velocity,
  prev_input, prev_note,
  run,
  buttons, note,      \* the last controller byte and note byte the M8 took
  lost,               \* which of the two had its last write lost
  down,               \* the keys held down as of the events taken so far
  disturbed           \* what has happened, of the Disturbances

keyjazzVars == <<keyjazz_enabled, keyjazz_base_octave, keyjazz_velocity>>
mainVars == <<prev_input, prev_note, run, buttons, note, lost>>
userVars == <<hands, pressed>>
seenVars == <<down, disturbed>>
vars == <<userVars, queue, event, keycode, keyjazzVars, mainVars, seenVars>>

\* The numbers 1 and 2.
msg_quit == {0}
msg_reset_display == {1}

\* The note byte 0xFF ends the note.
Off == Bits(255)

NoEvent == [type |-> "none"]

Event == {NoEvent, [type |-> "QUIT"]} \cup [type : {"KEYDOWN", "KEYUP"}, key : Key]

Init ==
  /\ hands \in Hands
  /\ pressed = {}
  /\ queue = <<>>
  /\ event = NoEvent
  /\ keycode = {}
  /\ keyjazz_enabled = FALSE
  /\ keyjazz_base_octave = 2
  /\ keyjazz_velocity = 100
  /\ prev_input = {}
  /\ prev_note = {}
  /\ run \in {"RUN", "WAIT_FOR_DEVICE"}
  /\ buttons = {}
  /\ note = Off
  /\ lost = {}
  /\ down = {}
  /\ disturbed = IF run = "RUN" THEN {} ELSE {"waiting"}
-----------------------------------------------------------------------------
(* The user and SDL. *)

Enqueue(e) == Len(queue) < MaxQueue /\ queue' = Append(queue, e)

Press(k) ==
  /\ k \in hands \ pressed
  /\ Enqueue([type |-> "KEYDOWN", key |-> k])
  /\ pressed' = pressed \cup {k}
  /\ UNCHANGED <<hands, event, keycode, keyjazzVars, mainVars, seenVars>>

Release(k) ==
  /\ k \in pressed
  /\ Enqueue([type |-> "KEYUP", key |-> k])
  /\ pressed' = pressed \ {k}
  /\ UNCHANGED <<hands, event, keycode, keyjazzVars, mainVars, seenVars>>

CloseWindow ==
  /\ Closable
  /\ Enqueue([type |-> "QUIT"])
  /\ UNCHANGED <<userVars, event, keycode, keyjazzVars, mainVars, seenVars>>
-----------------------------------------------------------------------------
(* input.c. *)

IsKey(e) == e.type \in {"KEYDOWN", "KEYUP"}

\* e presses a key of this kind.
Presses(e, kind) == e.type = "KEYDOWN" /\ Kind[e.key] = kind

Message(type, value) == [type |-> type, value |-> value]

handle_normal_keys(k) ==
  IF Kind[k] = "reset" THEN Message("special", msg_reset_display)
  ELSE Message("normal", Buttons[k])

\* A key that is no note is a normal key with the value handle_normal_keys gave
\* it, be that a button or the number of a special message.
handle_keyjazz(k, value) ==
  IF Note[k] = NoNote THEN Message("normal", value)
  ELSE Message("keyjazz", Bits(Note[k] + 12 * keyjazz_base_octave))

\* The message an event makes, keyjazz being on or off after it.
Translate(e, jazz) ==
  CASE e.type = "QUIT" \/ Presses(e, "alt-F4") -> Message("special", msg_quit)
    [] ~IsKey(e) \/ Presses(e, "alt-enter")    -> Message("normal", {})
    [] OTHER -> IF jazz THEN handle_keyjazz(e.key, handle_normal_keys(e.key).value)
                        ELSE handle_normal_keys(e.key)

\* Mutant: releasing a key clears the whole keycode.
NextKeycodeCleared(e, key) ==
  IF key.type = "normal"
  THEN IF e.type = "KEYDOWN" THEN keycode \cup key.value
       ELSE IF e.type = "KEYUP" THEN {} ELSE keycode
  ELSE IF e.type = "KEYDOWN" THEN key.value ELSE {}

\* What the message does to keycode.
NextKeycode(e, key) ==
  IF key.type = "normal"
  THEN IF e.type = "KEYDOWN" THEN keycode \cup key.value ELSE keycode \ key.value
  ELSE IF e.type = "KEYDOWN" THEN key.value ELSE {}

\* get_input_msg: pressed buttons come from keycode, and four of them together
\* are a request to reset the display.
InputMessage(key, code, jazz) ==
  IF ~jazz /\ code = Chord THEN Message("special", msg_reset_display)
  ELSE IF key.type = "normal" THEN Message("normal", code)
  ELSE key

\* Mutant: the steps of the velocity are not bounded below.
AdjustUnbounded(e) ==
  keyjazz_velocity' =
    CASE keyjazz_enabled' /\ Presses(e, "fine-")     -> keyjazz_velocity - 1
      [] keyjazz_enabled' /\ Presses(e, "fine+")     -> keyjazz_velocity + 1
      [] keyjazz_enabled' /\ Presses(e, "velocity-") -> keyjazz_velocity - 16
      [] keyjazz_enabled' /\ Presses(e, "velocity+") -> keyjazz_velocity + 16
      [] OTHER                                       -> keyjazz_velocity

AdjustVelocity(e) ==
  keyjazz_velocity' =
    CASE keyjazz_enabled' /\ Presses(e, "fine-") /\ keyjazz_velocity > 1       -> keyjazz_velocity - 1
      [] keyjazz_enabled' /\ Presses(e, "fine+") /\ keyjazz_velocity < 127     -> keyjazz_velocity + 1
      [] keyjazz_enabled' /\ Presses(e, "velocity-") /\ keyjazz_velocity > 16  -> keyjazz_velocity - 16
      [] keyjazz_enabled' /\ Presses(e, "velocity+") /\ keyjazz_velocity < 111 -> keyjazz_velocity + 16
      [] OTHER                                                                 -> keyjazz_velocity

AdjustOctave(e) ==
  keyjazz_base_octave' =
    CASE keyjazz_enabled' /\ Presses(e, "octave-") /\ keyjazz_base_octave > 0 -> keyjazz_base_octave - 1
      [] keyjazz_enabled' /\ Presses(e, "octave+") /\ keyjazz_base_octave < 8 -> keyjazz_base_octave + 1
      [] OTHER                                                                -> keyjazz_base_octave
-----------------------------------------------------------------------------
(* The switch in the main loop. *)

\* send_msg_controller and send_msg_keyjazz.  Nobody looks at their result.
Send(variable, name, value) ==
  \/ variable' = value /\ lost' = lost \ {name}
  \/ LostWrites /\ lost' = lost \cup {name} /\ UNCHANGED variable

Normal(msg) ==
  /\ msg.type = "normal"
  /\ prev_input' = msg.value
  /\ IF msg.value # prev_input THEN Send(buttons, "buttons", msg.value)
                               ELSE UNCHANGED <<buttons, lost>>
  /\ UNCHANGED <<prev_note, run, note>>

NoteOn(msg, e) == msg.value # {} /\ e.type = "KEYDOWN" /\ msg.value # prev_input

\* Mutant: the note goes off only when its key was the last input.
NoteOffLast(msg, e) == msg.value # {} /\ e.type = "KEYUP" /\ msg.value = prev_input

NoteOff(msg, e) == msg.value # {} /\ e.type = "KEYUP" /\ msg.value = prev_note

Jazz(msg, e) ==
  /\ msg.type = "keyjazz"
  /\ prev_input' = msg.value
  /\ prev_note' = IF NoteOn(msg, e) THEN msg.value ELSE prev_note
  /\ CASE NoteOn(msg, e)  -> Send(note, "note", msg.value)
       [] NoteOff(msg, e) -> Send(note, "note", Off)
       [] OTHER           -> UNCHANGED <<note, lost>>
  /\ UNCHANGED <<run, buttons>>

Special(msg) ==
  /\ msg.type = "special"
  /\ prev_input' = msg.value
  /\ run' = IF msg.value # prev_input /\ msg.value = msg_quit THEN "QUIT" ELSE run
  /\ UNCHANGED <<prev_note, buttons, note, lost>>

\* While the program waits for the M8 only a request to quit is looked at.
Waiting(msg) ==
  /\ run' = IF msg = Message("special", msg_quit) THEN "QUIT" ELSE run
  /\ UNCHANGED <<prev_input, prev_note, buttons, note, lost>>

\* What may part the M8 from the keys: a special message, which leaves its
\* number in keycode; ESC or the octave, when they change the meaning of a key
\* that is down; a note whose byte prev_input cannot tell from the buttons of
\* ESC, usually none: the lowest note of octave 0; and the wait for the M8, until
\* the main loop tells it the first buttons.
Disturbances == {"special", "meaning", "byte", "waiting"}

Disturbs(d, e, key) ==
  CASE d = "special" -> key.type = "special"
    [] d = "meaning" -> /\ \/ keyjazz_enabled' # keyjazz_enabled
                           \/ keyjazz_base_octave' # keyjazz_base_octave
                        /\ down' \ {e.key} # {}
    [] d = "byte"    -> /\ key.type = "keyjazz"
                        /\ \E k \in hands : Kind[k] = "escape" /\ Buttons[k] = key.value
    [] d = "waiting" -> run = "WAIT_FOR_DEVICE"

\* An iteration of either loop, e being what SDL_PollEvent left in event.
Handle(e) ==
  /\ event' = e
  /\ keyjazz_enabled' = (keyjazz_enabled # Presses(e, "escape"))
  /\ AdjustVelocity(e)
  /\ AdjustOctave(e)
  /\ LET key == Translate(e, keyjazz_enabled')
         msg == InputMessage(key, keycode', keyjazz_enabled')
     IN /\ keycode' = NextKeycode(e, key)
        /\ \/ run = "RUN" /\ (Normal(msg) \/ Jazz(msg, e) \/ Special(msg))
           \/ run = "WAIT_FOR_DEVICE" /\ Waiting(msg)
  /\ down' = CASE e.type = "KEYDOWN" -> down \cup {e.key}
               [] e.type = "KEYUP"   -> down \ {e.key}
               [] OTHER              -> down
  /\ disturbed' = (disturbed \ {"waiting"}) \cup
       {d \in Disturbances : Disturbs(d, e, Translate(e, keyjazz_enabled'))}
  /\ UNCHANGED userVars

PollEvent ==
  /\ run # "QUIT"
  /\ queue # <<>>
  /\ queue' = Tail(queue)
  /\ Handle(Head(queue))

\* SDL_PollEvent found nothing and wrote nothing; its result is not looked at.
PollNothing ==
  /\ run # "QUIT"
  /\ queue = <<>>
  /\ \E e \in {NoEvent} \cup (IF StaleEvent THEN {event} ELSE {}) : Handle(e)
  /\ UNCHANGED queue

\* The M8 is there, and the main loop begins; Lifecycle has what leads to it.
Found ==
  /\ run = "WAIT_FOR_DEVICE"
  /\ run' = "RUN"
  /\ UNCHANGED <<userVars, queue, event, keycode, keyjazzVars, prev_input, prev_note,
                 buttons, note, lost, seenVars>>
-----------------------------------------------------------------------------
Next ==
  \/ \E k \in Key : Press(k) \/ Release(k)
  \/ CloseWindow
  \/ PollEvent
  \/ PollNothing
  \/ Found

Spec == Init /\ [][Next]_vars
-----------------------------------------------------------------------------
TypeOK ==
  /\ hands \in Hands
  /\ pressed \subseteq hands
  /\ queue \in Seq(Event)
  /\ Len(queue) <= MaxQueue
  /\ event \in Event
  /\ keycode \subseteq Bit
  /\ keyjazz_enabled \in BOOLEAN
  /\ keyjazz_base_octave \in 0 .. 8
  /\ keyjazz_velocity \in 1 .. 127
  /\ prev_input \subseteq Bit
  /\ prev_note \subseteq Bit
  /\ run \in {"WAIT_FOR_DEVICE", "RUN", "QUIT"}
  /\ buttons \subseteq Bit
  /\ note \subseteq Bit
  /\ lost \subseteq {"buttons", "note"}
  /\ down \subseteq hands
  /\ disturbed \subseteq Disturbances

\* ALT+ENTER is no button, whatever ENTER is.
Held == UNION {Buttons[k] : k \in {k \in down : Kind[k] # "alt-enter"}}

\* No two keys this user uses share a button.
OneKeyEach == \A k, l \in hands : k # l => Buttons[k] \cap Buttons[l] = {}

\* With keyjazz off the M8 has exactly the buttons that are held, after any
\* sequence of presses and releases of keys with different buttons, unless its
\* last write was lost: one lost write is made good by the next.  Keys that were
\* pressed while the program waited for the M8 count from the first iteration of
\* the main loop on.  While the chord is held the M8 keeps what it had.
ButtonsAgree ==
  OneKeyEach /\ ~keyjazz_enabled /\ Held # Chord /\ disturbed = {} =>
    /\ keycode = Held
    /\ "buttons" \in lost \/ buttons = Held

\* Once no key of a note is down the M8 plays none, whatever keys were pressed
\* over each other, unless the last write of a note was lost, or ESC or the
\* octave changed the meaning of a key that was down.
NoHangingNote ==
  (\A k \in down : Note[k] = NoNote) /\ "meaning" \notin disturbed =>
    note = Off \/ "note" \in lost
-----------------------------------------------------------------------------
(* What comments of input.c say, and the code does not do. *)

\* "SDL quit events (for example, window close)" (input.c:238) and "ALT+F4
\* quits program" (input.c:264): the main loop ends on such an event.
QuitObeyed ==
  [][event' = [type |-> "QUIT"] => run' = "QUIT"]_vars
=============================================================================
