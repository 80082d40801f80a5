------------------------------ MODULE MCInput -------------------------------
(***************************************************************************)
(* Keys of the default configuration of config.c that differ in what the   *)
(* code does with them, and the sets of them the runs use.                 *)
(***************************************************************************)
EXTENDS Input

\* x is the second key of the edit button and a note in keyjazz, b is opt and
\* a note, u resets the display and is a note, z and c are notes only.
Table ==
  [a   |-> [kind |-> "plain",     buttons |-> {key_edit},   note |-> NoNote],
   x   |-> [kind |-> "plain",     buttons |-> {key_edit},   note |-> 2],
   b   |-> [kind |-> "plain",     buttons |-> {key_opt},    note |-> 7],
   n   |-> [kind |-> "plain",     buttons |-> {key_select}, note |-> 9],
   m   |-> [kind |-> "plain",     buttons |-> {key_start},  note |-> 11],
   u   |-> [kind |-> "reset",     buttons |-> {},           note |-> 23],
   z   |-> [kind |-> "plain",     buttons |-> {},           note |-> 0],
   c   |-> [kind |-> "plain",     buttons |-> {},           note |-> 4],
   esc |-> [kind |-> "escape",    buttons |-> {},           note |-> NoNote],
   f4  |-> [kind |-> "alt-F4",    buttons |-> {},           note |-> NoNote],
   ret |-> [kind |-> "alt-enter", buttons |-> {},           note |-> NoNote],
   div |-> [kind |-> "octave-",   buttons |-> {},           note |-> NoNote],
   mul |-> [kind |-> "octave+",   buttons |-> {},           note |-> NoNote],
   min |-> [kind |-> "velocity-", buttons |-> {},           note |-> NoNote],
   pls |-> [kind |-> "velocity+", buttons |-> {},           note |-> NoNote],
   fmn |-> [kind |-> "fine-",     buttons |-> {},           note |-> NoNote],
   fpl |-> [kind |-> "fine+",     buttons |-> {},           note |-> NoNote]]

MCHands ==
  {{"a", "b", "n", "m"}, {"a", "u", "ret"}, {"esc", "x", "z"}, {"esc", "mul"},
   {"esc", "div", "z", "a"}, {"esc", "min", "pls"}, {"esc", "fmn"}}

MCKind == [k \in Key |-> Table[k].kind]
MCButtons == [k \in Key |-> Table[k].buttons]
MCNote == [k \in Key |-> Table[k].note]
=============================================================================
