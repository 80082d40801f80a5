------------------------------- MODULE Config -------------------------------
(***************************************************************************)
(* config.c and ini.c: the settings and the file they are kept in.  At     *)
(* every start read_config reads the file, on top of the defaults, and     *)
(* write_config writes all of it anew.  Between two runs of the program    *)
(* the user edits the file.  The program may be killed at any point.       *)
(*                                                                         *)
(* A file is a function from the entries that are in it to their texts, or *)
(* Blank when it is missing or has no byte.  An entry stands for its       *)
(* section and its key.  IniFile relates it to the text of the file, with  *)
(* comments, quotes and blanks.                                            *)
(***************************************************************************)
EXTENDS Naturals

CONSTANTS
  Blank,         \* no file, or an empty one
  Flags,         \* use_gpu and wait_for_device
  Numbers,       \* idle_ms and wait_packets
  Keys,          \* the entries of the section keyboard
  FlagTexts,     \* what a user may write for a flag
  NumberTexts,   \* what a user may write for a number
  Ints,          \* the values of numbers
  Atoi,          \* the number SDL_atoi reads in a text
  Decimal,       \* the text %d makes of a number
  ShortNames,    \* names of audio devices that fit into a line
  LongNames,     \* names of more than 30 characters
  ReadBack,      \* the name that is read where a name was written
  Defaults       \* what init_config sets

NoName == "NULL"

Switches == {"fullscreen", "audio_enabled"} \cup Flags
Quantities == {"audio_buffer_size"} \cup Numbers \cup Keys
Entries == Switches \cup Quantities \cup {"audio_device_name"}
Names == ShortNames \cup LongNames

TextsOf(e) ==
  IF e \in Switches THEN FlagTexts
  ELSE IF e \in Quantities THEN NumberTexts
  ELSE Names \cup {"Default"}

ValuesOf(e) ==
  IF e \in Switches THEN {0, 1}
  ELSE IF e \in Quantities THEN Ints
  ELSE Names \cup {NoName}

\* A name is written without quotes, and may be another one when it is read.
\* Something is left of each, and not the word "Default".
ASSUME ConfigAssumption ==
  /\ {"true", "false"} \subseteq FlagTexts
  /\ Atoi \in [NumberTexts -> Ints]
  /\ Decimal \in [Ints -> NumberTexts]
  /\ \A n \in Ints : Atoi[Decimal[n]] = n
  /\ ReadBack \in [Names -> Names]
  /\ ShortNames \cap LongNames = {}
  /\ {"Default", NoName} \cap Names = {}
  /\ Switches \cap Quantities = {}
  /\ "audio_device_name" \notin Switches \cup Quantities
  /\ "audio_enabled" \notin Flags
  /\ Keys \cap ({"audio_buffer_size"} \cup Numbers) = {}
  /\ DOMAIN Defaults = Entries
  /\ \A e \in Entries : Defaults[e] \in ValuesOf(e)
  /\ Defaults["audio_enabled"] = 1
  /\ \A S \in SUBSET Entries :
       Blank \notin [S -> FlagTexts \cup NumberTexts \cup Names \cup {"Default"}]
  /\ Defaults["audio_device_name"] = NoName

VARIABLES
  file,     \* m8cconfig.ini
  conf,     \* the structure conf of main()
  pc,       \* "idle": not running; "read", "open", "write": in read_config;
            \* "running"; "crashed": ended by a fault of its own
  (* History: *)
  wanted,   \* what the file said when the user last left it
  edited,   \* the user left it after the program last read it
  lost      \* since then the file was opened for writing and never written

history == <<wanted, edited, lost>>
vars == <<file, conf, pc, history>>

-----------------------------------------------------------------------------
(* Texts and values. *)

IsTrue(text) == text \in {"true", "TRUE"}

\* What the text of an entry says.
Meaning(e, text) ==
  IF e \in Switches THEN IF IsTrue(text) THEN 1 ELSE 0
  ELSE IF e \in Quantities THEN Atoi[text]
  ELSE IF text = "Default" THEN NoName ELSE text

\* The settings c, overridden by those entries in S that are in the file f.
Override(c, f, S) ==
  [e \in Entries |-> IF e \in S \cap DOMAIN f THEN Meaning(e, f[e]) ELSE c[e]]

\* What a user finds in a file: its entries, and the defaults for the others.
SaidBy(f) == IF f = Blank THEN Defaults ELSE Override(Defaults, f, Entries)

\* Both branches of the test of "audio_enabled" store 1.
read_audio_config(f, c) ==
  [Override(c, f, {"audio_buffer_size", "audio_device_name"})
     EXCEPT !["audio_enabled"] = IF "audio_enabled" \in DOMAIN f THEN 1 ELSE @]

\* Mutant: the tests for NULL are forgotten, and atoi gives what it likes.
read_graphics_unchecked(f, c) ==
  [e \in Entries |->
     IF e \in Numbers \ DOMAIN f THEN Blank
     ELSE Override(c, f, {"fullscreen"} \cup Flags \cup Numbers)[e]]

\* Only reached when "fullscreen" is in the file, see ReadFault.
read_graphics_config(f, c) == Override(c, f, {"fullscreen"} \cup Flags \cup Numbers)

read_key_config(f, c) == Override(c, f, Keys)

\* The text that will be found of a value that was written.  A name loses the
\* blanks around it, and the quotes if it begins with one; a long name is cut.
TextOf(e, v) ==
  IF e \in Switches THEN IF v = 1 THEN "true" ELSE "false"
  ELSE IF e \in Quantities THEN Decimal[v]
  ELSE IF v = NoName THEN "Default" ELSE ReadBack[v]

\* Mutant: only what differs from the defaults is written.
WrittenChanged(c) ==
  [e \in {e \in Entries : c[e] # Defaults[e]} |-> TextOf(e, c[e])]

\* Mutant: the line of an entry that was added to the settings is forgotten.
WrittenWithoutSize(c) ==
  [e \in Entries \ {"audio_buffer_size"} |-> TextOf(e, c[e])]

\* The file write_config leaves.  A line of it holds 49 characters: a long name
\* loses its end, with the end of the line, and "[keyboard]", which is the next line, becomes a
\* part of the name.  The entries after it are in no section keyboard.
Written(c) ==
  [e \in Entries \ IF c["audio_device_name"] \in LongNames THEN Keys ELSE {} |->
     TextOf(e, c[e])]

-----------------------------------------------------------------------------
(* A run of the program. *)

Init ==
  /\ file = Blank
  /\ conf = Defaults
  /\ pc = "idle"
  /\ wanted = SaidBy(Blank)
  /\ edited = FALSE
  /\ lost = FALSE

\* main() starts with init_config.
Start ==
  /\ pc = "idle"
  /\ conf' = Defaults
  /\ pc' = "read"
  /\ UNCHANGED <<file, history>>

\* ini_load gives NULL for a file that is missing or empty.
ReadNothing ==
  /\ pc = "read"
  /\ file = Blank
  /\ edited' = FALSE
  /\ pc' = "open"
  /\ UNCHANGED <<file, conf, wanted, lost>>

ReadFile ==
  /\ pc = "read"
  /\ file # Blank
  /\ "fullscreen" \in DOMAIN file
  /\ conf' = read_key_config(file,
               read_graphics_config(file, read_audio_config(file, conf)))
  /\ edited' = FALSE
  /\ pc' = "open"
  /\ UNCHANGED <<file, wanted, lost>>

\* read_graphics_config compares the text of "fullscreen" although ini_get gave
\* NULL.
ReadFault ==
  /\ pc = "read"
  /\ file # Blank
  /\ "fullscreen" \notin DOMAIN file
  /\ conf' = read_audio_config(file, conf)
  /\ pc' = "crashed"
  /\ UNCHANGED <<file, history>>

\* SDL_RWFromFile with "w" empties the file.
OpenForWrite ==
  /\ pc = "open"
  /\ file' = Blank
  /\ pc' = "write"
  /\ UNCHANGED <<conf, history>>

\* "Couldn't write into config file.": it stays as it is.
OpenFails ==
  /\ pc = "open"
  /\ pc' = "running"
  /\ UNCHANGED <<file, conf, history>>

\* The 25 lines fit into one buffer of stdio, which SDL_RWclose writes.
Write ==
  /\ pc = "write"
  /\ file' = Written(conf)
  /\ pc' = "running"
  /\ UNCHANGED <<conf, history>>

\* The disk is full: nobody looks at what SDL_RWclose returns.
WriteFails ==
  /\ pc = "write"
  /\ lost' = TRUE
  /\ pc' = "running"
  /\ UNCHANGED <<file, conf, wanted, edited>>

\* The program ends, or is killed, or has crashed.
End ==
  /\ pc # "idle"
  /\ lost' = (lost \/ pc = "write")
  /\ conf' = Defaults
  /\ pc' = "idle"
  /\ UNCHANGED <<file, wanted, edited>>

-----------------------------------------------------------------------------
(* The user, while the program does not run. *)

Leave(f) ==
  /\ pc = "idle"
  /\ file' = f
  /\ wanted' = SaidBy(f)
  /\ edited' = TRUE
  /\ lost' = FALSE
  /\ UNCHANGED <<conf, pc>>

Present == IF file = Blank THEN {} ELSE DOMAIN file

SetEntry(e) ==
  \E t \in TextsOf(e) :
    Leave([x \in Present \cup {e} |-> IF x = e THEN t ELSE file[x]])

RemoveEntry(e) ==
  /\ e \in Present
  /\ Leave([x \in Present \ {e} |-> file[x]])

RemoveFile == Leave(Blank)

Edit == RemoveFile \/ \E e \in Entries : SetEntry(e) \/ RemoveEntry(e)

Next ==
  \/ Start \/ ReadNothing \/ ReadFile \/ ReadFault
  \/ OpenForWrite \/ OpenFails \/ Write \/ WriteFails
  \/ End
  \/ Edit

Spec == Init /\ [][Next]_vars

-----------------------------------------------------------------------------
Places == {"idle", "read", "open", "write", "running", "crashed"}

\* Every setting is of the kind main() takes it for, and the file holds texts
\* of the right kind.
TypeOK ==
  /\ file # Blank =>
       /\ DOMAIN file \subseteq Entries
       /\ \A e \in DOMAIN file : file[e] \in TextsOf(e)
  /\ DOMAIN conf = Entries
  /\ DOMAIN wanted = Entries
  /\ \A e \in Entries : conf[e] \in ValuesOf(e) /\ wanted[e] \in ValuesOf(e)
  /\ pc \in Places
  /\ edited \in BOOLEAN
  /\ lost \in BOOLEAN

\* The names that the name n becomes by being written and read, any number of
\* times: those in every set with n that has the names read back of its names.
Becomes(n) ==
  {m \in Names : \A S \in SUBSET Names :
     n \in S /\ (\A x \in S : ReadBack[x] \in S) => m \in S}

\* A device name does not survive being written as it is (config.c:90-91): it
\* loses outer blanks and quotes (ini.c:149-176), one that is too long for its
\* line is cut, and takes the keys with it.
Renamed(e, v) ==
  /\ wanted["audio_device_name"] \in Names
  /\ \/ e = "audio_device_name" /\ v \in Becomes(wanted[e])
     \/ /\ e \in Keys
        /\ v = Defaults[e]
        /\ \E n \in Becomes(wanted["audio_device_name"]) : n \in LongNames

\* What the program may take for the value of an entry: what the user wrote,
\* but after a write that did not take place the default; audio cannot be
\* disabled; and a device name may be changed by writing it.
Acceptable(e, v) ==
  \/ v = wanted[e]
  \/ lost /\ v = Defaults[e]
  \/ e = "audio_enabled" /\ v = 1
  \/ Renamed(e, v)

\* However often the program is started, killed or cannot write, it runs with
\* what the user last wrote into the file, with the exceptions that Acceptable
\* names (read_config reads what write_config wrote).
SettingsKept ==
  pc \in {"open", "write", "running"} => \A e \in Entries : Acceptable(e, conf[e])

\* The program never fails on a file it wrote itself, nor on the empty one it
\* leaves when it cannot write (config.c:195): only a user who removes
\* "fullscreen" makes it crash.
OwnFileReadable == pc = "crashed" => edited
=============================================================================
