------------------------------ MODULE IniFile -------------------------------
(***************************************************************************)
(* Config with the file as it is on the disk: a text, which write_config   *)
(* writes line by line, the user lays out as he likes and ini.c splits.    *)
(* Each step of Config that changes the file changes the text too; what    *)
(* the reader finds in the text has to be what Config says is in the file. *)
(***************************************************************************)
EXTENDS Config, Ini
LOCAL INSTANCE SequencesExt
LOCAL INSTANCE FiniteSetsExt

CONSTANTS
  Order,      \* the entries of each section in the order of write_config
  Spelling,   \* the characters of each text
  Width,      \* how many bytes each word takes in the file
  Styles      \* how the user writes, of the styles below

Sections == <<"graphics", "audio", "keyboard">>

ASSUME IniFileAssumption ==
  /\ DOMAIN Order = ToSet(Sections)
  /\ ToSet(Order["graphics"]) = {"fullscreen"} \cup Flags \cup Numbers
  /\ ToSet(Order["audio"]) = {"audio_enabled", "audio_buffer_size", "audio_device_name"}
  /\ ToSet(Order["keyboard"]) = Keys
  /\ Styles \subseteq {"plain", "spaced", "quoted", "noisy"}

VARIABLE text

EndLine == <<"\n">>

-----------------------------------------------------------------------------
(* write_config. *)

LINELEN == 50

Bytes(line) ==
  FoldLeft(LAMBDA sum, c : sum + IF c \in DOMAIN Width THEN Width[c] ELSE 1, 0, line)

\* snprintf writes LINELEN - 1 bytes at most, and a zero.
Truncated(line) ==
  SubSeq(line, 1, Max({n \in 0 .. Len(line) : Bytes(SubSeq(line, 1, n)) <= LINELEN - 1}))

\* A name is written as it is, whatever its length.
Shown(e, v) == IF e = "audio_device_name" /\ v # NoName THEN v ELSE TextOf(e, v)

Line(e, v) == Truncated(<<e, "=">> \o Spelling[Shown(e, v)] \o EndLine)

Header(section) == <<"[", section, "]">> \o EndLine

\* The lines of all sections, given those of an entry and of a header.
Lines(LineOf(_), HeaderOf(_)) ==
  FlattenSeq([i \in DOMAIN Sections |->
    LET entries == Order[Sections[i]]
    IN HeaderOf(Sections[i]) \o FlattenSeq([j \in DOMAIN entries |-> LineOf(entries[j])])])

write_config(c) == Lines(LAMBDA e : Line(e, c[e]), Header)

-----------------------------------------------------------------------------
(* The user's editor. *)

\* A quote in the value is escaped.
Quoted(t) ==
  <<"\"">> \o FlattenSeq([i \in DOMAIN t |-> IF t[i] = "\"" THEN <<"\\", "\"">> ELSE <<t[i]>>])
  \o <<"\"">>

\* A text that begins with a quote, or has blanks around it, cannot be written
\* without quotes.
UserText(t) ==
  IF t[1] \in {"\"", " "} \/ t[Len(t)] = " " THEN Quoted(t) ELSE t

\* An entry with the text t, in the four styles: as write_config does; with
\* blanks and carriage returns; with quotes and a remark; and after lines that
\* say nothing, with a repetition, which does not count.
UserLine(style, e, t) ==
  LET plain == <<e, "=">> \o UserText(t) \o EndLine
  IN CASE style = "plain"  -> plain
       [] style = "spaced" -> <<" ", e, " ", "=", " ">> \o UserText(t) \o <<" ", "\r", "\n">>
       [] style = "quoted" -> <<e, "=">> \o Quoted(t) \o <<";", "remark", "\n">>
       [] style = "noisy"  -> <<";", e, "=", "remark", "\n", e, "\n", e, "=", " ", "\n">>
                              \o plain \o <<e, "=", "remark", "\n">>

UserHeader(style, section) ==
  CASE style = "plain"  -> Header(section)
    [] style = "spaced" -> <<" ", "\r", "\n", " ", "[", section, "]", " ", "\n">>
    [] style = "quoted" -> <<"[", section, "\n">>
    [] style = "noisy"  -> <<"[", section, "]", ";", "remark", "\n">>

Layout(style, f) ==
  Lines(LAMBDA e : IF e \in DOMAIN f THEN UserLine(style, e, Spelling[f[e]]) ELSE <<>>,
        LAMBDA section : UserHeader(style, section))

-----------------------------------------------------------------------------
(* The reader. *)

SectionOf(e) == CHOOSE section \in DOMAIN Order : e \in ToSet(Order[section])

Found(s, e) == ini_get(s, SectionOf(e), e)

\* The entries read_config finds, with the characters of each of them.
ini_load(t) ==
  LET s == split_data(t)
  IN [e \in {e \in Entries : Found(s, e) # Missing} |-> Found(s, e)]

-----------------------------------------------------------------------------
IniInit == Init /\ text = <<>>

\* What the user edits is saved, in one of the styles, before the program is
\* started again.
Unsaved == <<"unsaved">>

EditText ==
  /\ Edit
  /\ text' = IF file' = Blank THEN <<>> ELSE Unsaved

StartText ==
  /\ Start
  /\ IF text = Unsaved THEN \E style \in Styles : text' = Layout(style, file)
     ELSE UNCHANGED text

EmptyText == OpenForWrite /\ text' = <<>>

WriteText == Write /\ text' = write_config(conf)

KeepText ==
  /\ ReadNothing \/ ReadFile \/ ReadFault \/ OpenFails \/ WriteFails \/ End
  /\ UNCHANGED text

IniNext == EditText \/ StartText \/ EmptyText \/ WriteText \/ KeepText

IniSpec == IniInit /\ [][IniNext]_<<vars, text>>

\* What read_config finds in the file is what the user meant, in whichever of
\* the styles he wrote it, and what Config says is left of what write_config wrote,
\* whose device names lose blanks, quotes or their end (config.c:90-92,
\* ini.c:121-189).
TextSaysFile ==
  pc = "read" =>
    IF file = Blank THEN text = <<>>
    ELSE ini_load(text) = [e \in DOMAIN file |-> Spelling[file[e]]]
=============================================================================
