-------------------------------- MODULE Ini --------------------------------
(***************************************************************************)
(* ini.c: how the text of a file becomes strings, and how an entry is      *)
(* looked up in them.                                                      *)
(*                                                                         *)
(* A text is a sequence of characters.  A word of the file counts as one   *)
(* character, as ini.c treats its letters alike, and it stands for every   *)
(* spelling in upper and lower case.  split_data works in the file's       *)
(* memory and leaves strings there with zeros between them; here it        *)
(* returns the sequence of these strings.                                  *)
(***************************************************************************)
EXTENDS Naturals, Sequences
LOCAL INSTANCE SequencesExt

Missing == <<>>   \* NULL, which no string is equal to

\* Blanks, tabs and carriage returns.
Spaces == {" ", "\r"}

\* strcspn: where the first of the characters in S is.
Span(t, S) ==
  LET i == SelectInSeq(t, LAMBDA c : c \in S) IN IF i = 0 THEN Len(t) + 1 ELSE i

Before(t, S) == SubSeq(t, 1, Span(t, S) - 1)

From(t, S) == SubSeq(t, Span(t, S), Len(t))

discard_line(t) == From(t, {"\n"})

trim_back(t) == SubSeq(t, 1, SelectLastInSeq(t, LAMBDA c : c \notin Spaces))

TrimFront(t) ==
  LET i == SelectInSeq(t, LAMBDA c : c \notin Spaces)
  IN IF i = 0 THEN <<>> ELSE SubSeq(t, i, Len(t))

Unescaped(c) ==
  CASE c = "r" -> "\r" [] c = "n" -> "\n" [] c = "t" -> " " [] OTHER -> c

\* Mutant: an escaped character ends the value.
RECURSIVE unescape_to_first(_)
unescape_to_first(t) ==
  IF t = <<>> \/ Head(t) \in {"\"", "\r", "\n", "\\"} THEN <<>>
  ELSE <<Head(t)>> \o unescape_to_first(Tail(t))

\* The value in quotes, t being what follows the opening one.
RECURSIVE unescape_quoted_value(_)
unescape_quoted_value(t) ==
  IF t = <<>> \/ Head(t) \in {"\"", "\r", "\n"} THEN <<>>
  ELSE IF Head(t) # "\\" THEN <<Head(t)>> \o unescape_quoted_value(Tail(t))
  ELSE IF Len(t) = 1 \/ t[2] \in {"\r", "\n"} THEN <<>>
  ELSE <<Unescaped(t[2])>> \o unescape_quoted_value(SubSeq(t, 3, Len(t)))

\* A key with its value.  A string without characters leaves only zeros: when
\* the key is missing the value is taken for a key.
Pair(key, value) == SelectSeq(<<key, value>>, LAMBDA s : s # <<>>)

\* The strings of the line of an entry at the start of t, none when there is no
\* "=" or no value.
Entry(t) ==
  LET key   == trim_back(Before(t, {"=", "\n"}))
      rest  == From(t, {"=", "\n"})
      value == TrimFront(Tail(rest))
  IN IF rest = <<>> \/ Head(rest) = "\n" THEN <<>>
     ELSE IF value = <<>> \/ Head(value) = "\n" THEN <<>>
     ELSE IF Head(value) # "\"" THEN Pair(key, trim_back(Before(value, {"\n"})))
     ELSE LET string == unescape_quoted_value(Tail(value))
          IN IF string = <<>> THEN <<>> ELSE Pair(key, string)

\* A section keeps its bracket, so that ini_get can tell it from a key.
Section(t) == Before(t, {"]", "\n"})

AfterSection(t) ==
  LET rest == From(t, {"]", "\n"}) IN IF rest = <<>> THEN <<>> ELSE Tail(rest)

RECURSIVE split_data(_)
split_data(t) ==
  IF t = <<>> THEN <<>>
  ELSE IF Head(t) \in Spaces \cup {"\n"} THEN split_data(Tail(t))
  ELSE IF Head(t) = ";" THEN split_data(discard_line(t))
  ELSE IF Head(t) = "[" THEN <<Section(t)>> \o split_data(AfterSection(t))
  ELSE Entry(t) \o split_data(discard_line(t))

\* The value of the first entry with this section and key, from the strings s
\* on, in the section current.  The value of a key at the very end is the empty
\* string.
RECURSIVE Lookup(_, _, _, _)
Lookup(s, current, section, key) ==
  IF s = <<>> THEN Missing
  ELSE IF Head(s[1]) = "[" THEN Lookup(Tail(s), Tail(s[1]), section, key)
  ELSE IF current = section /\ s[1] = key THEN IF Len(s) = 1 THEN <<"">> ELSE s[2]
  ELSE Lookup(SubSeq(s, 3, Len(s)), current, section, key)

\* Before the first section current_section is the empty string.
ini_get(s, section, key) == Lookup(s, <<>>, <<section>>, <<key>>)
=============================================================================
