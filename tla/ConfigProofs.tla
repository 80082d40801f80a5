---------------------------- MODULE ConfigProofs ----------------------------
(* The settings survive the program, for all entries and texts. *)
EXTENDS Config, TLAPS

Name == "audio_device_name"

\* The user's file says what is wanted; a file the program wrote says what is
\* acceptable, and has the entry without which reading fails.
FileInv ==
  /\ edited => wanted = SaidBy(file)
  /\ pc \in {"open", "write", "running"} => ~edited
  /\ pc = "crashed" => edited
  /\ pc = "read" => conf = Defaults
  /\ pc = "write" => file = Blank
  /\ ~edited /\ pc # "write" =>
       /\ \A e \in Entries : Acceptable(e, SaidBy(file)[e])
       /\ file # Blank => "fullscreen" \in DOMAIN file

KeptInv == TypeOK /\ FileInv /\ SettingsKept

-----------------------------------------------------------------------------
\* Every entry is of exactly one kind.
LEMMA Kinds ==
  ASSUME NEW e \in Entries
  PROVE  /\ e \in Switches \/ e \in Quantities \/ e = Name
         /\ e \in Switches => e \notin Quantities /\ e # Name
         /\ e \in Quantities => e # Name
  BY ConfigAssumption DEF Entries, Name

\* A text means a value of the right kind.
LEMMA MeaningType ==
  ASSUME NEW e \in Entries, NEW t \in TextsOf(e)
  PROVE  Meaning(e, t) \in ValuesOf(e)
  BY Kinds, ConfigAssumption DEF Meaning, TextsOf, ValuesOf

\* What a well-formed file says is a set of settings.
LEMMA SaidType ==
  ASSUME NEW f,
         f # Blank => /\ DOMAIN f \subseteq Entries
                      /\ \A e \in DOMAIN f : f[e] \in TextsOf(e)
  PROVE  /\ DOMAIN SaidBy(f) = Entries
         /\ \A e \in Entries : SaidBy(f)[e] \in ValuesOf(e)
  BY MeaningType, ConfigAssumption DEF SaidBy, Override

\* Overriding keeps settings well-formed.
LEMMA OverrideType ==
  ASSUME NEW f, NEW c, NEW S,
         \A e \in DOMAIN f : f[e] \in TextsOf(e),
         \A e \in Entries : c[e] \in ValuesOf(e)
  PROVE  /\ DOMAIN Override(c, f, S) = Entries
         /\ \A e \in Entries : Override(c, f, S)[e] \in ValuesOf(e)
  BY MeaningType DEF Override

\* The values and the texts that write_config makes of them.
LEMMA TextType ==
  ASSUME NEW e \in Entries, NEW v \in ValuesOf(e)
  PROVE  /\ TextOf(e, v) \in TextsOf(e)
         /\ e # Name \/ v = NoName => Meaning(e, TextOf(e, v)) = v
         /\ e = Name /\ v # NoName => Meaning(e, TextOf(e, v)) = ReadBack[v]
<1>1. CASE e \in Switches
  BY <1>1, Kinds, ConfigAssumption DEF TextOf, TextsOf, Meaning, ValuesOf, IsTrue
<1>2. CASE e \in Quantities
  BY <1>2, Kinds, ConfigAssumption DEF TextOf, TextsOf, Meaning, ValuesOf
<1>3. CASE e = Name
  BY <1>3, Kinds, ConfigAssumption DEF TextOf, TextsOf, Meaning, ValuesOf, Names
<1> QED  BY <1>1, <1>2, <1>3, Kinds

-----------------------------------------------------------------------------
\* read_config: what is read over the defaults is what the file says, except
\* that audio is enabled.
LEMMA ReadSays ==
  ASSUME NEW f, f # Blank, DOMAIN f \subseteq Entries,
         NEW e \in Entries
  PROVE  LET c == read_key_config(f,
                    read_graphics_config(f, read_audio_config(f, Defaults)))
         IN  c[e] = IF e = "audio_enabled" THEN 1 ELSE SaidBy(f)[e]
<1> DEFINE a == read_audio_config(f, Defaults)
           g == read_graphics_config(f, a)
           c == read_key_config(f, g)
<1>1. a[e] = IF e = "audio_enabled" THEN 1
             ELSE Override(Defaults, f, {"audio_buffer_size", Name})[e]
  BY ConfigAssumption DEF read_audio_config, Override, Name, Entries, Switches
<1>2. g[e] = IF e \in ({"fullscreen"} \cup Flags \cup Numbers) \cap DOMAIN f
             THEN Meaning(e, f[e]) ELSE a[e]
  BY DEF read_graphics_config, Override
<1>3. c[e] = IF e \in Keys \cap DOMAIN f THEN Meaning(e, f[e]) ELSE g[e]
  BY DEF read_key_config, Override
<1>4. SaidBy(f)[e] = IF e \in DOMAIN f THEN Meaning(e, f[e]) ELSE Defaults[e]
  BY DEF SaidBy, Override
<1>5. Override(Defaults, f, {"audio_buffer_size", Name})[e] =
        IF e \in {"audio_buffer_size", Name} \cap DOMAIN f
        THEN Meaning(e, f[e]) ELSE Defaults[e]
  BY DEF Override
<1>6. "audio_enabled" \notin {"fullscreen"} \cup Flags \cup Numbers \cup Keys
  BY ConfigAssumption DEF Switches, Quantities
<1>7. e \in {"fullscreen", "audio_enabled", "audio_buffer_size", Name} \cup Flags
            \cup Numbers \cup Keys
  BY DEF Entries, Switches, Quantities, Name
<1> HIDE DEF a, g, c
<1>8. c[e] = IF e = "audio_enabled" THEN 1 ELSE SaidBy(f)[e]
  BY <1>1, <1>2, <1>3, <1>4, <1>5, <1>6, <1>7
<1> QED  BY <1>8 DEF a, g, c

\* write_config: what is read back of the settings c.
LEMMA WrittenSays ==
  ASSUME NEW c, \A e \in Entries : c[e] \in ValuesOf(e)
  PROVE  /\ Written(c) # Blank
         /\ DOMAIN Written(c) \subseteq Entries
         /\ \A e \in DOMAIN Written(c) : Written(c)[e] \in TextsOf(e)
         /\ "fullscreen" \in DOMAIN Written(c)
         /\ \A e \in Entries :
              SaidBy(Written(c))[e] =
                IF e \in Keys /\ c[Name] \in LongNames THEN Defaults[e]
                ELSE IF e = Name /\ c[e] # NoName THEN ReadBack[c[e]] ELSE c[e]
<1> DEFINE W == Written(c)
           D == Entries \ IF c[Name] \in LongNames THEN Keys ELSE {}
           Texts == FlagTexts \cup NumberTexts \cup Names \cup {"Default"}
<1>1. W = [e \in D |-> TextOf(e, c[e])]
  BY DEF Written, Name
<1>2. DOMAIN W = D /\ D \subseteq Entries
  BY <1>1
<1>3. \A e \in D : W[e] = TextOf(e, c[e]) /\ W[e] \in TextsOf(e)
  BY <1>1, TextType
<1>4. W # Blank
  <2>1. \A e \in Entries : TextsOf(e) \subseteq Texts
    BY DEF TextsOf
  <2>2. \A e \in D : TextOf(e, c[e]) \in Texts
    BY <2>1, <1>3
  <2>3. W \in [D -> Texts]
    BY <1>1, <2>2
  <2> QED  BY <2>3, <1>2, ConfigAssumption
<1>5. "fullscreen" \in D
  BY ConfigAssumption DEF Entries, Switches, Quantities
<1> HIDE DEF W, D
<1>6. \A e \in Entries :
        SaidBy(W)[e] = IF e \in D THEN Meaning(e, TextOf(e, c[e])) ELSE Defaults[e]
  BY <1>2, <1>3, <1>4 DEF SaidBy, Override
<1>7. Name \in Entries /\ Name \notin Keys
  BY ConfigAssumption DEF Entries, Name, Quantities
<1>8. ASSUME NEW e \in Entries
      PROVE  SaidBy(W)[e] =
               IF e \in Keys /\ c[Name] \in LongNames THEN Defaults[e]
               ELSE IF e = Name /\ c[e] # NoName THEN ReadBack[c[e]] ELSE c[e]
  <2>1. e \in D <=> ~(e \in Keys /\ c[Name] \in LongNames)
    BY DEF D
  <2>2. CASE e \in Keys /\ c[Name] \in LongNames
    BY <2>1, <2>2, <1>6
  <2>3. CASE ~(e \in Keys /\ c[Name] \in LongNames)
    BY <2>1, <2>3, <1>6, TextType
  <2> QED  BY <2>2, <2>3
<1> QED  BY <1>2, <1>3, <1>4, <1>5, <1>8 DEF W

\* A name becomes itself, and what is read back of what it becomes.
LEMMA BecomesMore ==
  ASSUME NEW n \in Names
  PROVE  /\ n \in Becomes(n)
         /\ \A m \in Becomes(n) : m \in Names /\ ReadBack[m] \in Becomes(n)
<1>1. n \in Becomes(n)
  BY DEF Becomes
<1>2. ASSUME NEW m \in Becomes(n)
      PROVE  m \in Names /\ ReadBack[m] \in Becomes(n)
  <2>1. m \in Names /\ ReadBack[m] \in Names
    BY <1>2, ConfigAssumption DEF Becomes
  <2>2. ASSUME NEW S \in SUBSET Names, n \in S, \A x \in S : ReadBack[x] \in S
        PROVE  ReadBack[m] \in S
    <3>1. m \in S
      BY <1>2, <2>2 DEF Becomes
    <3> QED  BY <2>2, <3>1
  <2> QED  BY <2>1, <2>2 DEF Becomes
<1> QED  BY <1>1, <1>2

\* Writing acceptable settings leaves a file that says acceptable settings.
LEMMA WrittenAcceptable ==
  ASSUME NEW c, \A e \in Entries : c[e] \in ValuesOf(e),
         \A e \in Entries : Acceptable(e, c[e])
  PROVE  \A e \in Entries : Acceptable(e, SaidBy(Written(c))[e])
<1>1. Name \in Entries /\ Name \notin Keys /\ Name # "audio_enabled"
  BY ConfigAssumption DEF Entries, Name, Quantities, Switches
<1> TAKE e \in Entries
<1>2. SaidBy(Written(c))[e] =
        IF e \in Keys /\ c[Name] \in LongNames THEN Defaults[e]
        ELSE IF e = Name /\ c[e] # NoName THEN ReadBack[c[e]] ELSE c[e]
  BY WrittenSays
<1>3. CASE c[Name] = NoName
  <2>1. NoName \notin LongNames
    BY ConfigAssumption DEF Names
  <2> QED  BY <1>1, <1>2, <1>3, <2>1
<1>4. CASE c[Name] # NoName
  <2>1. Defaults[Name] = NoName
    BY ConfigAssumption DEF Name
  <2>2. c[Name] \in Names
    BY <1>1, <1>4, Kinds DEF ValuesOf
  <2>3. wanted[Name] \in Names /\ c[Name] \in Becomes(wanted[Name])
    <3>1. c[Name] = wanted[Name] \/ Renamed(Name, c[Name])
      BY <1>1, <1>4, <2>1 DEF Acceptable
    <3>2. CASE c[Name] = wanted[Name]
      BY <2>2, <3>2, BecomesMore
    <3>3. CASE Renamed(Name, c[Name])
      BY <1>1, <3>3 DEF Renamed, Name
    <3> QED  BY <3>1, <3>2, <3>3
  <2>4. ReadBack[c[Name]] \in Becomes(wanted[Name])
    BY <2>3, BecomesMore
  <2>5. CASE e \in Keys /\ c[Name] \in LongNames
    <3>1. Renamed(e, Defaults[e])
      BY <2>3, <2>5 DEF Renamed, Name
    <3> QED  BY <1>2, <2>5, <3>1 DEF Acceptable
  <2>6. CASE e = Name
    <3>1. Renamed(e, ReadBack[c[e]])
      BY <2>3, <2>4, <2>6 DEF Renamed, Name
    <3> QED  BY <1>1, <1>2, <1>4, <2>6, <3>1 DEF Acceptable
  <2>7. CASE ~(e \in Keys /\ c[Name] \in LongNames) /\ e # Name
    BY <1>2, <2>7
  <2> QED  BY <2>5, <2>6, <2>7
<1> QED  BY <1>3, <1>4
-----------------------------------------------------------------------------
LEMMA KeptInit == Init => KeptInv
<1> SUFFICES ASSUME Init PROVE KeptInv
  OBVIOUS
<1>1. TypeOK
  BY ConfigAssumption DEF Init, TypeOK, SaidBy, Places
<1> QED
  BY <1>1 DEF Init, KeptInv, FileInv, SettingsKept, Acceptable, SaidBy

LEMMA KeptStep == KeptInv /\ [Next]_vars => KeptInv'
<1> SUFFICES ASSUME TypeOK, FileInv, SettingsKept, [Next]_vars
             PROVE  KeptInv'
  BY DEF KeptInv
<1> USE DEF Places
<1>1. CASE Start
  <2>1. TypeOK'
    BY <1>1, ConfigAssumption DEF Start, history, TypeOK
  <2> QED
    BY <1>1, <2>1 DEF Start, history, KeptInv, FileInv, SettingsKept, Acceptable, Renamed
<1>2. CASE ReadNothing
  <2>1. SaidBy(file) = Defaults /\ conf = Defaults
    BY <1>2 DEF ReadNothing, FileInv, SaidBy
  <2>2. \A e \in Entries : Acceptable(e, SaidBy(file)[e])
    BY <1>2 DEF ReadNothing, FileInv, Acceptable
  <2>3. TypeOK'
    BY <1>2 DEF ReadNothing, TypeOK
  <2> QED
    BY <1>2, <2>1, <2>2, <2>3
    DEF ReadNothing, KeptInv, FileInv, SettingsKept, Acceptable, Renamed
<1>3. CASE ReadFile
  <2>1. /\ file # Blank /\ conf = Defaults
        /\ DOMAIN file \subseteq Entries
        /\ \A e \in DOMAIN file : file[e] \in TextsOf(e)
    BY <1>3 DEF ReadFile, FileInv, TypeOK
  <2>2. \A e \in Entries : Acceptable(e, SaidBy(file)[e])
    BY <1>3 DEF ReadFile, FileInv, Acceptable
  <2>3. \A e \in Entries :
          conf'[e] = IF e = "audio_enabled" THEN 1 ELSE SaidBy(file)[e]
    BY <1>3, <2>1, ReadSays DEF ReadFile
  <2>4. \A e \in Entries : Acceptable(e, conf'[e])
    BY <2>2, <2>3 DEF Acceptable
  <2>5. \A e \in Entries : conf'[e] \in ValuesOf(e)
    BY <2>1, <2>3, SaidType DEF ValuesOf, Switches
  <2>6. DOMAIN conf' = Entries
    BY <1>3 DEF ReadFile, read_key_config, Override
  <2>7. TypeOK'
    BY <1>3, <2>5, <2>6 DEF ReadFile, TypeOK
  <2> QED
    BY <1>3, <2>2, <2>4, <2>7
    DEF ReadFile, KeptInv, FileInv, SettingsKept, Acceptable, Renamed
<1>4. CASE ReadFault
  <2>1. edited /\ conf = Defaults
    BY <1>4 DEF ReadFault, FileInv
  <2>2. \A e \in DOMAIN file : file[e] \in TextsOf(e)
    BY <1>4 DEF ReadFault, TypeOK
  <2>3. /\ DOMAIN conf' = Entries
        /\ \A e \in Entries : conf'[e] \in ValuesOf(e)
    <3> DEFINE o == Override(conf, file, {"audio_buffer_size", Name})
    <3>1. DOMAIN o = Entries /\ \A e \in Entries : o[e] \in ValuesOf(e)
      BY <2>2, OverrideType DEF TypeOK
    <3>2. conf' = [o EXCEPT !["audio_enabled"] =
                     IF "audio_enabled" \in DOMAIN file THEN 1 ELSE @]
      BY <1>4 DEF ReadFault, read_audio_config, Name
    <3>3. o = [e \in Entries |-> o[e]]
      BY DEF Override
    <3> HIDE DEF o
    <3> QED  BY <3>1, <3>2, <3>3 DEF ValuesOf, Switches
  <2>4. TypeOK'
    BY <1>4, <2>3 DEF ReadFault, history, TypeOK
  <2> QED
    BY <1>4, <2>1, <2>4 DEF ReadFault, history, KeptInv, FileInv, SettingsKept
<1>5. CASE OpenForWrite
  <2>1. TypeOK'
    BY <1>5 DEF OpenForWrite, history, TypeOK
  <2> QED
    BY <1>5, <2>1
    DEF OpenForWrite, history, KeptInv, FileInv, SettingsKept, Acceptable, Renamed
<1>6. CASE OpenFails
  <2>1. TypeOK'
    BY <1>6 DEF OpenFails, history, TypeOK
  <2> QED
    BY <1>6, <2>1
    DEF OpenFails, history, KeptInv, FileInv, SettingsKept, Acceptable, Renamed
<1>7. CASE Write
  <2>1. /\ \A e \in Entries : conf[e] \in ValuesOf(e)
        /\ \A e \in Entries : Acceptable(e, conf[e])
        /\ ~edited
    BY <1>7 DEF Write, TypeOK, SettingsKept, FileInv
  <2>2. \A e \in Entries : Acceptable(e, SaidBy(Written(conf))[e])
    BY <2>1, WrittenAcceptable
  <2>3. /\ DOMAIN Written(conf) \subseteq Entries
        /\ \A e \in DOMAIN Written(conf) : Written(conf)[e] \in TextsOf(e)
        /\ "fullscreen" \in DOMAIN Written(conf)
    BY <2>1, WrittenSays
  <2>4. TypeOK'
    BY <1>7, <2>3 DEF Write, history, TypeOK
  <2> QED
    BY <1>7, <2>1, <2>2, <2>3, <2>4
    DEF Write, history, KeptInv, FileInv, SettingsKept, Acceptable, Renamed
<1>8. CASE WriteFails
  <2>1. SaidBy(file') = Defaults
    BY <1>8 DEF WriteFails, FileInv, SaidBy
  <2>2. TypeOK'
    BY <1>8 DEF WriteFails, TypeOK
  <2> QED
    BY <1>8, <2>1, <2>2
    DEF WriteFails, KeptInv, FileInv, SettingsKept, Acceptable, Renamed
<1>9. CASE End
  <2>1. TypeOK'
    BY <1>9, ConfigAssumption DEF End, TypeOK
  <2>2. CASE pc = "write"
    <3>1. SaidBy(file') = Defaults
      BY <1>9, <2>2 DEF End, FileInv, SaidBy
    <3> QED
      BY <1>9, <2>1, <2>2, <3>1
      DEF End, KeptInv, FileInv, SettingsKept, Acceptable, Renamed
  <2>3. CASE pc # "write"
    BY <1>9, <2>1, <2>3
    DEF End, KeptInv, FileInv, SettingsKept, Acceptable, Renamed
  <2> QED  BY <2>2, <2>3
<1>10. ASSUME NEW f, Leave(f),
              f # Blank => /\ DOMAIN f \subseteq Entries
                           /\ \A e \in DOMAIN f : f[e] \in TextsOf(e)
       PROVE  KeptInv'
  <2>1. TypeOK'
    BY <1>10, SaidType DEF Leave, TypeOK
  <2> QED
    BY <1>10, <2>1 DEF Leave, KeptInv, FileInv, SettingsKept
<1>11. CASE Edit
  <2>1. /\ Present \subseteq Entries
        /\ \A e \in Present : file[e] \in TextsOf(e)
    BY DEF Present, TypeOK
  <2>2. CASE RemoveFile
    BY <2>2, <1>10 DEF RemoveFile
  <2>3. ASSUME NEW e \in Entries, SetEntry(e)  PROVE KeptInv'
    <3>1. PICK t \in TextsOf(e) :
            Leave([x \in Present \cup {e} |-> IF x = e THEN t ELSE file[x]])
      BY <2>3 DEF SetEntry
    <3> QED  BY <2>1, <3>1, <1>10
  <2>4. ASSUME NEW e \in Entries, RemoveEntry(e)  PROVE KeptInv'
    <3>1. Leave([x \in Present \ {e} |-> file[x]])
      BY <2>4 DEF RemoveEntry
    <3> QED  BY <2>1, <3>1, <1>10
  <2> QED  BY <1>11, <2>2, <2>3, <2>4 DEF Edit
<1>12. CASE UNCHANGED vars
  BY <1>12 DEF vars, history, KeptInv, TypeOK, FileInv, SettingsKept, Acceptable, Renamed
<1> QED
  BY <1>1, <1>2, <1>3, <1>4, <1>5, <1>6, <1>7, <1>8, <1>9, <1>11, <1>12 DEF Next

LEMMA KeptAlways == Spec => []KeptInv
  BY KeptInit, KeptStep, PTL DEF Spec

\* For all entries and texts, every setting is of the kind main() takes it for,
\* and the file holds texts of the right kind, whatever the user wrote.
THEOREM ConfigTyped == Spec => []TypeOK
<1>1. KeptInv => TypeOK
  BY DEF KeptInv
<1> QED  BY <1>1, KeptAlways, PTL

\* The program runs with what the user last wrote into the file, for all entries
\* and texts, but a device name only as often as it is read back unchanged, and
\* the keys only with a name that fits into its line: these and the other exceptions
\* are in Acceptable.
THEOREM SettingsSurvive == Spec => []SettingsKept
<1>1. KeptInv => SettingsKept
  BY DEF KeptInv
<1> QED  BY <1>1, KeptAlways, PTL

\* Reading only fails on a file the user has changed since the last run.
THEOREM OwnFilesAreRead == Spec => []OwnFileReadable
<1>1. KeptInv => OwnFileReadable
  BY DEF KeptInv, FileInv, OwnFileReadable
<1> QED  BY <1>1, KeptAlways, PTL
=============================================================================
