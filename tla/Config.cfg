SPECIFICATION IniSpec
CONSTANTS
  Blank = Blank
  Flags = {"use_gpu"}
  Numbers = {"idle_ms"}
  Keys = {"key_up"}
  FlagTexts = {"true", "false"}
  NumberTexts = {"0", "10", "fast"}
  Ints = {0, 10}
  Atoi <- MCAtoi
  Decimal <- MCDecimal
  ShortNames <- MCShortNames
  LongNames <- MCLongNames
  ReadBack <- MCReadBack
  Defaults <- MCDefaults
  Order <- MCOrder
  Spelling <- MCSpelling
  Width <- MCWidth
  Styles = {"plain", "spaced", "quoted", "noisy"}
INVARIANTS TypeOK SettingsKept OwnFileReadable TextSaysFile
