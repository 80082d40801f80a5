---------------------------- MODULE DisplayProofs ----------------------------
(* What was erased or hidden is gone, for every width of the strip. *)
EXTENDS Display, TLAPS

\* The waveform on the strip is at most as wide as the size that is remembered.
StripInv ==
  /\ wfm_cleared => prev_waveform_size = 0
  /\ ~narrowed /\ background_color # Unknown =>
       \A p \in Strip : canvas[p] = Wave => p <= prev_waveform_size

\* The overlay is only where hiding it would paint.
OverlayInv ==
  ~moved => \A p \in Corners : canvas[p] = Overlay => keyjazz_enabled /\ p = Corner

DisplayInv == TypeOK /\ ShownUnlessDirty /\ StripInv /\ OverlayInv /\ TextColored

-----------------------------------------------------------------------------
\* What painting leaves at each place.
LEMMA PaintedType ==
  ASSUME TypeOK, NEW S, NEW c
  PROVE  /\ DOMAIN Painted(S, c) = Places
         /\ \A p \in Places :
              Painted(S, c)[p] = IF p \in S /\ c # Unknown THEN c ELSE canvas[p]
         /\ c # Unknown =>
              Painted(S, c) = [p \in Places |-> IF p \in S THEN c ELSE canvas[p]]
  BY DEF Painted, TypeOK

\* A colour is none of the other contents.
LEMMA ColorFacts ==
  /\ \A c \in Colors : c # Wave /\ c # Overlay /\ c # Text /\ c # Unknown
  /\ Wave # Overlay /\ Wave # Text /\ Overlay # Text
  /\ Wave # Unknown /\ Overlay # Unknown /\ Text # Unknown
  /\ Black \in Colors
  /\ {Black, White, Grey} \subseteq TextColors
  /\ Strip \subseteq Places /\ Width \in Strip
  /\ Corners \subseteq Places \ Strip /\ Edge \in Places \ Strip
  /\ Edge \notin Corners /\ Corner \in Corners /\ SmallCorner \in Corners
  BY ContentAssumption, DisplayAssumption
  DEF Wave, Overlay, Text, Unknown, SmallCorner, LargeCorner, Edge, Strip,
      Corners, Places, Corner

LEMMA DisplayInit == Init => DisplayInv
<1> SUFFICES ASSUME Init PROVE DisplayInv
  OBVIOUS
<1>1. \A p \in Places : canvas[p] = Black
  BY DEF Init
<1>2. TypeOK
  <2>1. /\ canvas \in [Places -> Colors \cup {Wave, Overlay, Text}]
        /\ screen \in [Places -> Colors \cup {Wave, Overlay, Text}]
    BY ColorFacts DEF Init
  <2>2. \A p \in Places : canvas[p] # Overlay /\ canvas[p] # Wave
    BY <1>1, ColorFacts
  <2>3. 0 \in 0 .. Width
    BY DisplayAssumption
  <2> QED  BY <2>1, <2>2, <2>3, ColorFacts DEF Init, TypeOK
<1> QED
  BY <1>1, <1>2, ColorFacts
  DEF Init, DisplayInv, ShownUnlessDirty, StripInv, OverlayInv, TextColored

\* Where the canvas keeps the waveform in the strip and the overlay in the
\* corners, its type is kept.
CanvasOK(c) ==
  /\ c \in [Places -> Colors \cup {Wave, Overlay, Text}]
  /\ \A p \in Strip : c[p] # Overlay
  /\ \A p \in Places \ Strip : c[p] # Wave

LEMMA PaintedOK ==
  ASSUME TypeOK, NEW S, NEW c \in Colors \cup {Text}
  PROVE  CanvasOK(Painted(S, c))
  BY PaintedType, ColorFacts DEF CanvasOK, TypeOK

\* The overlay stays where it can be hidden when the font is set.
LEMMA ModeKeepsOverlay ==
  ASSUME OverlayInv, NEW enabled, set_large_mode(enabled), ~moved'
  PROVE  \A p \in Corners : canvas[p] = Overlay => keyjazz_enabled /\ p = Corner'
<1>1. ~moved /\ ~(keyjazz_enabled /\ enabled # large_font_enabled)
  BY Zenon DEF set_large_mode
<1>2. \A p \in Corners : canvas[p] = Overlay => keyjazz_enabled /\ p = Corner
  BY <1>1 DEF OverlayInv
<1>3. keyjazz_enabled => large_font_enabled' = large_font_enabled
  BY <1>1, Zenon DEF set_large_mode
<1>4. keyjazz_enabled => Corner' = Corner
  <2> SUFFICES ASSUME keyjazz_enabled PROVE Corner' = Corner
    OBVIOUS
  <2>1. large_font_enabled' = large_font_enabled
    BY <1>3
  <2> QED  BY <2>1 DEF Corner
<1> QED  BY <1>2, <1>4

\* What becomes of the colour of the font, whatever is drawn with it.
LEMMA TextStep ==
  ASSUME TypeOK, TextColored, [Next]_vars
  PROVE  /\ pal' \in TextColors /\ previous_fgcolor' \in TextColors
         /\ TextColored'
<1> USE ColorFacts DEF TypeOK, TextColored
<1>1. ASSUME NEW c \in TextColors, inprint(c)
      PROVE  /\ pal' \in TextColors /\ previous_fgcolor' \in TextColors
             /\ TextColored'
  BY <1>1 DEF inprint
<1>2. CASE UNCHANGED textVars
  BY <1>2 DEF textVars
<1>3. ASSUME NEW enabled, set_large_mode(enabled),
             previous_fgcolor' \in {previous_fgcolor, White}
      PROVE  /\ pal' \in TextColors /\ previous_fgcolor' \in TextColors
             /\ TextColored'
  BY <1>3 DEF set_large_mode, prepare_inline_font
<1>4. CASE DrawBackground \/ DrawElsewhere \/ DrawWaveform \/ OtherPacket \/ Render
           \/ ToggleFullscreen
  BY <1>2, <1>4
  DEF DrawBackground, DrawElsewhere, DrawWaveform, OtherPacket, Render,
      ToggleFullscreen, modeVars
<1>5. CASE DrawCharacter
  BY <1>1, <1>2, <1>5 DEF DrawCharacter
<1>6. CASE SystemInfo \/ Found
  BY <1>3, <1>6 DEF SystemInfo, Found
<1>7. CASE ToggleKeyjazz \/ UpdateOverlay
  BY <1>1, <1>2, <1>7 DEF ToggleKeyjazz, UpdateOverlay, display_keyjazz_overlay
<1>8. CASE Wait
  BY <1>2, <1>3, <1>8 DEF Wait, screensaver_init, modeVars
<1>9. CASE Screensaver
  BY <1>1, <1>9 DEF Screensaver, fx_cube_update
<1>10. CASE UNCHANGED vars
  BY <1>2, <1>10 DEF vars, modeVars
<1> QED
  BY <1>4, <1>5, <1>6, <1>7, <1>8, <1>9, <1>10 DEF Next

LEMMA DisplayStep == DisplayInv /\ [Next]_vars => DisplayInv'
<1> SUFFICES ASSUME TypeOK, ShownUnlessDirty, StripInv, OverlayInv, TextColored,
                    [Next]_vars
             PROVE  DisplayInv'
  BY DEF DisplayInv
<1> USE ColorFacts, DisplayAssumption, TextStep
<1>0. CanvasOK(canvas)
  BY DEF CanvasOK, TypeOK
<1>1. CASE DrawBackground
  <2>1. PICK c \in Colors, S \in Covers :
          /\ background_color' = c
          /\ canvas' = Painted(S, c) /\ dirty' = TRUE
          /\ narrowed' = FALSE
          /\ moved' = (moved /\ S # Places)
    BY <1>1 DEF DrawBackground, Paint
  <2>2. Strip \subseteq S /\ S \subseteq Places
    BY <2>1 DEF Covers, Places
  <2>3. CanvasOK(canvas')
    BY <2>1, PaintedOK
  <2>4. TypeOK'
    BY <1>1, <2>1, <2>3 DEF DrawBackground, Packet, TypeOK, CanvasOK
  <2>5. StripInv'
    BY <1>1, <2>1, <2>2, PaintedType DEF DrawBackground, StripInv, Places
  <2>6. OverlayInv'
    <3>1. Corner' = Corner /\ keyjazz_enabled' = keyjazz_enabled
      BY <1>1 DEF DrawBackground, Packet, Corner
    <3>2. \A p \in Places : canvas'[p] = IF p \in S THEN c ELSE canvas[p]
      BY <2>1, PaintedType
    <3>3. CASE S = Places
      BY <3>2, <3>3 DEF OverlayInv
    <3>4. CASE S # Places
      BY <2>1, <3>1, <3>2, <3>4 DEF OverlayInv
    <3> QED  BY <3>3, <3>4
  <2> QED  BY <2>1, <2>4, <2>5, <2>6 DEF DisplayInv, ShownUnlessDirty
<1>2. CASE DrawElsewhere \/ DrawCharacter
  <2>1. PICK S \in SUBSET Places, c \in Colors : canvas' = Painted(S, c) /\ dirty' = TRUE
    BY <1>2, \A p \in Places : {p} \in SUBSET Places DEF DrawElsewhere, DrawCharacter, Paint
  <2>2. CanvasOK(canvas')
    BY <2>1, PaintedOK
  <2>3. /\ UNCHANGED <<large_font_enabled, moved, background_color, waveVars>>
        /\ UNCHANGED <<screen, keyjazz_enabled, waiting>>
        /\ draws' = TRUE
    BY <1>2 DEF DrawElsewhere, DrawCharacter, Packet, modeVars
  <2>4. TypeOK'
    BY <2>1, <2>2, <2>3 DEF waveVars, TypeOK, CanvasOK
  <2>5. StripInv'
    BY <2>1, <2>3, PaintedType DEF waveVars, StripInv, Places
  <2>6. OverlayInv'
    <3>1. \A p \in Corners : canvas'[p] = Overlay => canvas[p] = Overlay
      BY <2>1, PaintedType
    <3>2. Corner' = Corner
      BY <2>3 DEF Corner
    <3> QED  BY <2>3, <3>1, <3>2 DEF OverlayInv
  <2> QED  BY <2>1, <2>4, <2>5, <2>6 DEF DisplayInv, ShownUnlessDirty
<1>3. CASE DrawWaveform
  <2>1. PICK length \in PacketLengths :
          SkipWaveform(WaveformSize(length)) \/ RenderWaveform(WaveformSize(length))
    BY <1>3 DEF DrawWaveform
  <2> DEFINE size == WaveformSize(length)
  <2>2. size \in 0 .. Width
    BY DEF PacketLengths, WaveformSize
  <2> HIDE DEF size
  <2>3. CASE SkipWaveform(size)
    BY <1>3, <2>3
    DEF SkipWaveform, DrawWaveform, Packet, modeVars, waveVars, DisplayInv, TypeOK,
        ShownUnlessDirty, StripInv, OverlayInv, Corner
  <2>4. CASE RenderWaveform(size)
    <3>1. \A p \in Places :
            canvas'[p] = IF p \in Drawn(size) THEN Wave
                         ELSE IF p \in Erased(size) /\ background_color # Unknown
                              THEN background_color ELSE canvas[p]
      BY <2>4, PaintedType DEF RenderWaveform
    <3>2. Drawn(size) \subseteq Strip
      BY <2>2 DEF Drawn, Strip
    <3>3. canvas' = [p \in Places |-> canvas'[p]]
      BY <2>4 DEF RenderWaveform
    <3>4. CanvasOK(canvas')
      BY <3>1, <3>2, <3>3 DEF CanvasOK, TypeOK
    <3>5. TypeOK'
      BY <1>3, <2>2, <2>4, <3>4
      DEF DrawWaveform, RenderWaveform, Packet, modeVars, TypeOK, CanvasOK
    <3>6. StripInv'
      <4>1. prev_waveform_size \in 0 .. Width /\ Strip \subseteq Places
        BY DEF TypeOK, Places
      <4>2. wfm_cleared' => prev_waveform_size' = 0
        BY <2>4 DEF RenderWaveform
      <4>3. ASSUME ~narrowed', background_color # Unknown,
                   NEW p \in Strip, canvas'[p] = Wave
            PROVE  p <= size
        <5>1. ~narrowed /\ ~(0 < size /\ size < prev_waveform_size)
          BY <2>4, <4>3 DEF RenderWaveform
        <5>2. CASE p \in Drawn(size)
          BY <2>2, <5>2 DEF Drawn
        <5>3. CASE p \notin Drawn(size)
          <6>1. p \notin Erased(size) /\ canvas[p] = Wave
            BY <3>1, <4>1, <4>3, <5>3 DEF TypeOK
          <6>2. p <= prev_waveform_size
            BY <4>3, <5>1, <6>1 DEF StripInv
          <6> QED  BY <2>2, <4>1, <5>1, <6>1, <6>2 DEF Erased, Strip
        <5> QED  BY <5>2, <5>3
      <4>4. prev_waveform_size' = size /\ background_color' = background_color
        BY <1>3, <2>4 DEF DrawWaveform, RenderWaveform
      <4> QED  BY <4>2, <4>3, <4>4 DEF StripInv
    <3>7. OverlayInv'
      BY <1>3, <3>1
      DEF DrawWaveform, Packet, modeVars, OverlayInv, Corner, TypeOK
    <3> QED  BY <2>4, <3>5, <3>6, <3>7 DEF RenderWaveform, DisplayInv, ShownUnlessDirty
  <2> QED  BY <2>1, <2>3, <2>4 DEF size
<1>4. CASE SystemInfo \/ OtherPacket
  <2>1. TypeOK'
    BY <1>4 DEF SystemInfo, OtherPacket, Packet, set_large_mode, prepare_inline_font, modeVars, waveVars,
        TypeOK
  <2>2. OverlayInv'
    <3>1. CASE SystemInfo
      BY <3>1, ModeKeepsOverlay DEF SystemInfo, Packet, OverlayInv
    <3>2. CASE OtherPacket
      BY <3>2 DEF OtherPacket, Packet, modeVars, OverlayInv, Corner
    <3> QED  BY <1>4, <3>1, <3>2
  <2> QED
    BY <1>4, <2>1, <2>2
    DEF SystemInfo, OtherPacket, Packet, waveVars, DisplayInv, ShownUnlessDirty, StripInv
<1>5. CASE Render
  BY <1>5
  DEF Render, modeVars, waveVars, DisplayInv, TypeOK, ShownUnlessDirty, StripInv,
      OverlayInv, Corner
<1>6. CASE ToggleKeyjazz \/ UpdateOverlay
  <2>1. PICK S \in {{Corner}, {Corner, Edge}}, c \in Colors \cup {Overlay} :
          /\ canvas' = Painted(S, c)
          /\ keyjazz_enabled' \/ c # Overlay
    BY <1>6
    DEF ToggleKeyjazz, UpdateOverlay, display_keyjazz_overlay, Overlays, Paint, TypeOK
  <2>2. dirty' = TRUE /\ keyjazz_enabled' \in BOOLEAN
    BY <1>6
    DEF ToggleKeyjazz, UpdateOverlay, display_keyjazz_overlay, Paint, TypeOK
  <2>3. Polling
    BY <1>6 DEF ToggleKeyjazz, UpdateOverlay
  <2>4. CanvasOK(canvas')
    BY <2>1, PaintedType DEF CanvasOK, TypeOK
  <2>5. TypeOK'
    BY <2>2, <2>3, <2>4 DEF Polling, waveVars, TypeOK, CanvasOK
  <2>6. StripInv'
    BY <2>1, <2>3, PaintedType DEF Polling, waveVars, StripInv, Places
  <2>7. OverlayInv'
    <3>1. \A p \in Corners : canvas'[p] = IF p = Corner THEN c ELSE canvas[p]
      BY <2>1, PaintedType
    <3>2. Corner' = Corner /\ moved' = moved
      BY <2>3 DEF Polling, Corner
    <3> QED  BY <2>1, <3>1, <3>2 DEF OverlayInv
  <2> QED  BY <2>2, <2>5, <2>6, <2>7 DEF DisplayInv, ShownUnlessDirty
<1>7. CASE ToggleFullscreen
  BY <1>7
  DEF ToggleFullscreen, Polling, modeVars, waveVars, DisplayInv, TypeOK,
      ShownUnlessDirty, StripInv, OverlayInv, Corner
<1>8. CASE Wait
  <2>1. CASE waiting' = "starting" /\ screensaver_init
    <3>1. CanvasOK(canvas')
      BY <2>1, PaintedOK DEF screensaver_init
    <3>2. TypeOK'
      BY <1>8, <2>1, <3>1
      DEF Wait, screensaver_init, set_large_mode, waveVars, TypeOK, CanvasOK
    <3>3. \A p \in Places : canvas'[p] \in {canvas[p], Text}
      <4> DEFINE S == Texts(TRUE)
      <4>1. canvas' = Painted(S, Text)
        BY <2>1 DEF screensaver_init
      <4> HIDE DEF S
      <4> QED  BY <4>1, PaintedType
    <3>4. StripInv'
      BY <1>8, <3>3 DEF Wait, waveVars, StripInv, Places
    <3>5. OverlayInv'
      <4>1. \A p \in Places : canvas'[p] = Overlay => canvas[p] = Overlay
        BY <3>3
      <4> QED
        BY <1>8, <2>1, <4>1, ModeKeepsOverlay DEF Wait, screensaver_init, OverlayInv
    <3> QED  BY <2>1, <3>2, <3>4, <3>5 DEF DisplayInv, ShownUnlessDirty
  <2>2. CASE waiting' = "idling" /\ UNCHANGED <<canvas, modeVars>>
    BY <1>8, <2>2
    DEF Wait, modeVars, waveVars, DisplayInv, TypeOK, ShownUnlessDirty, StripInv,
        OverlayInv, Corner
  <2> QED  BY <1>8, <2>1, <2>2 DEF Wait
<1>9. CASE Screensaver
  <2>1. CanvasOK(canvas') /\ screen' = canvas'
    BY <1>9 DEF Screensaver, fx_cube_update, CanvasOK
  <2>2. TypeOK'
    BY <1>9, <2>1 DEF Screensaver, TypeOK, CanvasOK
  <2>3. \A p \in Places : canvas'[p] \in {Black, Text}
    BY <1>9 DEF Screensaver, fx_cube_update
  <2> QED
    BY <1>9, <2>1, <2>2, <2>3
    DEF Screensaver, DisplayInv, ShownUnlessDirty, StripInv, OverlayInv, Places
<1>10. CASE Found
  <2>1. TypeOK'
    BY <1>10 DEF Found, set_large_mode, waveVars, TypeOK
  <2>2. OverlayInv'
    BY <1>10, ModeKeepsOverlay DEF Found, OverlayInv
  <2> QED
    BY <1>10, <2>1, <2>2 DEF Found, waveVars, DisplayInv, ShownUnlessDirty, StripInv
<1>11. CASE UNCHANGED vars
  BY <1>11
  DEF vars, modeVars, waveVars, DisplayInv, TypeOK, ShownUnlessDirty, StripInv,
      OverlayInv, Corner
<1> QED
  BY <1>1, <1>2, <1>3, <1>4, <1>5, <1>6, <1>7, <1>8, <1>9, <1>10, <1>11 DEF Next

LEMMA DisplayAlways == Spec => []DisplayInv
  BY DisplayInit, DisplayStep, PTL DEF Spec

\* The variables stay in their types: a waveform fits the strip, and the overlay
\* and the waveform stay in their parts of the canvas.
THEOREM DisplayTyped == Spec => []TypeOK
<1>1. DisplayInv => TypeOK
  BY DEF DisplayInv
<1> QED  BY <1>1, DisplayAlways, PTL

\* Whatever is drawn in whatever order: a canvas that is not dirty is shown.
THEOREM NothingUnshown == Spec => []ShownUnlessDirty
<1>1. DisplayInv => ShownUnlessDirty
  BY DEF DisplayInv
<1> QED  BY <1>1, DisplayAlways, PTL

\* For every width of the strip, no waveform is left when empty ones are
\* skipped, but for the exceptions it names.
THEOREM ClearedStrip == Spec => []ClearedIsClean
<1>1. DisplayInv => ClearedIsClean
  BY DEF DisplayInv, StripInv, ClearedIsClean, Strip, Places, TypeOK
<1> QED  BY <1>1, DisplayAlways, PTL

\* For any colours, text is never drawn in the colour of an earlier text.
THEOREM TextInColor == Spec => []TextColored
<1>1. DisplayInv => TextColored
  BY DEF DisplayInv
<1> QED  BY <1>1, DisplayAlways, PTL

\* No overlay is left in the corners after keyjazz, unless the font changed.
THEOREM HiddenOverlay == Spec => []OverlayRemoved
<1>1. DisplayInv => OverlayRemoved
  BY DEF DisplayInv, OverlayInv, OverlayRemoved
<1> QED  BY <1>1, DisplayAlways, PTL
=============================================================================
