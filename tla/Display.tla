------------------------------ MODULE Display ------------------------------
(***************************************************************************)
(* command.c, render.c and inprint2.c: what a packet does to the canvas,   *)
(* and the canvas to the screen.  The main loop polls the input, which may *)
(* draw the overlay of keyjazz, processes the packets that are there, and, *)
(* if there was one, calls render_screen.  While it waits for the M8 it    *)
(* draws the screensaver instead.                                          *)
(*                                                                         *)
(* The canvas is cut into a few places: the columns of the strip at its    *)
(* top where the waveform is, counted from the right edge; the two corners *)
(* at the lower right where the overlay is drawn with the small font and,  *)
(* 40 pixels higher, with the large one; and the last columns beside the   *)
(* lower corner, which hiding the overlay does not reach.                  *)
(***************************************************************************)
EXTENDS Integers

CONSTANTS
  Width,       \* columns of the strip, at most 320 in the code
  Colors,      \* colours on the canvas
  Black,       \* the colour of a new surface
  TextColors,  \* colours the font can have
  White,       \* that of a new font
  Grey         \* and that of the overlay

ASSUME DisplayAssumption ==
  /\ Width \in Nat \ {0}
  /\ Black \in Colors
  /\ {Black, White, Grey} \subseteq TextColors

Wave == "waveform"
Overlay == "overlay"
Text == "text"
Unknown == "unknown"   \* background_color before the first background: its
                       \* alpha is 0, and painting with it changes nothing

ASSUME ContentAssumption == Colors \cap {Wave, Overlay, Text, Unknown} = {}

Strip == 1 .. Width
SmallCorner == 0
LargeCorner == -1
Edge == -2
Corners == {SmallCorner, LargeCorner}
Places == Strip \cup Corners \cup {Edge}

VARIABLES
  canvas,               \* what is at each place
  screen,               \* and what the user sees there
  dirty,
  large_font_enabled,   \* with screen_offset_y and the font
  pal,                  \* the colour the font is drawn with
  previous_fgcolor,     \* the colour of the last text
  background_color,
  wfm_cleared, prev_waveform_size,
  keyjazz_enabled,
  waiting,              \* main() is in its wait loop: "no", "starting" to poll
                        \* for the M8, "polling", or "idling" since the serial
                        \* port is open
  draws,                \* main() has processed packets and not drawn them
  (* History: *)
  narrowed,   \* a waveform was followed by a smaller one, not empty
  moved       \* the size of the font changed with the overlay shown

waveVars == <<wfm_cleared, prev_waveform_size, narrowed>>
textVars == <<pal, previous_fgcolor>>
modeVars == <<large_font_enabled, moved, textVars>>
vars == <<canvas, screen, dirty, modeVars, background_color, waveVars,
          keyjazz_enabled, waiting, draws>>

-----------------------------------------------------------------------------
(* Drawing. *)

\* The canvas with the places S painted with c.
Painted(S, c) ==
  IF c = Unknown THEN canvas
  ELSE [p \in Places |-> IF p \in S THEN c ELSE canvas[p]]

\* Where the overlay goes.
Corner == IF large_font_enabled THEN LargeCorner ELSE SmallCorner

\* It does not know of previous_fgcolor.
prepare_inline_font == pal' = White

set_large_mode(enabled) ==
  /\ large_font_enabled' = enabled
  /\ prepare_inline_font
  /\ moved' = (moved \/ (keyjazz_enabled /\ enabled # large_font_enabled))

\* Mutant: the colour is set and not remembered.
inprint_forgetful(fgcolor) ==
  /\ pal' = IF fgcolor # previous_fgcolor THEN fgcolor ELSE pal
  /\ UNCHANGED previous_fgcolor

\* The colour is only set when it is another than that of the last text.
inprint(fgcolor) ==
  /\ pal' = IF fgcolor # previous_fgcolor THEN fgcolor ELSE pal
  /\ previous_fgcolor' = fgcolor

\* Mutant: the canvas is painted and not marked.
PaintQuietly(S, c) ==
  /\ canvas' = Painted(S, c)
  /\ UNCHANGED dirty

\* What draw_rectangle and draw_character leave.
Paint(S, c) ==
  /\ canvas' = Painted(S, c)
  /\ dirty' = TRUE

-----------------------------------------------------------------------------
(* Packets: process_command, in the inner loop of the main loop. *)

Packet ==
  /\ waiting = "no"
  /\ draws' = TRUE
  /\ UNCHANGED <<screen, keyjazz_enabled, waiting>>

\* The places a rectangle of at least 320 x 240 covers that starts at the upper
\* edge or, with the large font, at most 40 pixels above it.
Covers ==
  {Places} \cup
  IF large_font_enabled THEN {Places \ {SmallCorner, Edge}} ELSE {}

\* draw_rectangle takes such a rectangle for a change of the background.
DrawBackground ==
  /\ Packet
  /\ \E c \in Colors, S \in Covers :
       /\ background_color' = c
       /\ Paint(S, c)
       /\ narrowed' = FALSE
       /\ moved' = (moved /\ S # Places)
  /\ UNCHANGED <<large_font_enabled, textVars, wfm_cleared, prev_waveform_size>>

\* Any other rectangle.
DrawElsewhere ==
  /\ Packet
  /\ \E p \in Places, c \in Colors : Paint({p}, c)
  /\ UNCHANGED <<modeVars, background_color, waveVars>>

\* draw_character: the pixels of a character and of its background have a
\* colour, too.  The character 0 ends the string before anything is done.
DrawCharacter ==
  /\ Packet
  /\ \/ /\ \E p \in Places, c \in Colors : Paint({p}, c)
        /\ \E fgcolor \in TextColors : inprint(fgcolor)
     \/ Paint({}, Black) /\ UNCHANGED textVars
  /\ UNCHANGED <<large_font_enabled, moved, background_color, waveVars>>

\* The packet has four bytes besides the samples.
PacketLengths == 4 .. 4 + Width

\* Mutant: the colour is forgotten.
WaveformSizeShort(length) == length - 3

WaveformSize(length) == length - 4

\* Mutant: the size is replaced before it is used.
ErasedNew(size) == 1 .. size

\* The columns that draw_waveform erases first.
Erased(size) == IF size > 0 THEN 1 .. size ELSE 1 .. prev_waveform_size

\* Lines connect the samples: a single one leaves nothing.
Drawn(size) == IF size > 1 THEN 1 .. size ELSE {}

\* "If the waveform is not being displayed and it's already been cleared, skip
\* rendering it".
SkipWaveform(size) ==
  /\ wfm_cleared /\ size = 0
  /\ UNCHANGED <<canvas, dirty, waveVars>>

RenderWaveform(size) ==
  /\ ~(wfm_cleared /\ size = 0)
  /\ canvas' = [p \in Places |->
                  IF p \in Drawn(size) THEN Wave
                  ELSE Painted(Erased(size), background_color)[p]]
  /\ prev_waveform_size' = size
  /\ wfm_cleared' = (size = 0)
  /\ narrowed' = (narrowed \/ (0 < size /\ size < prev_waveform_size))
  /\ dirty' = TRUE

DrawWaveform ==
  /\ Packet
  /\ \E length \in PacketLengths :
       \/ SkipWaveform(WaveformSize(length))
       \/ RenderWaveform(WaveformSize(length))
  /\ UNCHANGED <<modeVars, background_color>>

\* The name of the hardware, which is only logged, is left out.
SystemInfo ==
  /\ Packet
  /\ \E enabled \in BOOLEAN : set_large_mode(enabled)
  /\ UNCHANGED <<canvas, dirty, previous_fgcolor, background_color, waveVars>>

\* A joypad packet, one of the wrong length, or of no known kind.
OtherPacket ==
  /\ Packet
  /\ UNCHANGED <<canvas, dirty, modeVars, background_color, waveVars>>

\* render_screen, when packets were processed and there are no more.
Render ==
  /\ draws
  /\ draws' = FALSE
  /\ dirty' = FALSE
  /\ screen' = IF dirty THEN canvas ELSE screen
  /\ UNCHANGED <<canvas, modeVars, background_color, waveVars, keyjazz_enabled, waiting>>

-----------------------------------------------------------------------------
(* Input: get_input_msg, in both loops. *)

\* The first character of the overlay is never set: a string of whatever is on
\* the stack is drawn, which may be long enough to reach the edge.
Overlays ==
  {{Corner}} \cup IF large_font_enabled THEN {} ELSE {{Corner, Edge}}

\* Mutant: hiding is left to the next packets.
display_keyjazz_overlay_partly(show) ==
  /\ IF show THEN \E S \in Overlays : canvas' = Painted(S, Overlay)
     ELSE UNCHANGED canvas
  /\ IF show THEN inprint(Grey) ELSE UNCHANGED textVars
  /\ dirty' = TRUE

\* Hiding paints over the corner, with a colour even if none is known yet.
display_keyjazz_overlay(show) ==
  \/ /\ show
     /\ \E S \in Overlays : Paint(S, Overlay)
     /\ inprint(Grey)
  \/ /\ ~show
     /\ Paint({Corner}, IF background_color = Unknown THEN Black ELSE background_color)
     /\ UNCHANGED textVars

Polling ==
  /\ ~draws
  /\ UNCHANGED <<screen, large_font_enabled, moved, background_color, waveVars, waiting,
                 draws>>

ToggleKeyjazz ==
  /\ Polling
  /\ keyjazz_enabled' = ~keyjazz_enabled
  /\ display_keyjazz_overlay(~keyjazz_enabled)

\* A change of the octave or the velocity.
UpdateOverlay ==
  /\ Polling
  /\ keyjazz_enabled
  /\ display_keyjazz_overlay(TRUE)
  /\ UNCHANGED keyjazz_enabled

\* toggle_fullscreen only has the canvas shown again.
ToggleFullscreen ==
  /\ Polling
  /\ dirty' = TRUE
  /\ UNCHANGED <<canvas, keyjazz_enabled, textVars>>

-----------------------------------------------------------------------------
(* The wait loop. *)

\* The texts of the screensaver: one into the lower right of the canvas, which
\* reaches the edge with the large font, and one into the upper left.
Texts(large) ==
  {SmallCorner, Width} \cup IF large THEN {Edge} ELSE {}

\* fx_cube_init writes the white texts over what is there.
screensaver_init ==
  /\ set_large_mode(TRUE)
  /\ previous_fgcolor' = White
  /\ canvas' = Painted(Texts(TRUE), Text)

\* The M8 was not opened, or was opened and did not take the first message:
\* then there is no screensaver_init.
Wait ==
  /\ waiting = "no" /\ ~draws
  /\ \/ waiting' = "starting" /\ screensaver_init
     \/ waiting' = "idling" /\ UNCHANGED <<canvas, modeVars>>
  /\ UNCHANGED <<screen, dirty, background_color, waveVars, keyjazz_enabled, draws>>

\* fx_cube_update: a black canvas with the white texts.  The lines of the cube,
\* of the same colour, are taken to be between the places.
fx_cube_update ==
  /\ canvas' = [p \in Places |-> IF p \in Texts(large_font_enabled) THEN Text ELSE Black]
  /\ inprint(White)

\* screensaver_draw and render_screen.  The first one comes before the first
\* poll: both are due when enough time has passed, and this needs less.
Screensaver ==
  /\ waiting # "no"
  /\ fx_cube_update
  /\ screen' = canvas'
  /\ dirty' = FALSE
  /\ narrowed' = FALSE
  /\ moved' = FALSE
  /\ waiting' = IF waiting = "starting" THEN "polling" ELSE waiting
  /\ UNCHANGED <<large_font_enabled, background_color, wfm_cleared,
                 prev_waveform_size, keyjazz_enabled, draws>>

\* The M8 was found: screensaver_destroy.
Found ==
  /\ waiting = "polling"
  /\ waiting' = "no"
  /\ set_large_mode(FALSE)
  /\ UNCHANGED <<canvas, screen, dirty, previous_fgcolor, background_color, waveVars,
                 keyjazz_enabled, draws>>

-----------------------------------------------------------------------------
\* After initialize_sdl.
Init ==
  /\ canvas = [p \in Places |-> Black]
  /\ screen = [p \in Places |-> Black]
  /\ dirty = TRUE
  /\ large_font_enabled = FALSE
  /\ pal = White
  /\ previous_fgcolor = Black
  /\ background_color = Unknown
  /\ wfm_cleared = FALSE
  /\ prev_waveform_size = 0
  /\ keyjazz_enabled = FALSE
  /\ waiting = "no"
  /\ draws = FALSE
  /\ narrowed = FALSE
  /\ moved = FALSE

Next ==
  \/ DrawBackground \/ DrawElsewhere \/ DrawCharacter \/ DrawWaveform
  \/ SystemInfo \/ OtherPacket
  \/ Render
  \/ ToggleKeyjazz \/ UpdateOverlay \/ ToggleFullscreen
  \/ Wait \/ Screensaver \/ Found

Spec == Init /\ [][Next]_vars

-----------------------------------------------------------------------------
\* The remembered size is that of a waveform that fits the strip; the overlay
\* is never in the strip, the waveform nowhere else.
TypeOK ==
  /\ canvas \in [Places -> Colors \cup {Wave, Overlay, Text}]
  /\ screen \in [Places -> Colors \cup {Wave, Overlay, Text}]
  /\ \A p \in Strip : canvas[p] # Overlay
  /\ \A p \in Places \ Strip : canvas[p] # Wave
  /\ pal \in TextColors /\ previous_fgcolor \in TextColors
  /\ background_color \in Colors \cup {Unknown}
  /\ prev_waveform_size \in 0 .. Width
  /\ dirty \in BOOLEAN /\ draws \in BOOLEAN
  /\ large_font_enabled \in BOOLEAN /\ keyjazz_enabled \in BOOLEAN
  /\ wfm_cleared \in BOOLEAN
  /\ narrowed \in BOOLEAN /\ moved \in BOOLEAN
  /\ waiting \in {"no", "starting", "polling", "idling"}

\* A canvas that is not dirty is what the user sees: when render_screen comes it
\* skips nothing that was drawn (render.c:306-321).  The texts of screensaver_init
\* are not marked, but the first screensaver_draw paints over them.
ShownUnlessDirty == ~dirty /\ waiting # "starting" => screen = canvas

\* When empty waveforms are skipped no part of an earlier one is left, in a stream
\* of waveforms that do not get smaller before they are empty, over a background
\* that the M8 has set (render.c:180-194).
ClearedIsClean ==
  wfm_cleared /\ ~narrowed /\ background_color # Unknown =>
    \A p \in Strip : canvas[p] # Wave

\* No overlay is left in the corners after keyjazz was switched off, whatever
\* was drawn and whichever font was set in between, unless the font changed
\* while it was shown: hiding then paints 40 pixels beside it (render.c:135-136,
\* 291-300).  What its unset character left at the edge may stay.
OverlayRemoved ==
  ~keyjazz_enabled /\ ~moved => \A p \in Corners : canvas[p] # Overlay

\* Text never has the colour of an earlier text: with inprint's short cut it is
\* drawn in its own or, when a font was loaded since that colour was set, in
\* white (inprint2.c:84-87, 175-178).
TextColored == pal \in {previous_fgcolor, White}
=============================================================================
