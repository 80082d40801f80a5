----------------------------- MODULE MCSlipLink -----------------------------
(***************************************************************************)
(* Messages of every kind the decoder tells apart: empty, with special     *)
(* bytes first, last and next to each other, with bytes that look like the *)
(* second half of an escape, and as long as the buffer.                    *)
(***************************************************************************)
EXTENDS SlipLink

CONSTANT x

MCMessages ==
  {<<>>, <<x>>, <<END>>, <<x, ESC>>, <<ESC_END, END>>, <<ESC, ESC_ESC, x>>}
=============================================================================
