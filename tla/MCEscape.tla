------------------------------ MODULE MCEscape ------------------------------
(***************************************************************************)
(* Instantiation of Escape for TLC.                                        *)
(***************************************************************************)
EXTENDS Escape

\* One byte of each class UTF_tab and ESC_tab tell apart: 'a', ESC, DEL,
\* continuation bytes 0x80 and 0x9B (CSI after C2), lead bytes C2 and E2,
\* and F8, which starts nothing.
Bytes == {97, 27, 127, 128, 155, 194, 226, 248}
MCSrcs == UNION {[1..n -> Bytes] : n \in 0..3}

\* Names for escape_command: printable, control, and a two-byte character.
MCCmds == UNION {[1..n -> {97, 27, 194, 128}] : n \in 0..2}

\* Sizes that cut every source, no room at all, room for " <defunct>" with
\* brackets and one byte (13) or none (12), and INT_MAX.
MCBufsizes == {0, 1, 2, 3, 4, 12, 13, 14, 2147483647}
=============================================================================
