----------------------------- MODULE MCLibrary -----------------------------
(***************************************************************************)
(* Instantiation of Library for TLC.                                       *)
(***************************************************************************)
EXTENDS Library, Sequences

\* Escape's inputs, as in MCEscape: one byte of each class UTF_tab and
\* ESC_tab tell apart, names with a control and a two-byte character, and
\* buffer sizes around every cut and the " <defunct>" room.
MCSrcs == UNION {[1..n -> {97, 27, 127, 128, 155, 194, 226, 248}] : n \in 0..3}
MCCmds == UNION {[1..n -> {97, 27, 194, 128}] : n \in 0..2}
MCBufsizes == {0, 1, 2, 3, 4, 12, 13, 14, 2147483647}

\* Strings of up to three characters: a space, both signs, two digits, both
\* radix characters and a character no grammar accepts.
MCStrings == UNION {[1..n -> {" ", "+", "-", "0", "7", ".", ",", "z"}] : n \in 0..3}

\* osrelease lines: current kernels, a stable kernel past patch 255, a
\* two-field 3.x and 2.x line, a line with no number.
MCOsReleases == {<<6, 1, 0>>, <<4, 19, 325>>, <<4, 9, 256>>, <<3, 10>>, <<2, 6>>,
                 <<5>>, << >>, NoFile, NoLine}
=============================================================================
