----------------------------- MODULE MCSignals -----------------------------
(***************************************************************************)
(* Instantiation of Signals for TLC.                                       *)
(***************************************************************************)
EXTENDS Signals

\* Every value signo &= 0x7f can see, and two that the mask folds (137 is
\* the exit status of a SIGKILLed child).
MCSignos == 0..129 \cup {137}

\* Table names, the aliases, the special words and one unknown word.
MCWords == {"KILL", "HUP", "XFSZ", "ABRT", "CLD", "IO", "IOT", "RTMIN",
            "EXIT", "NULL", "FOO"}

\* Offsets below zero (the gap), in range, and past the 127 limit.
MCRtOffsets == {-2, -1, 0, 1, 30, 93, 94}

\* Negative, zero, table numbers, the gap, real-time, past the limit.
MCDecimals == {-1, 0, 9, 25, 32, 40, 93, 94}

\* argv[0] then up to three arguments: options that are and are not signals,
\* and a non-option word.
Prog == [dash |-> FALSE, name |-> Word("SKILL")]
ArgPool ==
  {[dash |-> TRUE,  name |-> Word("KILL")],
   [dash |-> TRUE,  name |-> Str(FALSE, "num", 9)],
   [dash |-> TRUE,  name |-> Str(TRUE, "word", "HUP")],
   [dash |-> TRUE,  name |-> Word("FOO")],
   [dash |-> FALSE, name |-> Word("KILL")]}
MCArgvs == {<<Prog>> \o s : s \in UNION {[1..n -> ArgPool] : n \in 0..3}}
=============================================================================
