------------------------------ MODULE Library ------------------------------
(***************************************************************************)
(* The library calls a procps program makes besides reading /proc: the    *)
(* escaping of process names (Escape) and the helpers of Utils. A program  *)
(* makes its calls one after another on one thread; the two share nothing  *)
(* but the count of calls, bounded by MaxCalls, and each keeps its own     *)
(* record of the last call (Escape's last, Utils' ulast).                  *)
(***************************************************************************)
EXTENDS Integers

CONSTANTS
  Srcs, Cmds, Bufsizes, INT_MAX, Codesets, MaxCalls,
  Strings, Radixes, OsReleases, NoFile, NoLine, StaleErrnos

VARIABLES codeset, utf_sw, last, calls, ulast

vars == <<codeset, utf_sw, last, calls, ulast>>

E == INSTANCE Escape
U == INSTANCE Utils WITH last <- ulast

Init == E!Init /\ U!uInit

Next ==
  \/ E!Next /\ UNCHANGED ulast
  \/ U!uNext /\ UNCHANGED <<codeset, utf_sw, last>>

Spec == Init /\ [][Next]_vars

-----------------------------------------------------------------------------
\* escape_str's return value is the length of the string it leaves, the
\* source cut to bufsize-1, and it writes nothing past dst[bufsize-1].
EscapeStrLength == E!EscapeStrLength

\* escape_command's result, brackets and " <defunct>" included, fits in
\* outbuf with its NUL.
EscapeCommandFits == E!EscapeCommandFits

\* Outside a UTF-8 locale escape_str shows printable ASCII only.
AsciiLocaleOutputPrintable == E!AsciiLocaleOutputPrintable

\* In a UTF-8 locale escape_str shows well-formed text without controls
\* unchanged.
WellFormedTextPreserved == E!WellFormedTextPreserved

\* strtol_or_err returns exactly for decimal integers, with their value.
StrtolOnlyWholeIntegers == U!StrtolOnlyWholeIntegers

VersionMajorMinorExact == U!VersionMajorMinorExact

\* close_stdout exits 1, and reports it, when output is lost for any reason
\* but a closed pipe.
CloseStdoutReportsLostOutput == U!CloseStdoutReportsLostOutput
=============================================================================
