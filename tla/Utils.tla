------------------------------- MODULE Utils -------------------------------
(***************************************************************************)
(* The helpers a procps program calls outside its main job: the strict     *)
(* conversions of strutils.c, getenv_int (env.c), procps_linux_version     *)
(* with the LINUX_VERSION macros (version.c, misc.h), and close_stdout,    *)
(* the atexit handler of fileutils.c. A behaviour is one call; last        *)
(* records its arguments and result.                                       *)
(***************************************************************************)
EXTENDS Integers, Sequences, Bitwise, StrToNum

CONSTANTS
  Strings,      \* argument strings
  Radixes,      \* radix characters a locale's LC_NUMERIC can have
  OsReleases,   \* /proc/sys/kernel/osrelease: the %u fields sscanf reads, or NoFile, NoLine
  NoFile,       \* fopen fails (ENOENT)
  NoLine,       \* fgets returns NULL
  StaleErrnos,  \* errno values left by calls other than writes (a failed open)
  MaxCalls

VARIABLES last, calls

uVars == <<last, calls>>

ENOENT == 2
EIO == 5
EBADF == 9
ENOSPC == 28
EPIPE == 32
ERANGE == 34

(***************************************************************************)
(* procps_linux_version and the misc.h macros                              *)
(***************************************************************************)
\* Fault: the patch level is not masked to eight bits.
LINUX_VERSION_Unmasked(x, y, z) == 65536 * (x & 32767) + 256 * (y & 255) + z

LINUX_VERSION(x, y, z) == 65536 * (x & 32767) + 256 * (y & 255) + (z & 255)
LINUX_VERSION_MAJOR(v) == shiftR(v, 16) & 255
LINUX_VERSION_MINOR(v) == shiftR(v, 8) & 255
LINUX_VERSION_PATCH(v) == v & 255

\* x, y, z start at 0; sscanf stores only the fields it converts.
Field(r, k) == IF k <= Len(r) THEN r[k] ELSE 0

procps_linux_version(r) ==
  CASE r = NoFile                        -> -ENOENT
    [] r = NoLine                        -> -EIO
    [] Len(r) < 2 \/ (Len(r) < 3 /\ r[1] < 3) -> -ERANGE
    [] OTHER -> LINUX_VERSION(r[1], r[2], Field(r, 3))

(***************************************************************************)
(* close_stream and close_stdout. A stream is what the program left in it: *)
(* output still pending, the error of a failed earlier write (0: none,     *)
(* the stream's ferror flag is set otherwise) and what fclose gives (0 or  *)
(* its errno). errno is global: fclose sets it when it fails, and it holds *)
(* whatever an earlier call left otherwise.                                *)
(***************************************************************************)
\* Fault: a failed fclose counts only when errno is not EBADF, pending
\* output or not.
close_streamIgnoresPending(st, errno) ==
  LET e == IF st.fclose # 0 THEN st.fclose ELSE errno
  IN  IF st.werr # 0 \/ (st.fclose # 0 /\ e # EBADF)
      THEN [ret |-> -1, errno |-> IF st.fclose = 0 /\ e # EPIPE THEN 0 ELSE e]
      ELSE [ret |-> 0, errno |-> e]

\* Returns [ret |-> 0 or EOF (-1), errno |-> errno afterwards].
close_stream(st, errno) ==
  LET some_pending == st.pending
      prev_fail == st.werr # 0
      fclose_fail == st.fclose # 0
      e == IF fclose_fail THEN st.fclose ELSE errno
  IN  IF prev_fail \/ (fclose_fail /\ (some_pending \/ e # EBADF))
      THEN [ret |-> -1, errno |-> IF ~fclose_fail /\ e # EPIPE THEN 0 ELSE e]
      ELSE [ret |-> 0, errno |-> e]

\* The exit status, and whether "write error" was reported.
close_stdout(out, err, errno) ==
  LET o == close_stream(out, errno)
  IN  IF o.ret # 0 /\ o.errno # EPIPE
      THEN [status |-> 1, reported |-> TRUE]
      ELSE [status |-> IF close_stream(err, o.errno).ret # 0 THEN 1 ELSE 0,
            reported |-> FALSE]

\* A stream to a file fails with ENOSPC, one to a closed pipe with EPIPE;
\* fclose of an already closed fd fails with EBADF.
Streams ==
  {[pending |-> p, werr |-> w, fclose |-> f] :
     p \in BOOLEAN, w \in {0, ENOSPC}, f \in {0, ENOSPC, EBADF}}
  \cup
  {[pending |-> p, werr |-> w, fclose |-> f] :
     p \in BOOLEAN, w \in {0, EPIPE}, f \in {0, EPIPE, EBADF}}

(***************************************************************************)
(* The calls                                                               *)
(***************************************************************************)
Call(rec) == calls < MaxCalls /\ last' = rec /\ calls' = calls + 1

CallStrtolOrErr ==
  \E s \in Strings : Call([fn |-> "strtol", s |-> s, res |-> strtol_or_err(s)])

CallStrtodOrErr ==
  \E s \in Strings, r \in Radixes :
    Call([fn |-> "strtod", s |-> s, radix |-> r, res |-> strtod_or_err(s, r)])

CallStrtodNolOrErr ==
  \E s \in Strings : Call([fn |-> "strtod_nol", s |-> s, res |-> strtod_nol_or_err(s)])

CallGetenvInt ==
  \E isSet \in BOOLEAN, v \in Strings :
    Call([fn |-> "getenv_int", set |-> isSet, s |-> v, res |-> getenv_int(isSet, v)])

CallLinuxVersion ==
  \E r \in OsReleases : Call([fn |-> "version", r |-> r, res |-> procps_linux_version(r)])

\* The program exits: close_stdout runs from atexit with the errno left over:
\* the error of the last failed write, to stdout or to stderr, or one a
\* failed open left. A stale EPIPE comes from a write to a closed pipe.
CallCloseStdout ==
  \E out, err \in Streams : \E e \in StaleErrnos \cup {out.werr, err.werr} :
    Call([fn |-> "close_stdout", out |-> out, err |-> err, errno |-> e,
          res |-> close_stdout(out, err, e)])

uInit == last = [fn |-> "none"] /\ calls = 0

uNext ==
  \/ CallStrtolOrErr \/ CallStrtodOrErr \/ CallStrtodNolOrErr \/ CallGetenvInt
  \/ CallLinuxVersion \/ CallCloseStdout

-----------------------------------------------------------------------------
(***************************************************************************)
(* Reference definitions                                                   *)
(***************************************************************************)
\* The strings strtol_or_err's contract describes: optional spaces, an
\* optional sign, one or more digits, nothing after them.
IsDecimalInteger(s) ==
  \E k \in 0..Len(s), sg \in 0..1 :
    /\ k + sg < Len(s)
    /\ \A i \in 1..k : IsSpace(s[i])
    /\ sg = 1 => IsSign(s[k + 1])
    /\ \A i \in (k + sg + 1)..Len(s) : IsDigit(s[i])

\* The value such a string denotes.
DecimalValue(s) ==
  LET k == SkipFrom(s, 1, Spaces)
      d == IF IsSign(s[k]) THEN k + 1 ELSE k
  IN  SignOf(s, k) * FoldLeft(LAMBDA a, c : 10 * a + DigitValue[c], 0, SubSeq(s, d, Len(s)))

(***************************************************************************)
(* Properties                                                              *)
(***************************************************************************)
\* strtol_or_err (vmstat's delay and count) returns exactly for the strings
\* that are a decimal integer, and returns their value; it exits on every
\* other string, "12z", "-" or "" included.
StrtolOnlyWholeIntegers ==
  last.fn = "strtol" =>
    /\ last.res.ok <=> IsDecimalInteger(last.s)
    /\ last.res.ok => last.res.val = DecimalValue(last.s)

VersionMajorMinorExact ==
  last.fn = "version" /\ last.res >= 0 =>
    /\ LINUX_VERSION_MAJOR(last.res) = last.r[1]
    /\ LINUX_VERSION_MINOR(last.res) = last.r[2]

\* close_stdout never lets output be lost silently: when stdout had a write
\* fail, or output still pending that fclose could not flush, for any reason
\* but a closed pipe, the program exits 1, whatever errno an earlier call
\* left; and it reports the write error on stderr unless stderr is itself a
\* closed pipe (whose EPIPE, left in errno, close_stdout takes for stdout's).
CloseStdoutReportsLostOutput ==
  LET o == last.out
      cause == IF o.werr # 0 THEN o.werr ELSE o.fclose
  IN  last.fn = "close_stdout" /\ (o.werr # 0 \/ (o.fclose # 0 /\ o.pending))
        /\ cause # EPIPE
      => /\ last.res.status = 1
         /\ last.res.reported \/ last.err.werr = EPIPE
=============================================================================
