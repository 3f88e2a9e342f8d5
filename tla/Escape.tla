------------------------------- MODULE Escape -------------------------------
(***************************************************************************)
(* escape.c: escape_str and escape_command, which copy a process name into *)
(* a bounded buffer and replace what a terminal must not see. In a UTF-8   *)
(* locale esc_ctl walks the characters by the length UTF_tab gives their   *)
(* lead byte and replaces control lead bytes with '?'; on a bad lead byte  *)
(* or a character cut by the buffer it hands the rest to esc_all, which is *)
(* used alone in any other locale and maps every byte through ESC_tab.     *)
(*                                                                         *)
(* A string is a sequence of byte values 1..255 (C strings hold no NUL).   *)
(* The codeset is cached by the first call in utf_sw, per thread; the      *)
(* program is single-threaded.                                             *)
(***************************************************************************)
EXTENDS Integers, Sequences, SequencesExt

CONSTANTS
  Srcs,       \* strings given to escape_str
  Cmds,       \* process names given to escape_command
  Bufsizes,   \* bufsize / bytes arguments
  INT_MAX,
  Codesets,   \* codesets nl_langinfo(CODESET) can report
  MaxCalls    \* bound on library calls per behaviour

VARIABLES
  codeset,    \* the locale's codeset (setlocale by the program)
  utf_sw,     \* escape_str's cache: 0 unknown, 1 UTF-8, -1 other
  last,       \* the last call: arguments, buffer contents, return value
  calls       \* library calls made so far (bounded by MaxCalls)

vars == <<codeset, utf_sw, last, calls>>

Quest == 63       \* '?'
Dot == 46         \* '.'
At == 64          \* '@'
Defunct == <<32, 60, 100, 101, 102, 117, 110, 99, 116, 62>>   \* " <defunct>"

\* Fault: C2 marked invalid like the overlong leads C0 and C1.
UTF_tabNoC2(b) ==
  CASE b < 128              -> 1
    [] b >= 195 /\ b <= 223 -> 2
    [] b >= 224 /\ b <= 239 -> 3
    [] b >= 240 /\ b <= 244 -> 4
    [] OTHER                -> -1

\* UTF_tab: the length of the character a byte starts, -1 if none.
UTF_tab(b) ==
  CASE b < 128              -> 1
    [] b >= 194 /\ b <= 223 -> 2
    [] b >= 224 /\ b <= 239 -> 3
    [] b >= 240 /\ b <= 244 -> 4
    [] OTHER                -> -1

\* Fault: DEL left out of ESC_tab's replacements.
ESC_tabKeepsDel(b) ==
  CASE b = 0    -> At
    [] b < 32   -> Dot
    [] b < 128  -> b
    [] OTHER    -> Quest

\* ESC_tab: the replacement of a byte; '|' entries keep the byte.
ESC_tab(b) ==
  CASE b = 0    -> At
    [] b < 32   -> Dot
    [] b < 127  -> b
    [] b = 127  -> Dot
    [] OTHER    -> Quest

\* Index of the first NUL at or after i (Len(s) + 1 if none).
NulFrom(s, i) ==
  LET z == {j \in i..Len(s) : s[j] = 0}
  IN  IF z = {} THEN Len(s) + 1 ELSE Min(z)

\* esc_all from position i up to the terminating NUL.
esc_all(s, i) ==
  [j \in DOMAIN s |-> IF j >= i /\ j < NulFrom(s, i) THEN ESC_tab(s[j]) ELSE s[j]]

IsCtl(b) == b < 32 \/ b = 127

\* esc_ctl over the first len bytes, from 1-based position i.
RECURSIVE esc_ctl(_, _, _)
esc_ctl(s, i, len) ==
  IF i > len THEN s
  ELSE LET n == UTF_tab(s[i])
       IN  IF n < 0 \/ (i - 1) + n > len
           THEN esc_all(s, i)
           ELSE esc_ctl([s EXCEPT ![i] = IF IsCtl(s[i]) THEN Quest ELSE s[i]],
                        i + n, len)

\* utf_sw after a call: the codeset is looked up only while it is 0.
UtfSwAfter(sw) == IF sw # 0 THEN sw ELSE IF codeset = "UTF-8" THEN 1 ELSE -1

\* Fault: the truncated length is not reduced for the NUL.
TruncLenNoNul(n, bufsize) == IF n >= bufsize THEN bufsize ELSE n

\* if (n >= bufsize) n = bufsize-1;
TruncLen(n, bufsize) == IF n >= bufsize THEN bufsize - 1 ELSE n

\* escape_str: the bytes it leaves in dst (the string and its NUL), its
\* return value, and the highest dst index written (0-based; -1 if none).
escape_str(src, bufsize, sw) ==
  CASE bufsize <= 0       -> [buf |-> << >>, ret |-> 0, hi |-> -1]
    [] bufsize >= INT_MAX -> [buf |-> <<0>>, ret |-> 0, hi |-> 0]
    [] OTHER ->
         LET n == TruncLen(Len(src), bufsize)
             dst == SubSeq(src, 1, Min({Len(src), bufsize - 1})) \o <<0>>
         IN  [buf |-> IF sw < 0 THEN esc_all(dst, 1) ELSE esc_ctl(dst, 1, n),
              ret |-> n,
              hi  |-> Len(dst) - 1]

\* The C string in a buffer: the bytes before its first NUL.
CString(buf) == SubSeq(buf, 1, NulFrom(buf, 1) - 1)

\* Fault: " <defunct>" counted as 9 bytes.
DefunctOverheadShort == 9

\* if (pp->state == 'Z') overhead += 10;    // chars in " <defunct>"
DefunctOverhead == 10

\* The bytes escape_command reserves around the name.
CommandOverhead(zombie, flags) ==
  (IF "brackets" \in flags THEN 2 ELSE 0)
    + (IF "defunct" \in flags /\ zombie THEN DefunctOverhead ELSE 0)

\* escape_command: the string written to outbuf, the return value (end)
\* and the highest outbuf index written, given the utf_sw in force.
escape_command(cmd, zombie, bytes, flags, sw) ==
  LET brackets == "brackets" \in flags
      defunct  == "defunct" \in flags /\ zombie
      overhead == CommandOverhead(zombie, flags)
      start    == IF brackets THEN 1 ELSE 0
      e        == escape_str(cmd, bytes - overhead, sw)
      body     == (IF brackets THEN <<91>> ELSE << >>) \o SubSeq(e.buf, 1, e.ret)
                    \o (IF brackets THEN <<93>> ELSE << >>)
                    \o (IF defunct THEN Defunct ELSE << >>)
  IN  IF overhead + 1 >= bytes
      THEN [out |-> << >>, ret |-> 0, hi |-> 0]
      ELSE [out |-> body, ret |-> Len(body),
            hi  |-> Max({start + e.hi, Len(body)})]

-----------------------------------------------------------------------------
NoCall == [fn |-> "none", src |-> << >>, size |-> 0, sw |-> 0, out |-> << >>,
           ret |-> 0, hi |-> -1]

Init ==
  /\ codeset \in Codesets
  /\ utf_sw = 0
  /\ last = NoCall
  /\ calls = 0

\* The program switches locale (setlocale); utf_sw keeps what it cached.
SetLocale ==
  /\ \E cs \in Codesets : codeset' = cs
  /\ UNCHANGED <<utf_sw, last, calls>>

CallEscapeStr ==
  /\ calls < MaxCalls
  /\ calls' = calls + 1
  /\ \E src \in Srcs, b \in Bufsizes :
    LET sw == UtfSwAfter(utf_sw)
        r  == escape_str(src, b, sw)
    IN  /\ utf_sw' = sw
        /\ last' = [fn |-> "str", src |-> src, size |-> b, sw |-> sw,
                    out |-> CString(r.buf), ret |-> r.ret, hi |-> r.hi]
        /\ UNCHANGED codeset

\* escape_command reaches escape_str (and utf_sw) only when the name has room.
CallEscapeCommand ==
  /\ calls < MaxCalls
  /\ calls' = calls + 1
  /\ \E cmd \in Cmds, zombie \in BOOLEAN, b \in Bufsizes,
     flags \in SUBSET {"brackets", "defunct"} :
    LET called == CommandOverhead(zombie, flags) + 1 < b
        sw == IF called THEN UtfSwAfter(utf_sw) ELSE utf_sw
        r  == escape_command(cmd, zombie, b, flags, sw)
    IN  /\ utf_sw' = sw
        /\ last' = [fn |-> "command", src |-> cmd, size |-> b, sw |-> sw,
                    out |-> r.out, ret |-> r.ret, hi |-> r.hi]
        /\ UNCHANGED codeset

Next == SetLocale \/ CallEscapeStr \/ CallEscapeCommand

Spec == Init /\ [][Next]_vars

-----------------------------------------------------------------------------
(***************************************************************************)
(* Properties                                                              *)
(***************************************************************************)

\* Reference: well-formed UTF-8 by the byte ranges of RFC 3629.
LeadLen(b) ==
  CASE b <= 127              -> 1
    [] b \in 194..223        -> 2
    [] b \in 224..239        -> 3
    [] b \in 240..244        -> 4
    [] OTHER                 -> 0
RECURSIVE WellFormed(_)
WellFormed(s) ==
  \/ s = << >>
  \/ LET k == LeadLen(s[1])
     IN  /\ k > 0 /\ Len(s) >= k
         /\ \A j \in 2..k : s[j] \in 128..191
         /\ WellFormed(SubSeq(s, k + 1, Len(s)))

\* escape_str returns the length of the string it leaves, which is the
\* source cut to bufsize-1 bytes, and writes nothing past dst[bufsize-1].
EscapeStrLength ==
  last.fn = "str" /\ last.size \in 1..(INT_MAX - 1) =>
    /\ last.ret = Len(last.out)
    /\ last.ret = Min({Len(last.src), last.size - 1})
    /\ last.hi < last.size

\* escape_command's result, brackets and " <defunct>" included, fits in
\* outbuf with its NUL, and the return value is its length.
EscapeCommandFits ==
  last.fn = "command" =>
    /\ last.ret = Len(last.out)
    /\ last.hi < last.size \/ last.size <= 0

\* Outside a UTF-8 locale every byte shown is printable ASCII.
AsciiLocaleOutputPrintable ==
  last.sw = -1 => \A j \in DOMAIN last.out : last.out[j] \in 32..126

\* In a UTF-8 locale, a name that is well-formed UTF-8 without C0 controls
\* or DEL and fits the buffer is shown unchanged.
WellFormedTextPreserved ==
  (/\ last.fn = "str" /\ last.sw = 1
   /\ last.size \in (Len(last.src) + 1)..(INT_MAX - 1)
   /\ WellFormed(last.src)
   /\ \A j \in DOMAIN last.src : ~IsCtl(last.src[j]))
    => last.out = last.src

\* No terminal control character reaches the output: no C0 control or DEL
\* byte, and no C1 control (U+0080..U+009F, the bytes C2 80..C2 9F).
NoControlReachesTerminal ==
  \A j \in DOMAIN last.out :
    /\ ~IsCtl(last.out[j])
    /\ (last.out[j] = 194 /\ j < Len(last.out) => last.out[j + 1] \notin 128..159)
=============================================================================
