------------------------------- MODULE Uptime -------------------------------
(***************************************************************************)
(* uptime.c: procps_uptime (read /proc/uptime), procps_uptime_sprint (the  *)
(* "up D days, H:MM" form) and procps_uptime_sprint_short (the "up 1 week, *)
(* 2 days, 3 hours" form).                                                 *)
(*                                                                         *)
(* /proc/uptime holds seconds with two decimals. The code compares the     *)
(* double strictly (uptime_secs > 60) and truncates it ((int)), so an      *)
(* uptime is the record [s |-> whole seconds, frac |-> fraction > 0]:      *)
(* u > K is s > K \/ (s = K /\ frac), and (int)u is s.                     *)
(*                                                                         *)
(* A printed line is abstracted to its sequence of <<count, unit>> fields; *)
(* wording, plurals, commas and the clock/users/load part are layout.      *)
(*                                                                         *)
(* procps_uptime_sprint_short reads uphours uninitialised when the         *)
(* remaining uptime is at most one hour; the value read is a choice from   *)
(* UninitHours.                                                            *)
(*                                                                         *)
(* procps_uptime_sprint calls procps_loadavg (sysinfo.c) for the load      *)
(* averages it prints: the two components are composed here, with          *)
(* ProcReaders' state (the loadavg_fd cache, the file offset, the kernel's *)
(* files) beside the uptime strings.                                       *)
(***************************************************************************)
EXTENDS Integers, Sequences, SequencesExt

CONSTANTS
  Secs,          \* whole seconds of uptime values read from /proc/uptime
  UninitHours,   \* values an uninitialised int can hold
  LoadTexts, PidMaxTexts, SysconfHz, HZ, SysconfCpus,   \* see ProcReaders
  None

ASSUME \A s \in Secs : 0 <= s /\ s <= 2147483647  \* (int) uptime_secs is defined

VARIABLES
  last,          \* the last call: function, uptime read, fields printed
  loadfile, loadavg_fd, offset, buf, status, pidmax, pid_length, result

PR == INSTANCE ProcReaders

vars == <<last, loadfile, loadavg_fd, offset, buf, status, pidmax, pid_length,
          result>>

\* What procps_uptime can hand back: a parsed uptime, or failure (fopen or
\* fscanf failed: a negative return, upbuf/shortbuf left empty).
Uptimes == {[s |-> s, frac |-> f] : s \in Secs, f \in BOOLEAN} \cup {None}

Minute == 60
Hour == 60 * 60
Day == 60 * 60 * 24
Week == 60 * 60 * 24 * 7
Year == 60 * 60 * 24 * 365
Decade == 60 * 60 * 24 * 365 * 10

\* uptime_secs > K for the double uptime_secs.
Exceeds(u, k) == u.s > k \/ (u.s = k /\ u.frac)

(***************************************************************************)
(* procps_uptime_sprint: days, hours % 24, minutes % 60 from (int)uptime;  *)
(* "H:MM" when there are hours, else "M min".                              *)
(***************************************************************************)
\* Fault: hours not reduced modulo 24.
LongHoursUnreduced(u) == u.s \div Hour

LongHours(u) == (u.s \div Hour) % 24

sprint(u) ==
  LET updays == u.s \div Day
      uphours == LongHours(u)
      upminutes == (u.s \div Minute) % 60
      dayField == IF updays # 0 THEN << <<updays, Day>> >> ELSE << >>
  IN  IF u = None THEN << >>
      ELSE dayField \o (IF uphours # 0 THEN << <<uphours, Hour>>, <<upminutes, Minute>> >>
                                       ELSE << <<upminutes, Minute>> >>)

(***************************************************************************)
(* procps_uptime_sprint_short: each unit, largest first, is taken out only *)
(* when the remainder strictly exceeds it. Decades to days have an else    *)
(* branch setting 0; hours has none (uninitialised); minutes starts at 0.  *)
(***************************************************************************)
ShortUnits == <<Decade, Year, Week, Day, Hour, Minute>>

\* Fault: the remainder is not reduced after a unit is taken out.
TakeUnitNoSubtract(u, unit, unset) ==
  IF Exceeds(u, unit) THEN [n |-> u.s \div unit, rem |-> u] ELSE [n |-> unset, rem |-> u]

\* One "if (uptime_secs > unit) { n = (int)uptime_secs / unit;
\* uptime_secs -= n*unit; }", with unset the value n has otherwise.
TakeUnit(u, unit, unset) ==
  IF Exceeds(u, unit)
  THEN [n |-> u.s \div unit, rem |-> [u EXCEPT !.s = u.s - (u.s \div unit) * unit]]
  ELSE [n |-> unset, rem |-> u]

\* Counts for ShortUnits[k..], from remainder u, with the else-values unset.
RECURSIVE Decompose(_, _, _)
Decompose(u, k, unset) ==
  IF k > Len(ShortUnits) THEN [counts |-> << >>, rem |-> u]
  ELSE LET t == TakeUnit(u, ShortUnits[k], unset[k])
           r == Decompose(t.rem, k + 1, unset)
       IN  [counts |-> <<t.n>> \o r.counts, rem |-> r.rem]

\* The fields printed: every nonzero unit, and minutes also when they are
\* 0 and less than a minute remains ("up 0 minutes").
ShortFields(d) ==
  LET all == [k \in 1..Len(ShortUnits) |-> <<d.counts[k], ShortUnits[k]>>]
      shown(f) == f[1] # 0 \/ (f[2] = Minute /\ d.rem.s < 60)
  IN  SelectSeq(all, shown)

sprint_short(u, garbage) ==
  IF u = None THEN << >>
  ELSE ShortFields(Decompose(u, 1, <<0, 0, 0, 0, garbage, 0>>))

\* Seconds a sequence of printed fields stands for.
Total(fields) == FoldSeq(LAMBDA f, acc : acc + f[1] * f[2], 0, fields)

-----------------------------------------------------------------------------
Init == /\ last = [fn |-> "none", up |-> None, out |-> << >>, load |-> << >>,
                   file |-> << >>]
        /\ PR!prInit

\* A caller asks for the long form; /proc/uptime yields any of Uptimes. On
\* success the line goes on with procps_loadavg's three values, whatever
\* it returned; on failure upbuf is returned empty before the call.
CallSprint ==
  /\ status = "running"
  /\ \E u \in Uptimes :
       IF u = None
       THEN /\ last' = [fn |-> "sprint", up |-> u, out |-> sprint(u), load |-> << >>,
                        file |-> loadfile]
            /\ UNCHANGED <<loadfile, loadavg_fd, offset, buf, status, pidmax,
                           pid_length, result>>
       ELSE /\ PR!procps_loadavg
            /\ last' = [fn |-> "sprint", up |-> u, out |-> sprint(u),
                        load |-> IF status' = "running" THEN result'.av ELSE << >>,
                        file |-> loadfile]

\* A caller asks for the short form.
CallSprintShort ==
  /\ status = "running"
  /\ \E u \in Uptimes, g \in UninitHours :
       last' = [fn |-> "short", up |-> u, out |-> sprint_short(u, g), load |-> << >>,
                file |-> loadfile]
  /\ UNCHANGED <<loadfile, loadavg_fd, offset, buf, status, pidmax, pid_length, result>>

\* The program's other sysinfo.c calls, and the kernel rewriting its files.
OtherCalls == PR!OtherCalls /\ UNCHANGED last

Kernel == PR!Kernel /\ UNCHANGED last

\* After _exit nothing runs.
Exited == status # "running" /\ UNCHANGED vars

Next == CallSprint \/ CallSprintShort \/ OtherCalls \/ Kernel \/ Exited

Spec == Init /\ [][Next]_vars

-----------------------------------------------------------------------------
(***************************************************************************)
(* Properties                                                              *)
(***************************************************************************)

\* procps_uptime_sprint shows the uptime exactly, truncated to the minute:
\* days, hours and minutes add up to (int)uptime rounded down to 60 s.
LongFormatExact ==
  last.fn = "sprint" /\ last.up # None =>
    Total(last.out) = (last.up.s \div 60) * 60

\* procps_uptime_sprint_short never shows more than the uptime and loses
\* less than two minutes of it.
ShortFormatWithinTwoMinutes ==
  last.fn = "short" /\ last.up # None =>
    /\ Total(last.out) <= last.up.s
    /\ last.up.s - Total(last.out) < 120

\* procps_uptime_sprint_short never shows more than the uptime.
ShortFormatNeverOverstates ==
  last.fn = "short" /\ last.up # None => Total(last.out) <= last.up.s

\* procps_uptime_sprint_short names at least one unit after "up ".
ShortFormatNamesAUnit ==
  last.fn = "short" /\ last.up # None => last.out # << >>

\* The load averages procps_uptime_sprint prints are the three the kernel
\* had in /proc/loadavg when it was called, on every call and not only the
\* first: FILE_TO_BUF must re-read the file through the cached loadavg_fd
\* from offset 0, and sscanf's values must land in av1, av5, av15.
LoadShownIsKernels ==
  last.fn = "sprint" /\ last.up # None /\ last.load # << >> =>
    last.load = SubSeq(last.file, 1, 3)

\* FILE_TO_BUF implements ProcFile: each read of /proc/loadavg hands back
\* its whole current content, or the program exits.
ReadsWholeFile == PR!File!Spec
=============================================================================
