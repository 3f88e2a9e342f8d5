------------------------------ MODULE Signals ------------------------------
(***************************************************************************)
(* signals.c: the signal table, signal_name_to_number,                     *)
(* signal_number_to_name, strtosig and skill_sig_option.                   *)
(*                                                                         *)
(* A string is abstracted to what these parsers tell apart: whether it     *)
(* starts with "SIG" (any case; case is otherwise ignored, as strcasecmp   *)
(* and toupper make it) and a body, which is                               *)
(*   [kind |-> "word", val |-> w]     a word such as "KILL" or "RTMIN",    *)
(*   [kind |-> "rt", val |-> k]       "RTMIN+" followed by the decimal k,  *)
(*   [kind |-> "num", val |-> k]      the decimal k (with '-' if k < 0),   *)
(*   [kind |-> "numjunk", val |-> k]  the decimal k >= 0 then a letter.    *)
(* strtol is modelled by what it does on these shapes.                     *)
(*                                                                         *)
(* The library is called, one function at a time, by a driver: each step  *)
(* is one call with an argument from a small set, and records it in last.  *)
(* skill_sig_option works on the caller's argv, kept in the variable argv. *)
(***************************************************************************)
EXTENDS Integers, Sequences, FiniteSets, SequencesExt

CONSTANTS
  SIGRTMIN,     \* glibc's SIGRTMIN (34: NPTL reserves 32 and 33)
  Signos,       \* arguments given to signal_number_to_name
  Words,        \* words a name can be made of
  RtOffsets,    \* k of "RTMIN+k"
  Decimals,     \* k of a decimal string
  Argvs,        \* initial argument vectors given to skill_sig_option
  None          \* NULL

ASSUME SIGRTMIN \in 32..64

VARIABLES
  last,         \* the last library call: function, argument and result
  argv          \* the argument vector skill_sig_option edits in place

vars == <<last, argv>>

Str(sig, kind, val) == [sig |-> sig, kind |-> kind, val |-> val]
Word(w) == Str(FALSE, "word", w)

\* Every string the driver passes in.
Names ==
  {Str(s, "word", w) : s \in BOOLEAN, w \in Words}
    \cup {Str(s, "rt", k) : s \in BOOLEAN, k \in RtOffsets}
    \cup {Str(s, "num", k) : s \in BOOLEAN, k \in Decimals}
    \cup {Str(s, "numjunk", k) : s \in BOOLEAN, k \in Decimals \cap Nat}

(***************************************************************************)
(* sigtable, in source order, with the Linux x86 numbers: SIGEMT is not    *)
(* defined there, so STKFLT is kept, and SIGPWR is 30.                     *)
(***************************************************************************)
sigtable ==
  << [name |-> "ABRT", num |-> 6],  [name |-> "ALRM", num |-> 14],
     [name |-> "BUS", num |-> 7],   [name |-> "CHLD", num |-> 17],
     [name |-> "CONT", num |-> 18], [name |-> "FPE", num |-> 8],
     [name |-> "HUP", num |-> 1],   [name |-> "ILL", num |-> 4],
     [name |-> "INT", num |-> 2],   [name |-> "KILL", num |-> 9],
     [name |-> "PIPE", num |-> 13], [name |-> "POLL", num |-> 29],
     [name |-> "PROF", num |-> 27], [name |-> "PWR", num |-> 30],
     [name |-> "QUIT", num |-> 3],  [name |-> "SEGV", num |-> 11],
     [name |-> "STKFLT", num |-> 16], [name |-> "STOP", num |-> 19],
     [name |-> "SYS", num |-> 31],  [name |-> "TERM", num |-> 15],
     [name |-> "TRAP", num |-> 5],  [name |-> "TSTP", num |-> 20],
     [name |-> "TTIN", num |-> 21], [name |-> "TTOU", num |-> 22],
     [name |-> "URG", num |-> 23],  [name |-> "USR1", num |-> 10],
     [name |-> "USR2", num |-> 12], [name |-> "VTALRM", num |-> 26],
     [name |-> "WINCH", num |-> 28], [name |-> "XCPU", num |-> 24],
     [name |-> "XFSZ", num |-> 25] >>

number_of_signals == Len(sigtable)
TableNames == {sigtable[r].name : r \in 1..number_of_signals}
\* Row of a table name; bsearch over the sorted table finds exactly this row.
RowOfName(w) == CHOOSE r \in 1..number_of_signals : sigtable[r].name = w

\* get_sigtable_num with C's 0-based row.
get_sigtable_num(row) ==
  IF row < 0 \/ row >= number_of_signals THEN -1 ELSE sigtable[row + 1].num

\* Faults: a dropped upper bound, and a scan that stops before row 0.
RtCheckNoUpper(val, offset) == IF val < 0 THEN -1 ELSE val + offset
NameRowOfNumSkipsFirst(s) ==
  LET rows == {r \in 2..number_of_signals : sigtable[r].num = s}
  IN  IF rows = {} THEN None ELSE Max(rows)

\* strtol of the part after the "RTMIN+" or of a whole decimal, then the
\* range check, which adds SIGRTMIN whether or not there was an offset.
RtCheck(val, offset) ==
  IF val < 0 \/ val + SIGRTMIN > 127 THEN -1 ELSE val + offset

signal_name_to_number(x) ==
  CASE x.kind = "word" /\ x.val = "CLD"   -> 17
    [] x.kind = "word" /\ x.val = "IO"    -> 29
    [] x.kind = "word" /\ x.val = "IOT"   -> 6
    [] x.kind = "word" /\ x.val \in TableNames -> sigtable[RowOfName(x.val)].num
    [] x.kind = "word" /\ x.val = "RTMIN" -> SIGRTMIN
    [] x.kind = "word" /\ x.val \in {"EXIT", "NULL"} -> 0
    [] x.kind = "rt"  -> RtCheck(x.val, SIGRTMIN)
    [] x.kind = "num" -> RtCheck(x.val, 0)
    [] OTHER -> -1

\* The scan while (n--) runs from the last row down: the highest matching row.
NameRowOfNum(s) ==
  LET rows == {r \in 1..number_of_signals : sigtable[r].num = s}
  IN  IF rows = {} THEN None ELSE Max(rows)

signal_number_to_name(signo) ==
  LET s == signo % 128                      \* signo &= 0x7f
      r == NameRowOfNum(s)
  IN  CASE r # None     -> Word(sigtable[r].name)
        [] s = SIGRTMIN -> Word("RTMIN")
        [] s # 0        -> Str(FALSE, "rt", s - SIGRTMIN)
        [] OTHER        -> Str(FALSE, "num", 0)

(***************************************************************************)
(* strtosig: an upper-cased copy, "SIG" skipped by moving p, a number      *)
(* parsed from the ORIGINAL s, then a table scan from row 0.               *)
(***************************************************************************)
DigitFirst(x) == x.kind \in {"num", "numjunk"} /\ x.val >= 0

\* Fault: the scan compares the number of the next row.
StrtosigRowOfNumShifted(k) ==
  LET rows == {i \in 0..number_of_signals - 1 : get_sigtable_num(i + 1) = k}
  IN  IF rows = {} THEN None ELSE Min(rows)

\* First 0-based row whose number is k (the loop breaks on a match).
StrtosigRowOfNum(k) ==
  LET rows == {i \in 0..number_of_signals - 1 : get_sigtable_num(i) = k}
  IN  IF rows = {} THEN None ELSE Min(rows)

\* Result and which pointer reaches free(): the copy, or copy + 3.
strtosig(x) ==
  IF DigitFirst(x) /\ (x.sig \/ x.kind = "numjunk")
  THEN \* strtol(s) stops at "SIG" or at the letter: free(p); return NULL
       [res |-> None, freed |-> IF x.sig THEN "interior" ELSE "copy"]
  ELSE LET numsignal == IF DigitFirst(x) THEN x.val ELSE 0
           row == StrtosigRowOfNum(numsignal)
       IN  [freed |-> "copy",
            res |-> CASE numsignal # 0 /\ row # None
                           -> Word(sigtable[row + 1].name)
                      [] numsignal = 0 /\ x.kind = "word" /\ x.val \in TableNames
                           -> Str(FALSE, "num", sigtable[RowOfName(x.val)].num)
                      [] OTHER -> None]

(***************************************************************************)
(* skill_sig_option: the first argument after argv[0] that is '-' and a    *)
(* signal is removed by memmove, argc drops by one, its number returned.   *)
(* argv is a sequence: argv[1] here is argv[0] in C.                       *)
(***************************************************************************)
SkillFirstArg == 2

OptionSigno(a) == IF a.dash THEN signal_name_to_number(a.name) ELSE -1

\* Fault: memmove from one slot too far, dropping the following argument.
ShiftDownSkipsNext(av, j) ==
  [k \in 1..Len(av) - 1 |-> IF k <= j THEN av[k] ELSE av[k + 1]]

\* memmove(argv + i, argv + i + 1, ...); (*argc)--
ShiftDown(av, j) ==
  [k \in 1..Len(av) - 1 |-> IF k < j THEN av[k] ELSE av[k + 1]]

skill_sig_option(av) ==
  LET hits == {j \in SkillFirstArg..Len(av) : OptionSigno(av[j]) > -1}
  IN  IF hits = {} THEN [ret |-> -1, argv |-> av]
      ELSE [ret |-> OptionSigno(av[Min(hits)]), argv |-> ShiftDown(av, Min(hits))]

-----------------------------------------------------------------------------
NoCall == [fn |-> "none", arg |-> None, res |-> None, freed |-> "none"]

Init ==
  /\ last = NoCall
  /\ argv \in Argvs

CallNumberToName ==
  /\ \E s \in Signos :
       last' = [fn |-> "n2n", arg |-> s, res |-> signal_number_to_name(s),
                freed |-> "none"]
  /\ UNCHANGED argv

CallNameToNumber ==
  /\ \E x \in Names :
       last' = [fn |-> "name2n", arg |-> x, res |-> signal_name_to_number(x),
                freed |-> "none"]
  /\ UNCHANGED argv

CallStrtosig ==
  /\ \E x \in Names :
       LET r == strtosig(x)
       IN  last' = [fn |-> "strtosig", arg |-> x, res |-> r.res, freed |-> r.freed]
  /\ UNCHANGED argv

CallSkillSigOption ==
  LET r == skill_sig_option(argv)
  IN  /\ argv' = r.argv
      /\ last' = [fn |-> "skill", arg |-> argv, res |-> r.ret, freed |-> "none"]

Next == CallNumberToName \/ CallNameToNumber \/ CallStrtosig \/ CallSkillSigOption

Spec == Init /\ [][Next]_vars

-----------------------------------------------------------------------------
(***************************************************************************)
(* Properties                                                              *)
(***************************************************************************)

\* Type invariant; a number returned by signal_name_to_number or
\* skill_sig_option is -1 or a signal number 0..127, as kill(2) expects.
TypeOK ==
  /\ last.fn \in {"none", "n2n", "name2n", "strtosig", "skill"}
  /\ last.freed \in {"none", "copy", "interior"}
  /\ last.fn \in {"name2n", "skill"} => last.res \in -1..127
  /\ Len(argv) >= 1

\* signal_number_to_name gives a name that signal_name_to_number maps back
\* to the same number, for every number outside the gap between the table
\* and SIGRTMIN that glibc keeps for itself.
NamesRoundTripOutsideGap ==
  last.fn = "n2n" /\ last.arg % 128 \notin 32..(SIGRTMIN - 1)
    => signal_name_to_number(last.res) = last.arg % 128

\* The same round trip, for every number (signal_number_to_name's own
\* contract: the "RTMIN+%d" it prints is meant to be read back).
NamesRoundTrip ==
  last.fn = "n2n" => signal_name_to_number(last.res) = last.arg % 128

\* When strtosig converts, it agrees with signal_name_to_number: a number
\* string is the argument's signal number, a name names the same signal.
StrtosigAgreesWithParser ==
  last.fn = "strtosig" /\ last.res # None =>
    CASE last.res.kind = "num"
           -> signal_name_to_number(last.arg) = last.res.val
      [] OTHER
           -> signal_name_to_number(last.arg) = signal_name_to_number(last.res)

\* strtosig frees only what strdup returned.
StrtosigFreesOwnCopy ==
  last.fn = "strtosig" => last.freed = "copy"

\* skill_sig_option removes exactly the first '-' argument after argv[0]
\* that names a signal, keeps the others in order and returns its number;
\* with no such argument it returns -1 and leaves argv alone.
SkillRemovesFirstOption ==
  [][last'.fn = "skill" =>
       IF last'.res = -1
       THEN argv' = argv
       ELSE \E j \in 2..Len(argv) :
              /\ argv[j].dash
              /\ signal_name_to_number(argv[j].name) = last'.res
              /\ \A k \in 2..(j - 1) :
                   ~(argv[k].dash /\ signal_name_to_number(argv[k].name) >= 0)
              /\ argv' = RemoveAt(argv, j)]_vars
=============================================================================
