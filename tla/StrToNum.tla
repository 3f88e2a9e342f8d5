------------------------------ MODULE StrToNum ------------------------------
(***************************************************************************)
(* strutils.c and env.c: strtol_or_err, strtod_or_err, strtod_nol_or_err   *)
(* and getenv_int, as operators over strings.                              *)
(*                                                                         *)
(* A string is a sequence of one-character strings (its NUL is the end of  *)
(* the sequence). A double is kept exactly, as an integer number of        *)
(* hundredths: the strings checked have at most two fraction digits, so    *)
(* the decimal value is what the code computes up to the rounding of the   *)
(* double arithmetic, which is left out. Of strtod's grammar the decimal   *)
(* forms are modelled; hexadecimal, exponent, inf and nan forms are not.   *)
(***************************************************************************)
EXTENDS Integers, Sequences, SequencesExt

DigitValue == [d \in {"0", "1", "2", "3", "4", "5", "6", "7", "8", "9"} |->
                 CASE d = "0" -> 0 [] d = "1" -> 1 [] d = "2" -> 2 [] d = "3" -> 3
                   [] d = "4" -> 4 [] d = "5" -> 5 [] d = "6" -> 6 [] d = "7" -> 7
                   [] d = "8" -> 8 [] OTHER -> 9]

Digits == DOMAIN DigitValue
Spaces == {" ", "\t", "\n"}
IsDigit(c) == c \in Digits
IsSpace(c) == c \in Spaces
IsSign(c) == c \in {"+", "-"}

\* The first index from i on whose character is not in C (Len(s) + 1 at the end).
SkipFrom(s, i, C) ==
  LET stop == {k \in i..Len(s) : s[k] \notin C}
  IN  IF stop = {} THEN Len(s) + 1 ELSE Min(stop)

\* The decimal value of s[i..j-1], all digits.
DigitsValue(s, i, j) ==
  FoldLeft(LAMBDA acc, c : 10 * acc + DigitValue[c], 0, SubSeq(s, i, j - 1))

SignOf(s, i) == IF i <= Len(s) /\ s[i] = "-" THEN -1 ELSE 1

(***************************************************************************)
(* strtol(str, &end, 10): spaces, a sign, digits. end is str itself when   *)
(* no digit was read.                                                      *)
(***************************************************************************)
StrtolScan(s) ==
  LET i0 == SkipFrom(s, 1, Spaces)
      i1 == IF i0 <= Len(s) /\ IsSign(s[i0]) THEN i0 + 1 ELSE i0
      i2 == SkipFrom(s, i1, Digits)
  IN  IF i2 = i1 THEN [end |-> 1, val |-> 0]
      ELSE [end |-> i2, val |-> SignOf(s, i0) * DigitsValue(s, i1, i2)]

\* Fault: the check that strtol reached the end of the string is dropped.
StrtolAcceptedAnyEnd(s, r) == Len(s) > 0 /\ r.end # 1

\* str != NULL && *str != '\0' ... errno == 0 && str != end && *end == '\0'
StrtolAccepted(s, r) == Len(s) > 0 /\ r.end # 1 /\ r.end = Len(s) + 1

\* strtol_or_err: the value, or failure (error(EXIT_FAILURE, ...)).
strtol_or_err(s) ==
  LET r == StrtolScan(s)
  IN  IF StrtolAccepted(s, r) THEN [ok |-> TRUE, val |-> r.val]
      ELSE [ok |-> FALSE, val |-> 0]

\* getenv_int: -1 for an unset or empty variable, else strtol of it with the
\* rest of the string ignored (no digits gives 0). Only short values are
\* checked, so the (int) narrowing of the long is the identity.
getenv_int(isSet, v) ==
  IF ~isSet \/ v = << >> THEN -1 ELSE StrtolScan(v).val

(***************************************************************************)
(* strtod(str, &end) with the locale's radix character: spaces, a sign,    *)
(* digits with an optional radix and fraction, at least one digit.         *)
(***************************************************************************)
\* The value, in hundredths, of int digits s[i..j-1] and fraction s[k..l-1].
Hundredths(s, i, j, k, l) ==
  100 * DigitsValue(s, i, j)
    + FoldLeft(LAMBDA acc, n : acc + DigitValue[s[n]] * (IF n = k THEN 10 ELSE 1),
               0, [n \in 1..(l - k) |-> k + n - 1])

StrtodScan(s, radix) ==
  LET i0 == SkipFrom(s, 1, Spaces)
      i1 == IF i0 <= Len(s) /\ IsSign(s[i0]) THEN i0 + 1 ELSE i0
      i2 == SkipFrom(s, i1, Digits)
      hasRadix == i2 <= Len(s) /\ s[i2] = radix
      i3 == IF hasRadix THEN SkipFrom(s, i2 + 1, Digits) ELSE i2
      digits == (i2 - i1) + (IF hasRadix THEN i3 - i2 - 1 ELSE 0)
  IN  IF digits = 0 THEN [end |-> 1, val |-> 0]
      ELSE [end |-> i3,
            val |-> SignOf(s, i0) * Hundredths(s, i1, i2, i2 + 1, IF hasRadix THEN i3 ELSE i2 + 1)]

strtod_or_err(s, radix) ==
  LET r == StrtodScan(s, radix)
  IN  IF Len(s) > 0 /\ r.end # 1 /\ r.end = Len(s) + 1 THEN [ok |-> TRUE, val |-> r.val]
      ELSE [ok |-> FALSE, val |-> 0]

(***************************************************************************)
(* strtod_nol_or_err: the code's own scan, '.' or ',' as radix.            *)
(***************************************************************************)
\* mult = 0.1, in hundredths
MultStart == 10

\* num after the integer digits: mult = MultStart * 10^n, divided by 10 per
\* digit (the first radix loop counts the digits, the second adds them).
NolIntPart(s, i, j) ==
  LET n == j - i
  IN  FoldLeft(LAMBDA acc, k : acc + DigitValue[s[i + k - 1]] * MultStart * 10^(n - k + 1),
               0, [k \in 1..n |-> k])

\* The fraction digits s[k..l-1], mult = 0.1 again and divided by 10 each.
NolFracPart(s, k, l) ==
  FoldLeft(LAMBDA acc, n : acc + DigitValue[s[k + n - 1]] * (IF n = 1 THEN 10 ELSE 1),
           0, [n \in 1..(l - k) |-> n])

NolRadixes == {".", ","}

strtod_nol_or_err(s) ==
  LET i0 == SkipFrom(s, 1, Spaces)
      i1 == IF i0 <= Len(s) /\ IsSign(s[i0]) THEN i0 + 1 ELSE i0
      i2 == SkipFrom(s, i1, Digits)
      int == SignOf(s, i0) * NolIntPart(s, i1, i2)
      i3 == SkipFrom(s, i2 + 1, Digits)
  IN  CASE Len(s) = 0                      -> [ok |-> FALSE, val |-> 0]
        [] i2 = Len(s) + 1                 -> [ok |-> TRUE, val |-> int]
        [] s[i2] \notin NolRadixes         -> [ok |-> FALSE, val |-> 0]
        [] i3 = Len(s) + 1                 ->
             [ok |-> TRUE, val |-> int + SignOf(s, i0) * NolFracPart(s, i2 + 1, i3)]
        [] OTHER                           -> [ok |-> FALSE, val |-> 0]
=============================================================================
