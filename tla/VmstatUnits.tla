---------------------------- MODULE VmstatUnits ----------------------------
(***************************************************************************)
(* The display units of vmstat (-S) and unitConvert() (vmstat.c), shared   *)
(* by every mode that shows a memory quantity: the summary (VmstatTables)  *)
(* and the si/so columns of the periodic report (VmstatLoop).              *)
(***************************************************************************)
EXTENDS Integers

\* -S b|B|k|K|m|M: UNIT_B, UNIT_k, UNIT_K, UNIT_m, UNIT_M
UnitOf == [Sb |-> 1, SB |-> 1, Sk |-> 1000, SK |-> 1024, Sm |-> 1000000, SM |-> 1048576]

(***************************************************************************)
(* unitConvert's single-precision arithmetic. A float is m * 2^e with a    *)
(* 24-bit significand; each operation rounds to nearest, ties to even.     *)
(***************************************************************************)
\* Long division of (m, r) by d until m holds 24 bits.
RECURSIVE LongDiv(_, _, _, _)
LongDiv(m, r, e, d) ==
  IF m >= 2^23 THEN [m |-> m, r |-> r, d |-> d, e |-> e]
  ELSE LongDiv(2 * m + (IF 2 * r >= d THEN 1 ELSE 0),
               IF 2 * r >= d THEN 2 * r - d ELSE 2 * r, e - 1, d)

\* The float nearest to n / d (n >= 0, d > 0).
ToFloat(n, d) ==
  LET q == n \div d
      k == CHOOSE k \in 0..7 : q \div 2^k < 2^24
      x == LongDiv(q \div 2^k, (q % 2^k) * d + (n % d), k, d * 2^k)
      up == 2 * x.r > x.d \/ (2 * x.r = x.d /\ (x.m % 2) = 1)
  IN  IF n = 0 THEN [m |-> 0, e |-> 0]
      ELSE [m |-> x.m + (IF up THEN 1 ELSE 0), e |-> x.e]

\* (unsigned long) of f * 2^s: the integer part (0 below 1, as m <= 2^24).
Trunc(f, s) ==
  CASE f.e + s >= 0  -> f.m * 2^(f.e + s)
    [] f.e + s < -24 -> 0
    [] OTHER         -> f.m \div 2^(-(f.e + s))

\* Fault: the float cast dropped, so size / dataUnit divides integers.
unitConvertIntDiv(size, unit, modes) ==
  (size \div unit) * (IF modes = {"SLABSTAT"} THEN 1 ELSE 1024)

\* cvSize = (float)size / dataUnit * ((statMode == SLABSTAT) ? 1 : 1024)
unitConvert(size, unit, modes) ==
  LET cv == ToFloat(Trunc(ToFloat(size, 1), 0), unit)
  IN  Trunc(cv, IF modes = {"SLABSTAT"} THEN 0 ELSE 10)

=============================================================================
