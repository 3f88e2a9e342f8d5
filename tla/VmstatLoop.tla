----------------------------- MODULE VmstatLoop -----------------------------
(***************************************************************************)
(* The periodic report of vmstat (vmstat.c): the positional arguments      *)
(* "delay [count]" parsed in vmstat(), then new_format(): a header, an     *)
(* optional first row of averages since boot, and a loop that sleeps,      *)
(* samples /proc/stat and /proc/vmstat again, and prints one row of        *)
(* per-interval figures.                                                   *)
(*                                                                         *)
(* Kept: every branch of the loop, the two-slot ring pgpgin[tog], the      *)
(* idle-tick "debt", the zero-interval and guest-time corrections, the     *)
(* header cadence and the exit paths (xerrx on a failed select).           *)
(* Abstracted: the kernel.  Each interval it hands the loop a record of    *)
(* tick deltas (what the stat library's STAT_TIC_DELTA_* items return) and *)
(* advances its pgpgin and pswpin counters by small amounts, modulo the   *)
(* width of an unsigned long.  The si column goes through unitConvert in  *)
(* the -S display unit (VmstatUnits).  Memory columns, so/bo (the same     *)
(* expressions as si/bi on pswpout/pgpgout), in/cs, timestamps and column  *)
(* layout are left out.                                                    *)
(***************************************************************************)
EXTENDS Integers, FiniteSets, FiniteSetsExt, Functions, TLC, VmstatUnits

CONSTANTS
  TickDeltas,   \* values of user/system/iowait/stolen ticks in one sample
  IdleDeltas,   \* values of the idle-tick delta; may be negative (kernel)
  GuestSkew,    \* guest ticks may exceed user ticks by this much (skew)
  PgIncs,       \* increases of the kernel's pgpgin counter per interval
  PgStarts,     \* values of the pgpgin counter when vmstat starts
  SwapIncs,     \* increases of the kernel's pswpin counter per interval
  SwapStarts,   \* values of the pswpin counter when vmstat starts
  KbPerPage,    \* kb_per_page: sysconf(_SC_PAGESIZE) / 1024
  DataUnits,    \* dataUnit values the -S option can have set
  Hz,           \* procps_hertz_get()
  Delays,       \* values given for the "delay" argument
  Counts,       \* values given for the "count" argument
  TermRows,     \* ws_row reported by TIOCGWINSZ (0: ioctl failed)
  YFlags,       \* whether -y is given (a subset of BOOLEAN)
  NFlags,       \* whether -n is given (a subset of BOOLEAN)
  IntW,         \* width of int
  UnsignedW,    \* width of unsigned int
  ULongW,       \* width of unsigned long (and of the kernel's counter)
  MaxIter,      \* bound on loop iterations when no count is given
  None          \* an absent argument, or no row printed yet

ASSUME TickDeltas \subseteq Nat /\ 0 \in TickDeltas
ASSUME IdleDeltas \subseteq Int /\ GuestSkew \in Nat /\ PgIncs \subseteq Nat
ASSUME SwapIncs \subseteq Nat /\ KbPerPage \in Nat \ {0}
ASSUME YFlags \subseteq BOOLEAN /\ NFlags \subseteq BOOLEAN
ASSUME Hz \in Nat \ {0} /\ MaxIter \in Nat \ {0}
ASSUME \A c \in Counts : c < MaxIter

VARIABLES
  phase,        \* "args" | "start" | "loop" | "done" | "failed"
  argv,         \* the positional arguments: [delay, count], None if absent
  yOpt,         \* -y given
  moreHeaders,  \* moreheaders (cleared by -n)
  termRows,     \* terminal height the ioctl reports
  dataUnit,     \* dataUnit (-S)
  sleepTime,    \* sleep_time
  infinite,     \* infinite_updates
  numUpdates,   \* num_updates
  height,       \* height
  i,            \* loop counter of new_format
  tog,          \* index of the current slot of pgpgin
  pgpgin,       \* pgpgin[2]: the last two readings of the counter
  kPgpgin,      \* the kernel's pgpgin counter (environment)
  pswpin,       \* pswpin[2]: the last two readings of the swap-in counter
  kPswpin,      \* the kernel's pswpin counter (environment)
  debt,         \* idle ticks owed: debt
  rows,         \* data rows printed so far
  sinceHeader,  \* data rows printed since the last header
  row,          \* the last row printed
  ticks,        \* history: the ticks the last row was computed from
  rawIdle,      \* history: sum of the idle deltas the kernel reported
  acctIdle,     \* history: sum of the idle ticks the rows accounted
  lastIncr,     \* history: increase of pgpgin behind the last row
  lastSwap      \* history: increase of pswpin behind the last row

cfgVars   == <<argv, yOpt, moreHeaders, termRows, dataUnit, sleepTime,
               infinite, numUpdates, height>>
loopVars  == <<i, tog, pgpgin, kPgpgin, pswpin, kPswpin, debt, rows,
               sinceHeader, row>>
ghostVars == <<ticks, rawIdle, acctIdle, lastIncr, lastSwap>>
vars == <<phase, cfgVars, loopVars, ghostVars>>

-----------------------------------------------------------------------------
(* C arithmetic *)

\* Conversion to a signed integer of width w (two's complement, as gcc).
Signed(x, w) == LET m == x % (2^w) IN IF m >= 2^(w-1) THEN m - 2^w ELSE m
IntOf(x)      == Signed(x, IntW)
ULong(x)      == x % (2^ULongW)
ToUnsigned(x) == x % (2^UnsignedW)
UIntMax       == 2^UnsignedW - 1
\* C division truncates toward zero.
CDiv(a, b) == IF a >= 0 THEN a \div b ELSE -((-a) \div b)

-----------------------------------------------------------------------------
(* The kernel's samples *)

TickRecords(idles) ==
  {t \in [use : TickDeltas, sys : TickDeltas, idl : idles, iow : TickDeltas,
          sto : TickDeltas, gue : 0..(Max(TickDeltas) + GuestSkew)] :
     t.gue <= t.use + GuestSkew}

Argvs ==
  {[delay |-> None, count |-> None]}
  \cup {[delay |-> d, count |-> None] : d \in Delays}
  \cup {[delay |-> d, count |-> c] : d \in Delays, c \in Counts}

CpuCols == {"us", "sy", "id", "wa", "st", "gu"}

-----------------------------------------------------------------------------
(* Plausible faults in the helpers below: each one breaks a property.      *)

WinHeightNoFallback(r) == (IF r > 0 THEN r ELSE 24) - 3
ParsedInfiniteSticky(a) == a.delay # None
SkipFirstCountMissing(n) == n
UserLessGuestUnclamped(use, gue) == use - gue
IdleAfterDebtNoReset(d, owed) ==
  LET c == IF owed # 0 THEN IntOf(IntOf(d) + owed) ELSE d
  IN  IF IntOf(c) < 0 THEN [idl |-> 0, debt |-> IntOf(c)]
                      ELSE [idl |-> c, debt |-> owed]
BlockRateSwapped(pg, t, s) == ToUnsigned(ULong(ULong(pg[1 - t] - pg[t]) + s \div 2) \div s)
HeaderDueOffByOne(n, h) == n % (h + 1) = 0
SwapRateNoPageSize(sw, t, s, u) ==
  ToUnsigned(ULong(unitConvert(ULong(sw[t] - sw[1 - t]), u, {}) + s \div 2) \div s)

-----------------------------------------------------------------------------
(* Helpers translated from new_format() and vmstat() *)

\* winhi() and the height computed from it in vmstat().
WinHeight(r) ==
  LET win == IF r > 0 THEN r ELSE 24
  IN  IF win - 3 > 0 THEN win - 3 ELSE 22

\* strtol_or_err() parsed the delay; it must be in 1..UINT_MAX.
DelayAccepted(d) == IF d = None THEN TRUE ELSE 1 <= d /\ d <= UIntMax

\* A count argument clears infinite_updates; a delay alone sets it.
ParsedInfinite(a) == IF a.count # None THEN FALSE ELSE a.delay # None

\* With -y no first row is printed, and num_updates++ makes up for it.
SkipFirstCount(n) == ULong(n + 1)

\* Div: the ticks of the interval that the percentages share.
TickSum(t) == t.use + t.sys + t.idl + t.iow + t.sto

\* Guest time is also in user time; clamp at 0 when guest is larger.
UserLessGuest(use, gue) == IF use >= gue THEN use - gue ELSE 0

\* (unsigned)((100*x + divo2) / Div)
Pct(x, div) == ToUnsigned(CDiv(100 * x + div \div 2, div))

\* The cpu columns of a row, after the zero-interval correction.
CpuShares(t) ==
  LET div0 == TickSum(t)
      div  == IF div0 = 0 THEN 1 ELSE div0
      idl  == IF div0 = 0 THEN 1 ELSE t.idl
  IN  [us |-> Pct(UserLessGuest(t.use, t.gue), div), sy |-> Pct(t.sys, div),
       id |-> Pct(idl, div), wa |-> Pct(t.iow, div), st |-> Pct(t.sto, div),
       gu |-> Pct(t.gue, div)]

\* Idle can run backwards: add the debt owed, and owe what is negative.
IdleAfterDebt(d, owed) ==
  LET c == IF owed # 0 THEN IntOf(IntOf(d) + owed) ELSE d
  IN  IF IntOf(c) < 0 THEN [idl |-> 0, debt |-> IntOf(c)]
                      ELSE [idl |-> c, debt |-> 0]

\* tog = !tog
NextTog(t) == 1 - t

\* bi: (pgpgin[tog] - pgpgin[!tog] + sleep_half) / sleep_time
BlockRate(pg, t, s) == ToUnsigned(ULong(ULong(pg[t] - pg[1 - t]) + s \div 2) \div s)

\* si: (unitConvert((pswpin[tog] - pswpin[!tog]) * kb_per_page)
\*      + sleep_half) / sleep_time; statMode is VMSTAT here.
SwapRate(sw, t, s, u) ==
  ToUnsigned(ULong(unitConvert(ULong(ULong(sw[t] - sw[1 - t]) * KbPerPage), u, {})
                   + s \div 2) \div s)

\* si of the first row: (unitConvert(PSWPIN * kb_per_page) * hz + divo2) / Div
FirstSwapRate(k, u, div) ==
  ToUnsigned(ULong(ULong(unitConvert(ULong(k * KbPerPage), u, {}) * Hz)
                   + div \div 2) \div div)

HeaderDue(n, h) == n % h = 0

-----------------------------------------------------------------------------
(* Actions *)

Init ==
  /\ phase = "args"
  /\ argv \in Argvs
  /\ yOpt \in YFlags
  /\ moreHeaders \in {~n : n \in NFlags}
  /\ termRows \in TermRows
  /\ dataUnit \in DataUnits
  /\ sleepTime = 1 /\ infinite = FALSE /\ numUpdates = 1 /\ height = 0
  /\ i = 0 /\ tog = 0 /\ pgpgin = [s \in 0..1 |-> 0]
  /\ kPgpgin \in PgStarts
  /\ pswpin = [s \in 0..1 |-> 0] /\ kPswpin \in SwapStarts
  /\ debt = 0 /\ rows = 0 /\ sinceHeader = 0 /\ row = None
  /\ ticks = None /\ rawIdle = 0 /\ acctIdle = 0 /\ lastIncr = 0
  /\ lastSwap = 0

\* vmstat(): the positional arguments, the window height, the dispatch.
ParseArgs ==
  LET d == argv.delay IN
  /\ phase = "args"
  /\ \/ /\ ~DelayAccepted(d)
        /\ phase' = "failed"
        /\ UNCHANGED <<cfgVars>>
     \/ /\ DelayAccepted(d)
        /\ sleepTime' = IF d = None THEN sleepTime ELSE d
        /\ infinite' = ParsedInfinite(argv)
        /\ numUpdates' = IF argv.count = None THEN 1 ELSE ULong(argv.count)
        /\ height' = IF moreHeaders THEN WinHeight(termRows) ELSE height
        /\ phase' = "start"
        /\ UNCHANGED <<argv, yOpt, moreHeaders, termRows, dataUnit>>
  /\ UNCHANGED <<loopVars, ghostVars>>

\* new_format() up to the main loop: header, baseline, first row or -y.
StartSampling ==
  /\ phase = "start"
  /\ \/ /\ phase' = "failed"
        /\ UNCHANGED <<cfgVars, loopVars, ghostVars>>
     \/ /\ phase' = "loop"
        /\ pgpgin' = [pgpgin EXCEPT ![tog] = kPgpgin]
        /\ pswpin' = [pswpin EXCEPT ![tog] = kPswpin]
        /\ i' = 1
        /\ IF yOpt
           THEN /\ numUpdates' = SkipFirstCount(numUpdates)
                /\ sinceHeader' = 0
                /\ UNCHANGED <<rows, row, ticks>>
           ELSE \E t \in TickRecords(IdleDeltas \cap Nat) :
                  LET div0 == TickSum(t)
                      div  == IF div0 = 0 THEN 1 ELSE div0
                  IN  /\ row' = [kind |-> "first",
                                 bi |-> ToUnsigned(ULong(ULong(kPgpgin * Hz) + div \div 2) \div div),
                                 si |-> FirstSwapRate(kPswpin, dataUnit, div)]
                                @@ CpuShares(t)
                      /\ ticks' = t
                      /\ rows' = 1
                      /\ sinceHeader' = 1
                      /\ UNCHANGED numUpdates
        /\ UNCHANGED <<argv, yOpt, moreHeaders, termRows, dataUnit, sleepTime,
                       infinite, height, tog, kPgpgin, kPswpin, debt, rawIdle,
                       acctIdle, lastIncr, lastSwap>>

\* One pass of the main loop of new_format().
LoopIteration ==
  LET t2 == NextTog(tog) IN
  /\ phase = "loop"
  /\ infinite \/ i < numUpdates
  /\ i < MaxIter
  /\ \/ /\ phase' = "failed"
        /\ UNCHANGED <<cfgVars, loopVars, ghostVars>>
     \/ \E t \in TickRecords(IdleDeltas), inc \in PgIncs, sinc \in SwapIncs :
          LET k   == ULong(kPgpgin + inc)
              pg  == [pgpgin EXCEPT ![t2] = k]
              ks  == ULong(kPswpin + sinc)
              sw  == [pswpin EXCEPT ![t2] = ks]
              ia  == IdleAfterDebt(t.idl, debt)
              cur == [t EXCEPT !.idl = ia.idl]
          IN  /\ kPgpgin' = k
              /\ pgpgin' = pg
              /\ kPswpin' = ks
              /\ pswpin' = sw
              /\ tog' = t2
              /\ debt' = ia.debt
              /\ row' = [kind |-> "delta", bi |-> BlockRate(pg, t2, sleepTime),
                         si |-> SwapRate(sw, t2, sleepTime, dataUnit)]
                        @@ CpuShares(cur)
              /\ sinceHeader' = IF moreHeaders /\ HeaderDue(i, height)
                                THEN 1 ELSE sinceHeader + 1
              /\ rows' = rows + 1
              /\ i' = i + 1
              /\ ticks' = cur
              /\ rawIdle' = rawIdle + t.idl
              /\ acctIdle' = acctIdle + ia.idl
              /\ lastIncr' = inc
              /\ lastSwap' = sinc
              /\ UNCHANGED <<phase, cfgVars>>

\* The loop condition fails: clean up and return.
LoopExit ==
  /\ phase = "loop"
  /\ ~(infinite \/ i < numUpdates)
  /\ phase' = "done"
  /\ UNCHANGED <<cfgVars, loopVars, ghostVars>>

\* The model's bound on a loop that would run forever.
BoundReached == phase = "loop" /\ infinite /\ i >= MaxIter

Stopped == phase \in {"done", "failed"}

\* The process has exited (or the bound is reached): nothing more happens.
Terminated ==
  /\ Stopped \/ BoundReached
  /\ UNCHANGED vars

Next ==
  \/ ParseArgs
  \/ StartSampling
  \/ LoopIteration
  \/ LoopExit
  \/ Terminated

\* One thread, no waiting other than sleep(): the loop always proceeds.
Spec == Init /\ [][Next]_vars /\ WF_vars(Next)

-----------------------------------------------------------------------------
(* Properties *)

TypeOK ==
  /\ phase \in {"args", "start", "loop", "done", "failed"}
  /\ argv \in Argvs
  /\ yOpt \in BOOLEAN /\ moreHeaders \in BOOLEAN
  /\ sleepTime \in Nat \ {0} /\ infinite \in BOOLEAN
  /\ numUpdates \in 0..(2^ULongW - 1)
  /\ height \in Nat /\ (moreHeaders /\ phase \in {"start", "loop", "done"} => height >= 1)
  /\ i \in 0..MaxIter /\ tog \in 0..1
  /\ pgpgin \in [0..1 -> 0..(2^ULongW - 1)]
  /\ debt \in Int
  /\ rows \in Nat /\ sinceHeader \in Nat
  /\ dataUnit \in DataUnits
  /\ pswpin \in [0..1 -> 0..(2^ULongW - 1)]
  /\ row = None \/ DOMAIN row = CpuCols \cup {"kind", "bi", "si"}

\* The idle debt only moves idle ticks between rows (vmstat.c, the "idle
\* can run backwards" block): what the rows accounted plus what is still
\* owed is exactly what the kernel reported, and the debt is never positive.
IdleDebtConserved ==
  /\ acctIdle + debt = rawIdle
  /\ debt <= 0

\* The cpu columns of every row account for the interval's ticks (Div, the
\* zero-interval correction and the guest clamp in new_format()): us..st
\* never exceed 100 beyond rounding, and when guest ticks are within user
\* ticks, us+sy+id+wa+st+gu is 100 within the rounding of six columns.
CpuColumnsAccountForAllTicks ==
  row # None =>
    /\ SumFunctionOnSet(row, CpuCols \ {"gu"}) <= 102
    /\ ticks.gue <= ticks.use =>
         SumFunctionOnSet(row, CpuCols) \in 97..103

\* The bi column of a loop row is the increase of the kernel's pgpgin
\* counter over that interval, per second, rounded half up, also when the
\* counter wraps (the two-slot ring pgpgin[tog] of new_format()).
BlockRateMatchesKernel ==
  (row # None /\ row.kind = "delta") =>
    row.bi = (lastIncr + sleepTime \div 2) \div sleepTime

\* The si column of a loop row is the swap-in of that interval, in pages
\* (kernel's pswpin counter, across a wrap), converted to bytes by
\* kb_per_page and to the -S unit by unitConvert's float division, per
\* second: within 3/2 of a display unit per second of the exact figure,
\* the truncation of the conversion and the half-up rounding of the rate.
SwapRateWithinRounding ==
  (row # None /\ row.kind = "delta") =>
    LET exact == lastSwap * KbPerPage * 1024
        q     == dataUnit * sleepTime
    IN  /\ 2 * (row.si * q - exact) <= 3 * q
        /\ 2 * (exact - row.si * q) <= 3 * q

\* A header is printed before the first row and then at least once every
\* height rows, unless -n (the i % height test of new_format()).
HeaderCadence ==
  (moreHeaders /\ phase \in {"loop", "done"}) => sinceHeader <= height

\* vmstat prints as many rows as the count argument asks for (1 when no
\* count is given), with or without -y.
RowsMatchCount ==
  phase = "done" =>
    rows = IF argv.count = None THEN 1 ELSE argv.count

\* Unless a delay is given without a count, the report ends.
Termination ==
  ~(argv.delay # None /\ argv.count = None) => <>Stopped

\* Spec section 8: the idle ticks the rows report add up to max(0, the
\* sum of the kernel's idle deltas).
IdleReportedAsSpecified ==
  acctIdle = IF rawIdle > 0 THEN rawIdle ELSE 0

=============================================================================
