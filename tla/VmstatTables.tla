---------------------------- MODULE VmstatTables ----------------------------
(***************************************************************************)
(* vmstat.c: the option loop and mode dispatch of vmstat(), and the table  *)
(* modes it dispatches to: diskformat (-d), slabformat (-m),               *)
(* diskpartition_format (-p), disksum_format (-D). The default mode        *)
(* (new_format) is VmstatLoop; -s and -f only print and end here.          *)
(*                                                                         *)
(* Each sample of -d and -m re-enumerates the rows ("reap"): a disk mode   *)
(* row is a disk or a partition, and only disks are printed. A row is      *)
(* abstracted to its type and its read count; a slab row to nothing, as    *)
(* every slab row is printed. The inner loop over the rows is one step per *)
(* row, so the header cadence is visible between rows.                     *)
(***************************************************************************)
EXTENDS Integers, Sequences, FiniteSets, SequencesExt, VmstatUnits

CONSTANTS
  OptSeqs,      \* option letters in argv order, as getopt returns them
  Delays,       \* the delay argument string, or None when absent
  Counts,       \* the count argument string, or None when absent
  TermRows,     \* ws_row TIOCGWINSZ reports (0: ioctl failed)
  DiskReaps,    \* the rows procps_diskstats_reap can return in a sample
  SlabReaps,    \* the caches procps_slabinfo_reap can return in a sample
  MaxIter,      \* bound on samples of an infinite report
  MemSizes,     \* meminfo values (kB) sum_format can read, by display unit
  None

VARIABLES
  phase,        \* where the program is (see Final and the actions)
  mode,         \* the mode the switch (statMode) dispatched to
  opts,         \* option letters getopt has still to return
  statMode,     \* the mode bits set so far, as a set
  moreheaders,
  height,
  num_updates,
  infinite_updates,
  i,            \* sample index of the running mode
  reap,         \* the rows of the current sample (<<>> between samples)
  j,            \* row index in the current sample (0-based)
  headers,      \* headers printed
  sinceHeader,  \* rows printed since the last header (None: no header yet)
  rows,         \* rows printed
  disksSeen,    \* disk rows the reaps returned (what -d must print)
  summary,      \* disksum_format's totals, or sum_format's memory figure
  dataUnit,     \* the -S unit's divisor
  exitStatus    \* the process's exit status (None while it runs)

vars == <<phase, mode, opts, statMode, moreheaders, height, num_updates,
          infinite_updates, i, reap, j, headers, sinceHeader, rows,
          disksSeen, summary, dataUnit, exitStatus>>

ModeBit == [d |-> "DISKSTAT", s |-> "VMSUMSTAT", m |-> "SLABSTAT",
            p |-> "PARTITIONSTAT", D |-> "DISKSUMSTAT"]

U == INSTANCE Utils WITH Strings <- {}, Radixes <- {}, OsReleases <- {},
       NoFile <- None, NoLine <- None, StaleErrnos <- {}, MaxCalls <- 0,
       last <- None, calls <- 0

(***************************************************************************)
(* Operators translating the code                                          *)
(***************************************************************************)

\* Fault: a short terminal's height is not replaced by 22.
HeightNoFloor(r) == IF r > 0 THEN r - 3 ELSE 21

\* winhi: ws_row when TIOCGWINSZ succeeds with a positive row count, else 24.
winhi(r) == IF r > 0 THEN r ELSE 24

\* if (moreheaders) { wheight = winhi() - 3; height = wheight > 0 ? wheight : 22; }
Height(r) == IF winhi(r) - 3 > 0 THEN winhi(r) - 3 ELSE 22

\* switch (statMode): one mode bit selects its mode; none is new_format;
\* any combination falls to default: usage(stderr).
Dispatch(modes) ==
  CASE modes = {}                 -> "vm"
    [] modes = {"VMSUMSTAT"}      -> "sum"
    [] modes = {"DISKSTAT"}       -> "disk"
    [] modes = {"PARTITIONSTAT"}  -> "part"
    [] modes = {"SLABSTAT"}       -> "slab"
    [] modes = {"DISKSUMSTAT"}    -> "disksum"
    [] OTHER                      -> "usage"

\* Fault: the header printed once when headers are NOT suppressed.
OneHeaderInverted(more) == more

\* if (!moreheaders) diskheader();   (and slabheader())
OneHeader(more) == ~more

\* Fault: the header test counts from 1.
HeaderDueFromOne(jj, h) == (jj + 1) % h = 0

\* if (moreheaders && ((j % height) == 0))
HeaderDue(jj, h) == jj % h = 0

\* if (diskVAL(disk_TYPE, s_int) != DISKSTATS_TYPE_DISK) continue;
IsDisk(row) == row.type = "disk"

\* Fault: a partition is counted but the loop falls through to the sums.
DisksumAddNoContinue(acc, row) ==
  IF row.type = "disk" THEN [acc EXCEPT !.disks = @ + 1, !.reads = @ + row.reads]
  ELSE [acc EXCEPT !.parts = @ + 1, !.reads = @ + row.reads]

\* One pass of disksum_format's loop: a partition is counted and skipped
\* (continue); a disk is counted and its counters added.
DisksumAdd(acc, row) ==
  IF row.type = "disk" THEN [acc EXCEPT !.disks = @ + 1, !.reads = @ + row.reads]
  ELSE [acc EXCEPT !.parts = @ + 1]

\* disksum_format's totals over one reap.
Disksum(r) ==
  FoldLeft(DisksumAdd, [disks |-> 0, parts |-> 0, reads |-> 0], r)

SN == INSTANCE StrToNum

\* num_updates = strtol_or_err(...): the long is stored in an unsigned long,
\* so a negative count is 2^64 less its size. No bounded behaviour reaches
\* such a count, and MaxIter stands for it.
ULongCount(v) == IF v < 0 THEN MaxIter ELSE v

\* Fault: the loop runs while i <= num_updates.
MoreSamplesOffByOne == (infinite_updates = 1 \/ i <= num_updates) /\ i < MaxIter

\* The loop condition of every periodic mode.
MoreSamples == (infinite_updates = 1 \/ i < num_updates) /\ i < MaxIter

\* Where vmstat() has returned or exit() been called; "handed" is new_format,
\* which VmstatLoop models.
Final == {"done", "usage", "help", "failed", "version", "handed"}

\* The status exit() or return gives: usage(stderr), xerrx and
\* strtol_or_err's error() exit with EXIT_FAILURE; usage(stdout) (-h), -V,
\* fork_format's exit(0) and the end of a mode with 0.
ExitCode(p) == IF p \in {"usage", "failed"} THEN 1 ELSE 0

\* The errno values left over at exit besides the error of a failed write to
\* stdout or stderr (Exit adds those): none, or ENOENT from a failed open of
\* a locale or message catalog.
ExitErrnos == {0, U!ENOENT}

-----------------------------------------------------------------------------
Init ==
  /\ opts \in OptSeqs
  /\ phase = "opts"
  /\ mode = None
  /\ statMode = {}
  /\ moreheaders = TRUE
  /\ height = 0
  /\ num_updates = 1
  /\ infinite_updates = 0
  /\ i = 0
  /\ reap = << >>
  /\ j = 0
  /\ headers = 0
  /\ sinceHeader = None
  /\ rows = 0
  /\ disksSeen = 0
  /\ summary = None
  /\ dataUnit = UnitOf.SK
  /\ exitStatus = None

Counters == <<i, reap, j, headers, sinceHeader, rows, disksSeen, summary,
             dataUnit, exitStatus>>

\* One getopt_long result and its case of the switch.
GetOpt ==
  /\ phase = "opts"
  /\ opts # << >>
  /\ opts' = Tail(opts)
  /\ LET c == Head(opts) IN
     /\ dataUnit' = IF c \in DOMAIN UnitOf THEN UnitOf[c] ELSE dataUnit
     /\ mode' = IF c = "f" THEN "forks" ELSE mode
     /\ CASE c \in DOMAIN ModeBit ->
               statMode' = statMode \cup {ModeBit[c]} /\ UNCHANGED <<phase, moreheaders>>
          [] c = "n" -> moreheaders' = FALSE /\ UNCHANGED <<phase, statMode>>
          [] c \in DOMAIN UnitOf -> UNCHANGED <<phase, statMode, moreheaders>>
          [] c = "V" -> phase' = "version" /\ UNCHANGED <<statMode, moreheaders>>
          [] c = "h" -> phase' = "help" /\ UNCHANGED <<statMode, moreheaders>>
          [] c = "f" -> phase' = "forks" /\ UNCHANGED <<statMode, moreheaders>>
          [] c = "Sbad" -> phase' = "failed" /\ UNCHANGED <<statMode, moreheaders>>
          [] OTHER -> phase' = "usage" /\ UNCHANGED <<statMode, moreheaders>>
  /\ UNCHANGED <<height, num_updates, infinite_updates, i, reap, j, headers,
                 sinceHeader, rows, disksSeen, summary, exitStatus>>

\* getopt returns -1: delay and count through strtol_or_err, winhi, then the
\* switch on statMode. strtol_or_err's error() and "delay must be positive
\* integer" end the program; the UINT_MAX test cannot fail for the short
\* arguments checked.
ParseArgs ==
  /\ phase = "opts"
  /\ opts = << >>
  /\ \E d \in Delays, c \in Counts, r \in TermRows :
       LET dl == IF d = None THEN None ELSE SN!strtol_or_err(d)
           ct == IF c = None THEN None ELSE SN!strtol_or_err(c)
       IN  /\ d = None => c = None
           /\ IF \/ dl # None /\ (~dl.ok \/ dl.val < 1)
                 \/ ct # None /\ ~ct.ok
              THEN /\ phase' = "failed"
                   /\ UNCHANGED <<mode, height, num_updates, infinite_updates>>
              ELSE /\ infinite_updates' = IF d # None /\ c = None THEN 1 ELSE 0
                   /\ num_updates' = IF c = None THEN 1 ELSE ULongCount(ct.val)
                   /\ height' = IF moreheaders THEN Height(r) ELSE height
                   /\ mode' = Dispatch(statMode)
                   /\ phase' = CASE mode' = "vm"             -> "handed"
                                [] mode' = "usage"          -> "usage"
                                [] OTHER                    -> "start"
  /\ UNCHANGED <<opts, statMode, moreheaders, Counters>>

\* A header line starts a new block of rows.
Header == /\ headers' = headers + 1
          /\ sinceHeader' = 0

\* A header line, then the first row under it.
HeaderRow == /\ headers' = headers + 1
             /\ sinceHeader' = 1
             /\ rows' = rows + 1

\* A row is printed under the current header.
Row == /\ rows' = rows + 1
       /\ UNCHANGED headers
       /\ sinceHeader' = IF sinceHeader = None THEN None ELSE sinceHeader + 1

\* The mode's *_new (and for -p the device lookup) fails: xerrx.
StartFails ==
  /\ phase = "start"
  /\ phase' = "failed"
  /\ UNCHANGED <<mode, opts, statMode, moreheaders, height, num_updates,
                 infinite_updates, Counters>>

\* diskformat and slabformat before their loop: one header for -n.
TableStart ==
  /\ phase = "start"
  /\ mode \in {"disk", "slab"}
  /\ phase' = "sample"
  /\ IF OneHeader(moreheaders) THEN Header ELSE UNCHANGED <<headers, sinceHeader>>
  /\ UNCHANGED <<mode, opts, statMode, moreheaders, height, num_updates,
                 infinite_updates, i, reap, j, rows, disksSeen, summary,
                 dataUnit, exitStatus>>

\* The head of the sample loop: reap (and for slabs sort), or leave the loop.
TableSample ==
  /\ phase = "sample"
  /\ mode \in {"disk", "slab"}
  /\ IF MoreSamples
     THEN \/ phase' = "failed" /\ UNCHANGED <<reap, disksSeen>>
          \/ /\ mode = "disk"
             /\ \E r \in DiskReaps :
                  /\ reap' = r
                  /\ disksSeen' = disksSeen + Len(SelectSeq(r, LAMBDA e : e.type = "disk"))
             /\ phase' = "rows"
          \/ /\ mode = "slab"
             /\ \E r \in SlabReaps : reap' = r
             /\ phase' = "rows"
             /\ UNCHANGED disksSeen
     ELSE phase' = "done" /\ UNCHANGED <<reap, disksSeen>>
  /\ j' = 0
  /\ UNCHANGED <<mode, opts, statMode, moreheaders, height, num_updates,
                 infinite_updates, i, headers, sinceHeader, rows, summary,
                 dataUnit, exitStatus>>

\* diskformat's inner loop body for reap->stacks[j].
DiskRow ==
  /\ phase = "rows"
  /\ mode = "disk"
  /\ j < Len(reap)
  /\ j' = j + 1
  /\ IF ~IsDisk(reap[j + 1])
     THEN UNCHANGED <<headers, sinceHeader, rows>>
     ELSE /\ IF moreheaders /\ HeaderDue(j, height)
             THEN HeaderRow
             ELSE Row
  /\ UNCHANGED <<phase, mode, opts, statMode, moreheaders, height, num_updates,
                 infinite_updates, i, reap, disksSeen, summary,
                 dataUnit, exitStatus>>

\* slabformat's inner loop body for reaped->stacks[j].
SlabRow ==
  /\ phase = "rows"
  /\ mode = "slab"
  /\ j < Len(reap)
  /\ j' = j + 1
  /\ IF moreheaders /\ HeaderDue(j, height)
     THEN HeaderRow
     ELSE Row
  /\ UNCHANGED <<phase, mode, opts, statMode, moreheaders, height, num_updates,
                 infinite_updates, i, reap, disksSeen, summary,
                 dataUnit, exitStatus>>

\* Fault: the loop's i++ is lost.
SampleEndNoIncrement ==
  /\ phase = "rows"
  /\ j = Len(reap)
  /\ phase' = "sample"
  /\ reap' = << >>
  /\ j' = 0
  /\ UNCHANGED <<mode, opts, statMode, moreheaders, height, num_updates,
                 infinite_updates, i, headers, sinceHeader, rows, disksSeen, summary,
                 dataUnit, exitStatus>>

\* The inner loop ends; sleep, i++.
SampleEnd ==
  /\ phase = "rows"
  /\ j = Len(reap)
  /\ phase' = "sample"
  /\ i' = i + 1
  /\ reap' = << >>
  /\ j' = 0
  /\ UNCHANGED <<mode, opts, statMode, moreheaders, height, num_updates,
                 infinite_updates, headers, sinceHeader, rows, disksSeen, summary,
                 dataUnit, exitStatus>>

\* diskpartition_format: the device is found, its header printed once.
PartStart ==
  /\ phase = "start"
  /\ mode = "part"
  /\ phase' = "sample"
  /\ Header
  /\ UNCHANGED <<mode, opts, statMode, moreheaders, height, num_updates,
                 infinite_updates, i, reap, j, rows, disksSeen, summary,
                 dataUnit, exitStatus>>

\* One pass of diskpartition_format's loop: select (may fail), one row.
PartSample ==
  /\ phase = "sample"
  /\ mode = "part"
  /\ IF MoreSamples
     THEN \/ phase' = "failed" /\ UNCHANGED <<i, rows, sinceHeader, headers>>
          \/ Row /\ i' = i + 1 /\ UNCHANGED phase
     ELSE phase' = "done" /\ UNCHANGED <<i, rows, sinceHeader, headers>>
  /\ UNCHANGED <<mode, opts, statMode, moreheaders, height, num_updates,
                 infinite_updates, reap, j, disksSeen, summary,
                 dataUnit, exitStatus>>

\* disksum_format: one reap (may fail), the totals printed.
DisksumRun ==
  /\ phase = "start"
  /\ mode = "disksum"
  /\ \/ phase' = "failed" /\ UNCHANGED <<reap, disksSeen, summary>>
     \/ \E r \in DiskReaps :
          /\ reap' = r
          /\ disksSeen' = Len(SelectSeq(r, LAMBDA e : e.type = "disk"))
          /\ summary' = Disksum(r)
          /\ phase' = "done"
  /\ UNCHANGED <<mode, opts, statMode, moreheaders, height, num_updates,
                 infinite_updates, i, j, headers, sinceHeader, rows,
                 dataUnit, exitStatus>>

\* sum_format: the stat, vmstat and meminfo *_new and select calls (each may
\* fail: xerrx), then the figures. The ten memory figures go through the
\* same unitConvert; one value stands for them.
SumRun ==
  /\ phase = "start"
  /\ mode = "sum"
  /\ \/ phase' = "failed" /\ UNCHANGED summary
     \/ /\ \E size \in MemSizes[dataUnit] :
             summary' = [size |-> size, unit |-> dataUnit,
                         shown |-> unitConvert(size, dataUnit, statMode)]
        /\ phase' = "done"
  /\ UNCHANGED <<mode, opts, statMode, moreheaders, height, num_updates,
                 infinite_updates, i, reap, j, headers, sinceHeader, rows,
                 disksSeen, dataUnit, exitStatus>>

\* -f: fork_format (procps_stat_new may fail: xerrx), then exit(0).
ForkRun ==
  /\ phase = "forks"
  /\ phase' \in {"failed", "done"}
  /\ UNCHANGED <<mode, opts, statMode, moreheaders, height, num_updates,
                 infinite_updates, Counters>>

\* Output lost on stdout for a reason other than a closed pipe (not code:
\* recorded for the properties).
\* exit() (or the return from main) runs the atexit handler close_stdout,
\* which may replace the status by EXIT_FAILURE.
Exit ==
  /\ phase \in Final \ {"handed"}
  /\ exitStatus = None
  /\ \E out, err \in U!Streams : \E e \in ExitErrnos \cup {out.werr, err.werr} :
       /\ exitStatus' = IF U!close_stdout(out, err, e).status = 1 THEN 1
                        ELSE ExitCode(phase)
  /\ UNCHANGED <<phase, mode, opts, statMode, moreheaders, height, num_updates,
                 infinite_updates, i, reap, j, headers, sinceHeader, rows,
                 disksSeen, summary, dataUnit>>

\* The process is gone (or, "handed", runs new_format).
Terminated ==
  /\ exitStatus # None \/ phase = "handed"
  /\ UNCHANGED vars

Next ==
  \/ GetOpt \/ ParseArgs \/ StartFails \/ TableStart \/ TableSample
  \/ DiskRow \/ SlabRow \/ SampleEnd \/ PartStart \/ PartSample
  \/ DisksumRun \/ SumRun \/ ForkRun \/ Exit \/ Terminated

\* vmstat is one thread; its only wait is sleep(), which returns.
Spec == Init /\ [][Next]_vars /\ WF_vars(Next)

-----------------------------------------------------------------------------
(***************************************************************************)
(* Properties                                                              *)
(***************************************************************************)

TypeOK ==
  /\ phase \in Final \cup {"opts", "forks", "start", "sample", "rows"}
  /\ statMode \subseteq {ModeBit[c] : c \in DOMAIN ModeBit}
  /\ height \in Nat /\ i \in Nat /\ j \in 0..Len(reap)
  /\ headers \in Nat /\ rows \in Nat /\ sinceHeader \in Nat \cup {None}
  /\ dataUnit \in {UnitOf[c] : c \in DOMAIN UnitOf}
  /\ exitStatus \in {None, 0, 1}

\* A table mode's header comes back often enough: once rows are printed a
\* header has been printed, and (unless -n) never more than height rows
\* follow one header. This is the j % height test of diskformat and
\* slabformat (vmstat.c:704, 781).
HeaderCadence(m) ==
  mode = m /\ rows > 0 =>
    /\ sinceHeader # None
    /\ moreheaders => sinceHeader <= height

SlabHeaderCadence == HeaderCadence("slab")

DiskHeaderCadence == HeaderCadence("disk")

\* With -n, diskformat, slabformat and diskpartition_format print exactly
\* one header, before the first row (the !moreheaders branch, or the
\* partition header).
OneHeaderWithN ==
  mode \in {"disk", "slab", "part"} /\ ~moreheaders /\ phase \in {"sample", "rows", "done"} =>
    headers = 1

\* disksum_format counts every entry as a disk or a partition, and its read
\* total is the sum over the disks alone.
DisksumTotals ==
  mode = "disksum" /\ summary # None =>
    /\ summary.disks = disksSeen
    /\ summary.disks + summary.parts = Len(reap)
    /\ summary.reads = FoldSeq(LAMBDA row, acc : acc + row.reads, 0,
                                SelectSeq(reap, LAMBDA e : e.type = "disk"))

\* A table, summary or -f run with a finite count ends and exits: every
\* sample loop of diskformat, slabformat and diskpartition_format counts i
\* up to num_updates, and nothing else waits.
FiniteRunsExit ==
  phase \in {"start", "forks"} /\ infinite_updates = 0 /\ num_updates < MaxIter
    ~> exitStatus # None

\* sum_format's memory figures (unitConvert in single precision) are the
\* meminfo value in the -S unit, floor(size * 1024 / dataUnit), to within
\* the two float roundings and the truncation: 2^-22 of the value, plus 1.
SumMemoryWithinRounding ==
  mode = "sum" /\ summary # None =>
    LET u == summary.unit
        exact == 1024 * (summary.size \div u) + (1024 * (summary.size % u)) \div u
        slack == exact \div 2^22 + 1
    IN  summary.shown - exact \in -slack..slack

\* The run refines the specification's mode machine (VmstatModes): the
\* dispatched mode never changes, a periodic mode (diskformat, slabformat,
\* diskpartition_format) never takes more than count samples and returns
\* only after exactly count (an infinite report and a wrapped count stand at
\* MaxIter), -s, -D and -f end after their printout, and only usage() and
\* the xerrx/error() exits end the run as failed.
Abs == INSTANCE VmstatModes WITH
         Modes <- {"vm", "sum", "disk", "part", "slab", "disksum", "forks"},
         Periodic <- {"vm", "disk", "part", "slab"},
         NoMode <- None,
         amode <- IF mode = "usage" THEN None ELSE mode,
         count <- IF mode \in {"vm", "disk", "part", "slab"}
                  THEN (IF infinite_updates = 1 THEN MaxIter ELSE num_updates) ELSE 0,
         samples <- i,
         ended <- phase \in Final \ {"handed"},
         failed <- phase \in {"usage", "failed"}

ModesRefined == Abs!ASpec
=============================================================================
