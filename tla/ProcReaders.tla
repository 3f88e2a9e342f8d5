----------------------------- MODULE ProcReaders -----------------------------
(***************************************************************************)
(* sysinfo.c: FILE_TO_BUF and procps_loadavg (open /proc/loadavg once,     *)
(* keep the fd in loadavg_fd, seek to 0 and read up to 8191 bytes on every *)
(* call), procps_pid_length (the length of pid_max, cached in pid_length), *)
(* procps_hertz_get and procps_cpu_count (sysconf with fallbacks).         *)
(*                                                                         *)
(* A file's content is a sequence of tokens: a number (a value %lf reads)  *)
(* or a string; the file offset counts tokens. /proc/loadavg is about 30   *)
(* bytes, so the 8191-byte cap never cuts it. The kernel rewrites both     *)
(* files at any time (load averages every 5 s, pid_max by sysctl).         *)
(***************************************************************************)
EXTENDS Integers, Sequences, SequencesExt

CONSTANTS
  LoadTexts,    \* contents /proc/loadavg can have
  PidMaxTexts,  \* /proc/sys/kernel/pid_max: None (fopen fails) or [chars, nl]
  SysconfHz,    \* values sysconf(_SC_CLK_TCK) can return
  HZ,           \* the HZ macro, None when it is not defined
  SysconfCpus,  \* values sysconf(_SC_NPROCESSORS_ONLN) can return
  None

VARIABLES
  loadfile,     \* the kernel's /proc/loadavg
  loadavg_fd,   \* -1 until the first open, then the fd open returned (3)
  offset,       \* the fd's file offset, in tokens
  buf,          \* the tokens the last read put in buf
  status,       \* "running", or "exit102" / "exit103" after _exit
  pidmax,       \* the kernel's pid_max file
  pid_length,   \* procps_pid_length's cache (0: not yet known)
  result        \* the last call: function and what it returned

prVars == <<loadfile, loadavg_fd, offset, buf, status, pidmax, pid_length, result>>

ERANGE == 34
DEFAULT_PID_LENGTH == 5
PidBufSize == 24     \* char pidbuf[24]: fgets keeps at most 23 chars

IsNumber(t) == t \in Int

(***************************************************************************)
(* FILE_TO_BUF(LOADAVG_FILE, loadavg_fd)                                   *)
(***************************************************************************)
\* Fault: the lseek is left out, the offset stays where the last read ended.
SeekPosKept(off) == off

\* lseek(fd, 0L, SEEK_SET)
SeekPos(off) == 0

\* Fault: a buffer sized for the three averages only.
ReadEndSmallBuf(f, pos) == Min({pos + 3, Len(f)})

\* read(fd, buf, sizeof buf - 1) returns the rest of the file: it is far
\* shorter than 8191 bytes.
ReadEnd(f, pos) == Len(f)

\* Open if fd is -1 (or _exit(102)), seek, read the rest of the file from the
\* offset (or _exit(103)); buf[local_n] = '\0' ends the tokens read.
FileToBuf ==
  \/ /\ loadavg_fd = -1
     /\ status' = "exit102"
     /\ UNCHANGED <<loadavg_fd, offset, buf>>
  \/ /\ loadavg_fd' = 3
     /\ LET pos == SeekPos(offset)
        IN  \/ status' = "exit103" /\ offset' = pos /\ UNCHANGED buf
            \/ /\ buf' = SubSeq(loadfile, pos + 1, ReadEnd(loadfile, pos))
               /\ offset' = ReadEnd(loadfile, pos)
               /\ UNCHANGED status

(***************************************************************************)
(* procps_loadavg: sscanf(buf, "%lf %lf %lf"), then SET_IF_DESIRED         *)
(***************************************************************************)
\* How many of the three conversions sscanf makes: the leading numbers.
Converted(b) ==
  LET k == {n \in 0..Min({3, Len(b)}) : \A m \in 1..n : IsNumber(b[m])}
  IN  Max(k)

\* Fault: av5 and av15 stored into each other's place.
LoadValuesSwapped(b) ==
  LET v(k) == IF k <= Converted(b) THEN b[k] ELSE 0
  IN  <<v(1), v(3), v(2)>>

\* avg_1, avg_5, avg_15 start at 0 and keep it when not converted.
LoadValues(b) ==
  LET v(k) == IF k <= Converted(b) THEN b[k] ELSE 0
  IN  <<v(1), v(2), v(3)>>

\* The whole call: FILE_TO_BUF, the parse, the outputs and the return value.
procps_loadavg ==
  /\ status = "running"
  /\ FileToBuf
  /\ result' = IF status' # "running" THEN result
               ELSE [fn |-> "loadavg", av |-> LoadValues(buf'),
                     ret |-> IF Converted(buf') < 3 THEN -ERANGE ELSE 0]
  /\ UNCHANGED <<loadfile, pidmax, pid_length>>

(***************************************************************************)
(* procps_pid_length, procps_hertz_get, procps_cpu_count                   *)
(***************************************************************************)
\* strlen of what fgets kept, less a trailing newline.
PidMaxLength(p) ==
  LET kept == Min({p.chars + (IF p.nl THEN 1 ELSE 0), PidBufSize - 1})
  IN  IF p.nl /\ kept = p.chars + 1 THEN kept - 1 ELSE kept

procps_pid_length ==
  /\ status = "running"
  /\ IF pid_length # 0
     THEN UNCHANGED pid_length
     ELSE pid_length' = CASE pidmax = None        -> DEFAULT_PID_LENGTH
                          [] pidmax.chars = 0 /\ ~pidmax.nl -> DEFAULT_PID_LENGTH
                          [] OTHER                -> PidMaxLength(pidmax)
  /\ result' = [fn |-> "pid_length", val |-> pid_length']
  /\ UNCHANGED <<loadfile, loadavg_fd, offset, buf, status, pidmax>>

HertzOf(sc) == IF sc > 0 THEN sc ELSE IF HZ # None THEN HZ ELSE 100

CpuCountOf(sc) == IF sc < 1 THEN 1 ELSE sc

procps_hertz_get ==
  /\ status = "running"
  /\ \E sc \in SysconfHz : result' = [fn |-> "hertz", val |-> HertzOf(sc)]
  /\ UNCHANGED <<loadfile, loadavg_fd, offset, buf, status, pidmax, pid_length>>

procps_cpu_count ==
  /\ status = "running"
  /\ \E sc \in SysconfCpus : result' = [fn |-> "cpu_count", val |-> CpuCountOf(sc)]
  /\ UNCHANGED <<loadfile, loadavg_fd, offset, buf, status, pidmax, pid_length>>

(***************************************************************************)
(* The kernel                                                              *)
(***************************************************************************)
KernelUpdatesLoadavg ==
  /\ loadfile' \in LoadTexts
  /\ UNCHANGED <<loadavg_fd, offset, buf, status, pidmax, pid_length, result>>

SysctlPidMax ==
  /\ pidmax' \in PidMaxTexts
  /\ UNCHANGED <<loadfile, loadavg_fd, offset, buf, status, pid_length, result>>

prInit ==
  /\ loadfile \in LoadTexts
  /\ loadavg_fd = -1
  /\ offset = 0
  /\ buf = << >>
  /\ status = "running"
  /\ pidmax \in PidMaxTexts
  /\ pid_length = 0
  /\ result = [fn |-> "none"]

\* The library calls a program makes other than through procps_loadavg.
OtherCalls == procps_pid_length \/ procps_hertz_get \/ procps_cpu_count

Kernel == KernelUpdatesLoadavg \/ SysctlPidMax

-----------------------------------------------------------------------------
\* FILE_TO_BUF implements ProcFile: the refinement mapping.
File == INSTANCE ProcFile WITH Texts <- LoadTexts, file <- loadfile, got <- buf,
                               ended <- status # "running"
=============================================================================
