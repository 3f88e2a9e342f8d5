\* cpu_ticks: the cpu columns and the idle debt over every tick record.
CONSTANTS
  TickDeltas <- CTTickDeltas
  IdleDeltas <- CTIdleDeltas
  GuestSkew = 1
  PgIncs = {0}
  PgStarts = {0}
  SwapIncs = {0}
  SwapStarts = {0}
  KbPerPage = 4
  DataUnits = {1024}
  Hz = 100
  Delays = {1}
  Counts = {3}
  TermRows = {0}
  YFlags = {FALSE}
  NFlags = {TRUE}
  IntW = 8
  UnsignedW = 16
  ULongW = 4
  MaxIter = 4
  None = None
SPECIFICATION Spec
INVARIANTS
  IdleDebtConserved
  CpuColumnsAccountForAllTicks
