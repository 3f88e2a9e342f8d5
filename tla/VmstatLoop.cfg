\* loop_control: command line, -y/-n, header cadence, row count, ring.
CONSTANTS
  TickDeltas = {0}
  IdleDeltas = {0}
  GuestSkew = 0
  PgIncs <- LCPgIncs
  PgStarts <- PgStartsNearWrap
  SwapIncs <- LCSwapIncs
  SwapStarts <- PgStartsNearWrap
  KbPerPage = 4
  DataUnits <- LCDataUnits
  Hz = 100
  Delays <- LCDelays
  Counts <- LCCounts
  TermRows <- LCTermRows
  YFlags = {FALSE, TRUE}
  NFlags = {FALSE, TRUE}
  IntW = 8
  UnsignedW = 16
  ULongW = 4
  MaxIter = 3
  None = None
SPECIFICATION Spec
INVARIANTS
  TypeOK
  BlockRateMatchesKernel
  SwapRateWithinRounding
  HeaderCadence
  RowsMatchCount
PROPERTIES
  Termination
