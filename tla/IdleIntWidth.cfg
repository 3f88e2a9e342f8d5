\* idle_int_width: an idle delta that does not fit in an int.
CONSTANTS
  TickDeltas <- CTTickDeltas
  IdleDeltas <- IWIdleDeltas
  GuestSkew = 1
  PgIncs = {0}
  PgStarts = {0}
  SwapIncs = {0}
  SwapStarts = {0}
  KbPerPage = 4
  DataUnits = {1024}
  Hz = 100
  Delays = {1}
  Counts = {3}
  TermRows = {0}
  YFlags = {FALSE}
  NFlags = {TRUE}
  IntW = 3
  UnsignedW = 16
  ULongW = 4
  MaxIter = 4
  None = None
SPECIFICATION Spec
INVARIANT
  IdleDebtConserved
