CONSTANTS
  None = None
  MaxIter = 3
  OptSeqs <- MCOptSeqs
  Delays <- MCDelays
  Counts <- MCCounts
  TermRows <- MCTermRows
  DiskReaps <- MCDiskReaps
  SlabReaps <- MCSlabReaps
  MemSizes <- MCMemSizes
SPECIFICATION Spec
INVARIANTS
  DiskHeaderCadence
