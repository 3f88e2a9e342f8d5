CONSTANTS
  Secs <- MCSecs
  UninitHours <- ZeroedHours
  None = None
  HZ = None
  LoadTexts <- MCLoadTexts
  PidMaxTexts <- MCPidMaxTexts
  SysconfHz <- MCSysconfHz
  SysconfCpus <- MCSysconfCpus
SPECIFICATION Spec
INVARIANTS
  LongFormatExact
  ShortFormatWithinTwoMinutes
  LoadShownIsKernels
PROPERTY
  ReadsWholeFile
