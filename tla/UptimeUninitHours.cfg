CONSTANTS
  Secs <- MCSecs
  UninitHours <- StaleHours
  None = None
  HZ = None
  LoadTexts <- MCLoadTexts
  PidMaxTexts <- MCPidMaxTexts
  SysconfHz <- MCSysconfHz
  SysconfCpus <- MCSysconfCpus
SPECIFICATION Spec
INVARIANT
  ShortFormatNeverOverstates
