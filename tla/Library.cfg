CONSTANTS
  Srcs <- MCSrcs
  Cmds <- MCCmds
  Bufsizes <- MCBufsizes
  INT_MAX = 2147483647
  Codesets = {"UTF-8", "ANSI_X3.4-1968"}
  MaxCalls = 1
  Strings <- MCStrings
  Radixes = {".", ","}
  OsReleases <- MCOsReleases
  NoFile = NoFile
  NoLine = NoLine
  StaleErrnos = {0, 2}
SPECIFICATION Spec
INVARIANTS
  EscapeStrLength
  EscapeCommandFits
  AsciiLocaleOutputPrintable
  WellFormedTextPreserved
  StrtolOnlyWholeIntegers
  
  VersionMajorMinorExact
  CloseStdoutReportsLostOutput
