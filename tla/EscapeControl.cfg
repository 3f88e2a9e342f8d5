CONSTANTS
  Srcs <- MCSrcs
  Cmds <- MCCmds
  Bufsizes <- MCBufsizes
  INT_MAX = 2147483647
  Codesets = {"UTF-8", "ANSI_X3.4-1968"}
  MaxCalls = 1
SPECIFICATION Spec
INVARIANT
  NoControlReachesTerminal
