------------------------------ MODULE ProcFile ------------------------------
(***************************************************************************)
(* What a caller of FILE_TO_BUF relies on: a read of a /proc file hands    *)
(* back the file's whole current content, or the program ends. The kernel  *)
(* rewrites the file at any time. ProcReaders is shown to implement this   *)
(* through a refinement mapping (Uptime's ReadsWholeFile).                 *)
(***************************************************************************)
CONSTANTS Texts     \* contents the kernel can give the file

VARIABLES
  file,     \* the file's current content
  got,      \* the content the last read handed back
  ended     \* the program has exited

KernelRewrites == file' \in Texts /\ UNCHANGED <<got, ended>>

ReadAll == ~ended /\ got' = file /\ UNCHANGED <<file, ended>>

Exit == ~ended /\ ended' = TRUE /\ UNCHANGED <<file, got>>

Init == file \in Texts /\ got = << >> /\ ended = FALSE

Spec == Init /\ [][KernelRewrites \/ ReadAll \/ Exit]_<<file, got, ended>>
=============================================================================
