---------------------------- MODULE VmstatModes ----------------------------
(***************************************************************************)
(* What the specification promises of vmstat's modes (spec 4.5, 4.6): a    *)
(* mode is selected once at startup and never changes; a periodic mode     *)
(* takes at most count samples and ends normally only after exactly count; *)
(* a single-shot mode ends after its one printout; a run without a mode    *)
(* (help, version, a refused command line) only ends; any run may end on a *)
(* configuration error or a fatal failure.                                 *)
(***************************************************************************)
EXTENDS Naturals

CONSTANTS
  Modes,        \* the renderers
  Periodic,     \* the ones with a sample loop
  NoMode

VARIABLES
  amode,        \* the selected renderer, or NoMode
  count,        \* its sample count
  samples,      \* samples taken so far
  ended,        \* the process has ended
  failed        \* it ended on an error

avars == <<amode, count, samples, ended, failed>>

AInit ==
  /\ amode = NoMode
  /\ count \in Nat
  /\ samples = 0
  /\ ended = FALSE
  /\ failed = FALSE

\* Startup selects one mode and its count.
Select ==
  /\ ~ended /\ amode = NoMode /\ samples = 0
  /\ amode' \in Modes
  /\ count' \in Nat
  /\ UNCHANGED <<samples, ended, failed>>

\* One sample of a periodic mode, while the count allows it.
Sample ==
  /\ ~ended /\ amode \in Periodic
  /\ samples < count
  /\ samples' = samples + 1
  /\ UNCHANGED <<amode, count, ended, failed>>

\* A normal end: a periodic mode after count samples, any other mode (or no
\* mode) at once.
Finish ==
  /\ ~ended
  /\ amode \in Periodic => samples = count
  /\ ended' = TRUE
  /\ UNCHANGED <<amode, count, samples, failed>>

\* A configuration error or fatal failure ends the run at any point.
Fail ==
  /\ ~ended
  /\ ended' = TRUE /\ failed' = TRUE
  /\ UNCHANGED <<amode, count, samples>>

ANext == Select \/ Sample \/ Finish \/ Fail

ASpec == AInit /\ [][ANext]_avars
=============================================================================
