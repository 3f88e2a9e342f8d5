---------------------------- MODULE MCVmstatLoop ----------------------------
(* Instances of VmstatLoop for TLC.                                        *)
EXTENDS VmstatLoop

(* loop_control: every shape of the command line, -y and -n, terminals    *)
(* of 2, 4 and 5 rows and a failed ioctl (heights 22, 1, 2 and 21),     *)
(* delays 0 (rejected), 1 and 2,                                          *)
(* counts 1 and 2; a quiet kernel whose pgpgin counter starts just below  *)
(* its wrap.                                                              *)
LCDelays   == {0, 1, 2}
LCCounts   == {1, 2}
LCTermRows == {0, 2, 4, 5}
LCPgIncs   == 0..2
PgStartsNearWrap == {0, 2^4 - 1}

(* The swap-in counter of loop_control starts at the same two values and  *)
(* grows by up to three pages (kb_per_page 4) an interval; the -S units    *)
(* are k, K and M (the byte unit would overflow the 4-bit unsigned long   *)
(* that loop_control uses to make the counters wrap).                      *)
LCSwapIncs  == 0..3
LCDataUnits == {1000, 1024, 1048576}

(* cpu_ticks: "vmstat 1 3" without -y or -n, and every tick record the    *)
(* kernel can hand over: ticks 0..1 per category, idle running backwards  *)
(* by up to two, guest one tick ahead of user.                          *)
CTTickDeltas == 0..1
CTIdleDeltas == -2..2

(* idle_int_width: an idle delta wider than int (IntW = 3). *)
IWIdleDeltas == {-1, 4}
=============================================================================
