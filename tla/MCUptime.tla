------------------------------ MODULE MCUptime ------------------------------
(***************************************************************************)
(* Instantiation of Uptime for TLC.                                        *)
(***************************************************************************)
EXTENDS Uptime

\* Uptimes at and around every unit boundary, once and twice the unit, plus
\* a minute or an hour more (where a remainder is exactly a unit), and the
\* first minute.
MCSecs ==
  {0, 59, 60, 61, 119, 120}
    \cup {k * unit + d : k \in {1, 2},
                         unit \in {Hour, Day, Week, Year, Decade},
                         d \in {-1, 0, 60, 3600}}

\* An uninitialised int that happens to be 0 (a zeroed stack slot).
ZeroedHours == {0}

\* Values an uninitialised int can hold: 0, a small stale count, negative.
StaleHours == {0, 5, -1}

\* /proc/loadavg: three load averages, the running/total field, the last
\* pid. Two contents whose av5 and av15 differ, so a mix-up shows.
MCLoadTexts == {<<1, 1, 1, "procs", "pid">>, <<1, 2, 3, "procs", "pid">>}

\* pid_max as the kernel writes it ("32768\n", "4194304\n"), or missing.
MCPidMaxTexts == {None, [chars |-> 5, nl |-> TRUE], [chars |-> 7, nl |-> TRUE]}

\* sysconf failing (-1) or answering.
MCSysconfHz == {-1, 100}
MCSysconfCpus == {-1, 4}
=============================================================================
