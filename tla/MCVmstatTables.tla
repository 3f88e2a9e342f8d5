--------------------------- MODULE MCVmstatTables ---------------------------
EXTENDS VmstatTables

\* Command lines: each mode alone, with -n, combined, and the early exits.
MCOptSeqs ==
  { << >>, <<"d">>, <<"m">>, <<"p">>, <<"D">>, <<"s">>,
    <<"n", "d">>, <<"n", "m">>, <<"p", "n">>, <<"Sk", "d">>,
    <<"d", "m">>, <<"d", "f">>, <<"V">>, <<"h">>, <<"Sbad">>, <<"x">>,
    <<"f">>, <<"Sk", "s">>, <<"SM", "s">>, <<"Sm", "s">>, <<"SB", "s">> }

\* Delay absent, 1, 0 (refused) or not a number; count absent, 0, 1, 2,
\* negative (wraps) or with junk after it (refused).
MCDelays == {None, <<"1">>, <<"0">>, <<"1", "z">>}
MCCounts == {None, <<"0">>, <<"1">>, <<"2">>, <<"-", "1">>, <<"2", "z">>}

\* ioctl failing (24 rows, height 21), 2 rows (height 22), 4 and 5 rows
\* (heights 1 and 2).
MCTermRows == {0, 2, 4, 5}

DiskRowValues == [type : {"disk", "part"}, reads : {0, 1}]
MCDiskReaps == UNION {[1..n -> DiskRowValues] : n \in 0..3}

\* meminfo values: 0 (no swap), small, around 1.5 GB, and above 2^24 kB
\* where the float cast rounds. Bytes (UNIT_B) are checked below 2 GiB,
\* the largest byte count TLC's integers hold.
MCMemSizes ==
  [u \in {1, 1000, 1024, 1000000, 1048576} |->
     IF u = 1 THEN {0, 3, 2097151} ELSE {0, 1, 1500000, 16777219, 33554431}]

MCSlabReaps == {[k \in 1..n |-> [type |-> "cache", reads |-> 0]] : n \in 0..3}
=============================================================================
