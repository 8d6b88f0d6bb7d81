-------------------------- MODULE MCParallelLanes ---------------------------
(* Small calls of the parallel loop: up to four chunks on two lanes.       *)
EXTENDS ParallelLanes

MCMaxLen == 4

Job(len, broken, bad, unfoldable, limit, failFast, lookahead, threads) ==
  [length |-> len, broken |-> broken, bad |-> bad, unfoldable |-> unfoldable,
   limit |-> limit, failFast |-> failFast, lookahead |-> lookahead,
   threads |-> threads]

(* Long sources on lanes: no failure, one or two failing chunks, one that  *)
(* cannot be reduced, a limit and a source that breaks.                    *)
MCLongJobs ==
  {Job(4, FALSE, bad, {}, 9, ff, FALSE, TRUE) : bad \in {{}, {1}, {1, 2}}, ff \in BOOLEAN}
    \cup {Job(4, FALSE, {2}, {1}, 9, ff, TRUE, TRUE) : ff \in BOOLEAN}
    \cup {Job(4, FALSE, {0}, {}, 3, ff, la, TRUE) : ff \in BOOLEAN, la \in BOOLEAN}
    \cup {Job(n, TRUE, {}, {}, 9, TRUE, la, TRUE) : n \in {0, 1, 3}, la \in BOOLEAN}

(* Short sources, in every variation, on lanes or on the calling thread.   *)
MCShortJobs ==
  [length : 0 .. 2, broken : BOOLEAN, bad : SUBSET {0, 1}, unfoldable : {{}, {0}},
   limit : {1, 9}, failFast : BOOLEAN, lookahead : BOOLEAN, threads : BOOLEAN]

MCJobs == MCLongJobs \cup MCShortJobs
=============================================================================
