-------------------------- MODULE MCQueryScheduler --------------------------
(* Small instances of QueryScheduler for TLC. *)
EXTENDS QueryScheduler

CONSTANTS j1, j2

MCJobs == {j1, j2}
MCStreams == {"s"}

Pair(x, y) == [j \in MCJobs |-> IF j = j1 THEN x ELSE y]

\* Two extractions of one stream, and a search of two sub-jobs next to an
\* extraction, each with one fault of any kind.
MCScenarios ==
  [types : {Pair("extract", "extract"), Pair("agg", "extract"), Pair("latest", "extract")},
   faults : {{k} : k \in FaultKinds}]

\* Two aggregations that compete for one reducer, and one aggregation with two faults.
LiveScenarios ==
  [types : {Pair("agg", "agg")}, faults : {{}}]
    \cup [types : {Pair("agg", "none")},
          faults : {{"crash", "taskRaises"}, {"crash", "reducerDies"},
                    {"reducerDies", "taskRaises"}}]

=============================================================================
