--------------------------- MODULE MCStatsWindow ----------------------------
(* Instances of StatsWindow for TLC.                                       *)
EXTENDS StatsWindow

\* Two instants per bucket of two, and four buckets: a window of three slots
\* can slide by one and by two, and be emptied.
MCTimes == 0 .. 7
=============================================================================
