----------------------------- MODULE MCStatsLog -----------------------------
(* Small instances of StatsLog for TLC. *)
EXTENDS StatsLog

CONSTANTS east, west

\* Across zones, within one, and with either end unresolved.
MCEnds == {<<east, west>>, <<east, east>>, <<east, Unknown>>, <<Unknown, west>>}
=============================================================================
