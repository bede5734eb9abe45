----------------------------- MODULE MCHistory -----------------------------
(* Small instances of History for TLC. *)
EXTENDS History

CONSTANT MaxRecords  \* bound: how many intervals are recorded

MCTimes == 1..MaxRecords

\* Three kinds of interval (by how much of it crosses zones).
MCRecords ==
    [timestamp : MCTimes, bytes : {1}, crossAZ : {0, 1}, cost : {0}]
      \cup
    [timestamp : MCTimes, bytes : {2}, crossAZ : {1}, cost : {1}]
=============================================================================
