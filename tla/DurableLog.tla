----------------------------- MODULE DurableLog -----------------------------
(***************************************************************************)
(* What the history promises: a log of interval records, and, while a      *)
(* daemon has it open, a view that is the summary of the records counted:  *)
(* their totals and the most recent of them.                               *)
(*                                                                         *)
(* Until the first fault the log only grows and the view counts all of it, *)
(* across any closing and opening, which is all that a crash of the daemon *)
(* and a restart are here.  A fault may cost the log its end, or make the  *)
(* view count a record that the log misses or miss the end of the log; it  *)
(* never disturbs what lies before, adds an entry that was not recorded,   *)
(* or makes the view anything but a summary.                               *)
(***************************************************************************)
EXTENDS Integers, Sequences

CONSTANTS Records, Recent, Closed

VARIABLES
    log,     \* what opening the log would find
    counted, \* the records the view is the summary of
    view,    \* what an open log reports, or Closed
    faulty   \* a fault has happened

vars == <<log, counted, view, faulty>>

\* The sum of a field over a log.
Total(l, field) ==
    LET sum[i \in 0..Len(l)] == IF i = 0 THEN 0 ELSE sum[i - 1] + l[i][field]
    IN  sum[Len(l)]

\* The last Recent entries of a log.
Newest(l) ==
    IF Len(l) <= Recent THEN l ELSE SubSeq(l, Len(l) - Recent + 1, Len(l))

Summary(l) ==
    [bytes   |-> Total(l, "bytes"),
     crossAZ |-> Total(l, "crossAZ"),
     cost    |-> Total(l, "cost"),
     recent  |-> Newest(l)]

Prefixes(l) == {SubSeq(l, 1, n) : n \in 0..Len(l)}

Init == log = <<>> /\ counted = <<>> /\ view = Closed /\ faulty = FALSE

-----------------------------------------------------------------------------
Count(l) == counted' = l /\ view' = Summary(l)
Shut     == counted' = <<>> /\ view' = Closed

Open  == view = Closed /\ Count(log) /\ UNCHANGED log
Add   == view # Closed /\ \E r \in Records : log' = Append(log, r) /\ Count(log')
Close == view # Closed /\ Shut /\ UNCHANGED log

\* What one record that is not safely added leaves of the log.
Frayed(r) == {log, Append(log, r), SubSeq(log, 1, Len(log) - 1)}

OpenPart  == view = Closed /\ (\E l \in Prefixes(log) : Count(l)) /\ UNCHANGED log
AddFrayed == /\ view # Closed
             /\ \E r \in Records : /\ log' \in Frayed(r)
                                   /\ Count(Append(counted, r)) \/ Shut
LoseEnd   == log' \in Prefixes(log) /\ Shut

Next ==
    \/ ~faulty' /\ ~faulty /\ (Open \/ Add \/ Close)
    \/ faulty' /\ (OpenPart \/ AddFrayed \/ LoseEnd)

Spec == Init /\ [][Next]_vars
=============================================================================
