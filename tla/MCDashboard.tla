---------------------------- MODULE MCDashboard ----------------------------
(* A small instance of Dashboard for TLC: the values of MCAccounting. *)
EXTENDS Dashboard, MCAccounting

\* Bound: a stop on request is asked for, and over, between the two intervals.
MCSpec ==
    /\ DashboardInit
    /\ [][DashboardNext /\ (stopping' => clock' = 2)]_dashboardVars
    /\ Fairness
=============================================================================
