---------------------------- MODULE MCAccounting ----------------------------
(* Small instances of Accounting for TLC. *)
EXTENDS Accounting

MCTimes == 1..MaxTime

\* Records whose cost is that of their share across zones.
MCRecords ==
    {[timestamp |-> t, bytes |-> sent, crossAZ |-> crossed,
      cost |-> CostPerGB * crossed] :
        t \in MCTimes, sent, crossed \in 0..Cardinality(Flows) * MaxBytes}

\* Traffic across zones, and to a destination without a zone.
CONSTANTS east, west
MCEnds == {<<east, west>>, <<west, Unknown>>}

\* Traffic across zones alone.
MCCrossing == {<<east, west>>}
=============================================================================
