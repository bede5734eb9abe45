----------------------------- MODULE Accounting -----------------------------
(***************************************************************************)
(* The accounting pipeline of one daemon across its restarts: events read  *)
(* from the ring buffer (reader.go) fill the flow table (Stats), the       *)
(* reporter carries each interval from the table to the history (History), *)
(* and the process around them starts (loader.go), is told to stop, exits  *)
(* and is killed (main.go).                                                *)
(*                                                                         *)
(* Ghosts follow each flow's bytes, so that every byte fed in can be told  *)
(* to be in the table, in the reporter's hands, handed over, or lost with  *)
(* the process.                                                            *)
(***************************************************************************)
EXTENDS Stats, History, Functions

CONSTANTS
    MaxTime,    \* bound: the last clock reading
    MaxConnects,\* bound: connect events of one flow in one interval
    MaxBytes    \* bound: bytes fed to one flow

ASSUME BoundsAssumption ==
    MaxTime \in Nat \ {0} /\ MaxConnects \in Nat /\ MaxBytes \in Nat
ASSUME ClockAssumption == 1..MaxTime \subseteq Times
ASSUME FlowsAssumption == IsFiniteSet(Flows)

\* Record takes whatever the intervals can come to.
ASSUME IntervalsAssumption ==
    LET most == MaxBytes * Cardinality(Flows)
    IN  \A t \in 1..MaxTime, sent \in 0..most, crossed \in 0..most :
          [timestamp |-> t, bytes |-> sent, crossAZ |-> crossed,
           cost |-> CostPerGB * crossed] \in Records

VARIABLES
    clock,    \* the wall clock, in reporting intervals
    stopping, \* stopCh is closed
    reading,  \* ReadEvents has not returned
    fed,      \* ghost: bytes of the send events read, per flow
    handed,   \* ghost: bytes of the snapshots given to Record, per flow
    lost      \* ghost: bytes in memory when a process ended, per flow

daemonVars == <<stopping, reading>>
ghostVars  == <<fed, handed, lost>>
vars == <<statsVars, historyVars, clock, daemonVars, ghostVars>>

Up == store # NoStore

-----------------------------------------------------------------------------
BytesIn(table, f) == IF f \in DOMAIN table THEN table[f].bytes ELSE 0

Carrying == rep \in {"publish", "record"}

Carried(f) == IF Carrying THEN BytesIn(snap.flows, f) ELSE 0

TotalBytes(table) == SumFunction([f \in DOMAIN table |-> table[f].bytes])

Crossing(table) == {f \in DOMAIN table : CrossAZ(table[f])}

\* The record that Record makes of a snapshot, by the totals that
\* snapshotAndReset computed for it.
IntervalRecord(s) ==
    [timestamp |-> s.timestamp,
     bytes     |-> TotalBytes(s.flows),
     crossAZ   |-> SumFunction([f \in Crossing(s.flows) |-> s.flows[f].bytes]),
     cost      |-> SumFunction([f \in DOMAIN s.flows |-> CostUSD(s.flows[f])])]

-----------------------------------------------------------------------------
Init ==
    /\ StatsInit
    /\ HistoryInit
    /\ clock = 1
    /\ stopping = FALSE
    /\ reading = FALSE
    /\ fed    = [f \in Flows |-> 0]
    /\ handed = [f \in Flows |-> 0]
    /\ lost   = [f \in Flows |-> 0]

\* ebpf.Start from NewHistoryStore on: history, statistics, reporter, reader.
Boot ==
    /\ NewHistoryStore(clock) \/ NewHistoryStoreCut(clock)
    /\ NewStats
    /\ stopping' = FALSE
    /\ reading' = TRUE
    /\ UNCHANGED <<clock, ghostVars>>

Connect(f, ends) ==
    /\ reading
    /\ f \in DOMAIN conns => conns[f].count < MaxConnects
    /\ RecordTCP(f, ends)
    /\ UNCHANGED <<historyVars, clock, daemonVars, ghostVars>>

Send(f, ends, n) ==
    /\ reading
    /\ fed[f] + n <= MaxBytes
    /\ RecordBytes(f, ends, n)
    /\ fed' = [fed EXCEPT ![f] = @ + n]
    /\ UNCHANGED <<historyVars, clock, daemonVars, handed, lost>>

\* Mutants: a snapshot stamped with the end of the next interval, and a clock
\* too coarse to tell two intervals apart.
IntervalAhead ==
    /\ Up
    /\ clock < MaxTime
    /\ clock' = clock + 1
    /\ Tick(clock + 2)
    /\ UNCHANGED <<historyVars, daemonVars, ghostVars>>

IntervalSameSecond ==
    /\ Up
    /\ Tick(clock)
    /\ UNCHANGED <<historyVars, clock, daemonVars, ghostVars>>

\* StartReporter, the three stages of an interval.
Interval ==
    /\ Up
    /\ clock < MaxTime
    /\ clock' = clock + 1
    /\ Tick(clock + 1)
    /\ UNCHANGED <<historyVars, daemonVars, ghostVars>>

Report ==
    /\ Up
    /\ Publish
    /\ UNCHANGED <<historyVars, clock, daemonVars, ghostVars>>

HandOver ==
    /\ Up
    /\ Recorded
    /\ LET rec == IntervalRecord(snap)
       IN  Record(rec) \/ RecordUnwritten(rec) \/ RecordShort(rec)
    /\ handed' = [f \in Flows |-> handed[f] + Carried(f)]
    /\ UNCHANGED <<clock, daemonVars, fed, lost>>

\* SIGINT or SIGTERM: main closes stopCh.
Signal ==
    /\ Up
    /\ ~stopping
    /\ stopping' = TRUE
    /\ UNCHANGED <<statsVars, historyVars, clock, reading, ghostVars>>

\* rd.Close: ReadEvents returns nil, and with it ebpf.Start.
CloseReader ==
    /\ stopping
    /\ reading
    /\ reading' = FALSE
    /\ UNCHANGED <<statsVars, historyVars, clock, stopping, ghostVars>>

ReporterReturns ==
    /\ Up
    /\ stopping
    /\ StopReporter
    /\ UNCHANGED <<historyVars, clock, daemonVars, ghostVars>>

\* The process is gone, and what it held in memory with it.
ProcessEnds ==
    /\ NewStats
    /\ stopping' = FALSE
    /\ reading' = FALSE
    /\ UNCHANGED <<clock, fed>>

\* main returns as soon as ebpf.Start has, wherever the reporter is.
Exit ==
    /\ Up
    /\ ~reading
    /\ Crash
    /\ ProcessEnds
    /\ lost' = [f \in Flows |-> lost[f] + BytesIn(conns, f) + Carried(f)]
    /\ UNCHANGED handed

Kill ==
    /\ Crash
    /\ ProcessEnds
    /\ lost' = [f \in Flows |-> lost[f] + BytesIn(conns, f) + Carried(f)]
    /\ UNCHANGED handed

\* The host crashes, with or without the daemon running on it.
HostDies ==
    /\ HostCrash
    /\ ProcessEnds
    /\ lost' = [f \in Flows |-> lost[f] + BytesIn(conns, f) + Carried(f)]
    /\ UNCHANGED handed

KillInRecord ==
    /\ rep = "record"
    /\ CrashInRecord(IntervalRecord(snap))
    /\ ProcessEnds
    /\ handed' = [f \in Flows |-> handed[f] + Carried(f)]
    /\ lost' = [f \in Flows |-> lost[f] + BytesIn(conns, f)]

Next ==
    \/ Boot
    \/ \E f \in Flows, ends \in Ends :
         \/ Connect(f, ends)
         \/ \E n \in Sizes : Send(f, ends, n)
    \/ Interval
    \/ Report
    \/ HandOver
    \/ Signal
    \/ CloseReader
    \/ ReporterReturns
    \/ Exit
    \/ Kill
    \/ KillInRecord
    \/ HostDies

Spec == Init /\ [][Next]_vars

-----------------------------------------------------------------------------
\* The clock, the pipeline's state and the process fit together.
TypeOK ==
    /\ clock \in 1..MaxTime
    /\ stopping \in BOOLEAN /\ reading \in BOOLEAN
    /\ fed \in [Flows -> Nat] /\ handed \in [Flows -> Nat] /\ lost \in [Flows -> Nat]
    /\ IsTable(conns)
    /\ execCnt \in Nat
    /\ rep \in {"waiting", "publish", "record", "stopped"}
    /\ Carrying => snap.timestamp \in 1..clock /\ IsTable(snap.flows)
    /\ reading \/ stopping \/ rep # "waiting" => Up

\* Every byte of every send event that was read is in exactly one place: the
\* table, the snapshot the reporter carries, an interval handed to the history,
\* or lost with a process that ended; the reset between intervals and the
\* hand-over outside the lock neither drop nor repeat one.
Conservation ==
    \A f \in Flows :
        fed[f] = BytesIn(conns, f) + Carried(f) + handed[f] + lost[f]

\* End to end, when no write fails and no host loses one: what a start would
\* restore from the file is what the flows were handed over with, its cross-zone
\* share is a share of it, and the cost is that share at the configured rate.
\* A start that could not read it all keeps it all for the next one.
RestoredTotals ==
    LET disk == Replay(ScannedLines)
    IN  faults = 0 =>
        /\ disk.bytes = SumFunction(handed)
        /\ disk.crossAZ <= disk.bytes
        /\ disk.cost = CostPerGB * disk.crossAZ
        /\ Up /\ cuts = 0 => /\ store.bytes   = disk.bytes
                             /\ store.crossAZ = disk.crossAZ
                             /\ store.cost    = disk.cost

\* The pipeline uses the history as History assumes it is used: one record at a
\* time, stamped later than all before it, from one process at a time.
ImplementsHistory == HistorySpec

\* "Cumulative traffic and cost survive daemon restarts": a stop on request
\* loses none of what was read.  StartReporter returns on stopCh without a
\* last snapshot, and main does not wait for it.
StopLosesNothing ==
    [][Exit => \A f \in Flows : BytesIn(conns, f) + Carried(f) = 0]_vars
=============================================================================
