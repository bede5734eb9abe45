------------------------------- MODULE Stats -------------------------------
(***************************************************************************)
(* The aggregator of pkg/adapters/ebpf/stats.go: a table of flows filled   *)
(* by the event reader, and the reporter goroutine that every interval     *)
(* snapshots and resets it, publishes the snapshot to the dashboard and    *)
(* hands it to the history.                                                *)
(*                                                                         *)
(* Stats.mu makes each Record* call and snapshotAndReset atomic, but the   *)
(* reporter takes it twice and hands over outside it, so the three stages  *)
(* of one interval interleave with the reader and with the HTTP handlers.  *)
(***************************************************************************)
EXTENDS Integers, FiniteSets

CONSTANTS
    Flows,     \* flow keys: source name, destination name, port
    Zones,     \* zone labels
    Unknown,   \* the empty string: the zone did not resolve
    Ends,      \* the zone pairs, source and destination, that events resolve to
    Sizes,     \* byte counts of a send event
    CostPerGB, \* the rate; a unit of bytes stands for one GB
    NoSnapshot \* Stats.lastJSON = nil, and the reporter holding no snapshot

ASSUME ZonesAssumption == Unknown \notin Zones
ASSUME EndsAssumption ==
    Ends \subseteq (Zones \cup {Unknown}) \X (Zones \cup {Unknown})
ASSUME SizesAssumption == Sizes \subseteq Nat
ASSUME CostPerGBAssumption == CostPerGB \in Nat

VARIABLES
    conns,    \* Stats.conns
    execCnt,  \* Stats.execCnt
    lastJSON, \* Stats.lastJSON, as the snapshot it was marshalled from
    snap,     \* the reporter's local snapshot
    rep       \* where the reporter goroutine is

statsVars == <<conns, execCnt, lastJSON, snap, rep>>

ZoneOrUnknown == Zones \cup {Unknown}
ConnStat == [count : Nat, bytes : Nat,
             srcZone : ZoneOrUnknown, dstZone : ZoneOrUnknown]
IsTable(t) == /\ DOMAIN t \subseteq Flows
              /\ t \in [DOMAIN t -> ConnStat]
NoConns == [f \in {} |-> NoSnapshot]

ASSUME NoSnapshotAssumption ==
    NoSnapshot \notin [timestamp : Nat, execs : Nat,
                       flows : UNION {[D -> ConnStat] : D \in SUBSET Flows}]

-----------------------------------------------------------------------------
CrossAZ(c) == /\ c.srcZone # Unknown
              /\ c.dstZone # Unknown
              /\ c.srcZone # c.dstZone

\* Mutant: every flow is costed.
CostOfAny(c) == c.bytes * CostPerGB

CostUSD(c) == IF CrossAZ(c) THEN c.bytes * CostPerGB ELSE 0

\* Mutant: an unresolved zone erases the one that was known.
GetOrCreateErases(f, ends) ==
    LET c == IF f \in DOMAIN conns
             THEN conns[f]
             ELSE [count |-> 0, bytes |-> 0, srcZone |-> Unknown, dstZone |-> Unknown]
    IN  [c EXCEPT !.srcZone = ends[1], !.dstZone = ends[2]]

\* The entry that getOrCreate returns: new or existing, its zones overwritten
\* by the ones that resolved this time.
GetOrCreate(f, ends) ==
    LET src == ends[1]
        dst == ends[2]
        c == IF f \in DOMAIN conns
             THEN conns[f]
             ELSE [count |-> 0, bytes |-> 0, srcZone |-> src, dstZone |-> dst]
    IN  [c EXCEPT !.srcZone = IF src # Unknown THEN src ELSE @,
                  !.dstZone = IF dst # Unknown THEN dst ELSE @]

\* conns with f's entry set to c.
WithEntry(f, c) ==
    [g \in DOMAIN conns \cup {f} |-> IF g = f THEN c ELSE conns[g]]

\* What snapshotAndReset returns.
TakeSnapshot(now) ==
    [timestamp |-> now, execs |-> execCnt, flows |-> conns]

-----------------------------------------------------------------------------
StatsInit ==
    /\ conns = NoConns
    /\ execCnt = 0
    /\ lastJSON = NoSnapshot
    /\ snap = NoSnapshot
    /\ rep = "waiting"

\* NewStats, and a reporter that has not ticked.
NewStats ==
    /\ conns' = NoConns
    /\ execCnt' = 0
    /\ lastJSON' = NoSnapshot
    /\ snap' = NoSnapshot
    /\ rep' = "waiting"

RecordExec ==
    /\ execCnt' = execCnt + 1
    /\ UNCHANGED <<conns, lastJSON, snap, rep>>

\* A connect event.
RecordTCP(f, ends) ==
    /\ conns' = WithEntry(f, [GetOrCreate(f, ends) EXCEPT !.count = @ + 1])
    /\ UNCHANGED <<execCnt, lastJSON, snap, rep>>

\* A send event.
RecordBytes(f, ends, n) ==
    /\ conns' = WithEntry(f, [GetOrCreate(f, ends) EXCEPT !.bytes = @ + n])
    /\ UNCHANGED <<execCnt, lastJSON, snap, rep>>

\* Mutants of Tick: the table is not reset, or is reset before it is copied.
TickKeepsTable(now) ==
    /\ rep = "waiting"
    /\ snap' = TakeSnapshot(now)
    /\ execCnt' = 0
    /\ rep' = "publish"
    /\ UNCHANGED <<conns, lastJSON>>

TickResetsFirst(now) ==
    /\ rep = "waiting"
    /\ snap' = [TakeSnapshot(now) EXCEPT !.flows = NoConns]
    /\ conns' = NoConns
    /\ execCnt' = 0
    /\ rep' = "publish"
    /\ UNCHANGED lastJSON

\* The ticker fires: snapshotAndReset, one critical section.
Tick(now) ==
    /\ rep = "waiting"
    /\ snap' = TakeSnapshot(now)
    /\ conns' = NoConns
    /\ execCnt' = 0
    /\ rep' = "publish"
    /\ UNCHANGED lastJSON

\* Mutant: a second look at the live table instead of the snapshot.
PublishLive ==
    /\ rep = "publish"
    /\ lastJSON' = TakeSnapshot(snap.timestamp)
    /\ rep' = "record"
    /\ UNCHANGED <<conns, execCnt, snap>>

\* The second critical section: the dashboard now serves this snapshot.  With a
\* finite rate, which is all there is here, json.Marshal does not fail.
Publish ==
    /\ rep = "publish"
    /\ lastJSON' = snap
    /\ rep' = "record"
    /\ UNCHANGED <<conns, execCnt, snap>>

\* history.Record(snap) returns; the snapshot goes out of scope.
Recorded ==
    /\ rep = "record"
    /\ snap' = NoSnapshot
    /\ rep' = "waiting"
    /\ UNCHANGED <<conns, execCnt, lastJSON>>

\* Mutant: the goroutine may return with a snapshot in its hands.
StopReporterAnywhere ==
    /\ rep # "stopped"
    /\ rep' = "stopped"
    /\ UNCHANGED <<conns, execCnt, lastJSON, snap>>

\* The select sees stopCh closed: the goroutine returns as it is.
StopReporter ==
    /\ rep = "waiting"
    /\ rep' = "stopped"
    /\ UNCHANGED <<conns, execCnt, lastJSON, snap>>
=============================================================================
