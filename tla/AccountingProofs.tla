-------------------------- MODULE AccountingProofs --------------------------
(***************************************************************************)
(* Proofs about Accounting, for every set of flows, zones and sizes, every *)
(* rate, ring capacity and number of intervals and faults.                 *)
(***************************************************************************)
EXTENDS Accounting, HistoryProofs

(* The flow table. *)

LEMMA GetOrCreateType ==
    ASSUME IsTable(conns), NEW f \in Flows, NEW ends \in Ends
    PROVE  /\ GetOrCreate(f, ends) \in ConnStat
           /\ GetOrCreate(f, ends).bytes = BytesIn(conns, f)
<1> DEFINE c == IF f \in DOMAIN conns
                THEN conns[f]
                ELSE [count |-> 0, bytes |-> 0, srcZone |-> ends[1], dstZone |-> ends[2]]
<1>1. ends[1] \in ZoneOrUnknown /\ ends[2] \in ZoneOrUnknown
  BY EndsAssumption DEF ZoneOrUnknown
<1>2. c \in ConnStat /\ c.bytes = BytesIn(conns, f)
  <2>1. CASE f \in DOMAIN conns
    BY <2>1 DEF IsTable, BytesIn
  <2>2. CASE f \notin DOMAIN conns
    BY <1>1, <2>2 DEF ConnStat, BytesIn
  <2> QED
    BY <2>1, <2>2
<1>3. GetOrCreate(f, ends) =
        [c EXCEPT !.srcZone = IF ends[1] # Unknown THEN ends[1] ELSE @,
                  !.dstZone = IF ends[2] # Unknown THEN ends[2] ELSE @]
  BY DEF GetOrCreate
<1> HIDE DEF c
<1> QED
  BY <1>1, <1>2, <1>3 DEF ConnStat

LEMMA WithEntryType ==
    ASSUME IsTable(conns), NEW f \in Flows, NEW c \in ConnStat
    PROVE  /\ IsTable(WithEntry(f, c))
           /\ \A g \in Flows : BytesIn(WithEntry(f, c), g) =
                                 IF g = f THEN c.bytes ELSE BytesIn(conns, g)
<1> DEFINE t == WithEntry(f, c)
<1>1. /\ DOMAIN t = DOMAIN conns \cup {f}
      /\ \A g \in DOMAIN t : t[g] = IF g = f THEN c ELSE conns[g]
      /\ t = [g \in DOMAIN t |-> t[g]]
  BY DEF WithEntry
<1> HIDE DEF t
<1>2. \A g \in DOMAIN t : t[g] \in ConnStat
  BY <1>1 DEF IsTable
<1>3. IsTable(t)
  BY <1>1, <1>2 DEF IsTable
<1>4. \A g \in Flows : BytesIn(t, g) = IF g = f THEN c.bytes ELSE BytesIn(conns, g)
  BY <1>1 DEF BytesIn
<1> QED
  BY <1>3, <1>4 DEF t

LEMMA NoConnsType == IsTable(NoConns) /\ \A f \in Flows : BytesIn(NoConns, f) = 0
BY DEF NoConns, IsTable, BytesIn

LEMMA BytesInType ==
    ASSUME NEW t, IsTable(t), NEW f \in Flows
    PROVE  BytesIn(t, f) \in Nat
BY DEF IsTable, ConnStat, BytesIn

\* An event changes its flow's entry and no other.
LEMMA TableAfterTCP ==
    ASSUME IsTable(conns), NEW f \in Flows, NEW ends \in Ends, RecordTCP(f, ends)
    PROVE  IsTable(conns') /\ \A g \in Flows : BytesIn(conns', g) = BytesIn(conns, g)
<1> DEFINE c == GetOrCreate(f, ends)
           d == [c EXCEPT !.count = @ + 1]
<1>1. c \in ConnStat /\ c.bytes = BytesIn(conns, f)
  BY GetOrCreateType
<1>2. conns' = WithEntry(f, d)
  BY DEF RecordTCP
<1> HIDE DEF c
<1>3. d \in ConnStat /\ d.bytes = BytesIn(conns, f)
  BY <1>1 DEF ConnStat
<1> HIDE DEF d
<1> QED
  BY <1>2, <1>3, WithEntryType

LEMMA TableAfterBytes ==
    ASSUME IsTable(conns), NEW f \in Flows, NEW ends \in Ends, NEW n \in Nat,
           RecordBytes(f, ends, n)
    PROVE  /\ IsTable(conns')
           /\ \A g \in Flows :
                BytesIn(conns', g) = BytesIn(conns, g) + (IF g = f THEN n ELSE 0)
<1> DEFINE c == GetOrCreate(f, ends)
           d == [c EXCEPT !.bytes = @ + n]
<1>1. c \in ConnStat /\ c.bytes = BytesIn(conns, f)
  BY GetOrCreateType
<1>2. conns' = WithEntry(f, d)
  BY DEF RecordBytes
<1> HIDE DEF c
<1>3. d \in ConnStat /\ d.bytes = BytesIn(conns, f) + n
  BY <1>1 DEF ConnStat
<1> HIDE DEF d
<1>4. IsTable(conns') /\ \A g \in Flows :
        BytesIn(conns', g) = IF g = f THEN BytesIn(conns, f) + n ELSE BytesIn(conns, g)
  BY <1>2, <1>3, WithEntryType
<1>5. \A g \in Flows : BytesIn(conns, g) \in Nat
  BY BytesInType
<1> QED
  BY <1>4, <1>5

-----------------------------------------------------------------------------
(* The record of an interval. *)

InTable(t) == [f \in Flows |-> BytesIn(t, f)]

\* The total of a table is that of its flows.
LEMMA TotalBytesIs ==
    ASSUME NEW t, IsTable(t)
    PROVE  TotalBytes(t) = SumFunctionOnSet(InTable(t), Flows)
<1> DEFINE g == [f \in DOMAIN t |-> t[f].bytes]
           h == InTable(t)
           D == DOMAIN t
<1>1. D \subseteq Flows /\ IsFiniteSet(D) /\ DOMAIN g = D
  BY FS_Subset, FlowsAssumption DEF IsTable
<1>2. \A f \in D : g[f] = h[f]
  BY <1>1 DEF InTable, BytesIn
<1>3. \A f \in Flows : h[f] \in Nat
  BY BytesInType DEF InTable
<1>4. \A f \in Flows \ D : h[f] = 0
  BY DEF InTable, BytesIn
<1>5. TotalBytes(t) = SumFunction(g)
  BY DEF TotalBytes
<1> HIDE DEF g, h, D
<1>6. SumFunction(g) = SumFunctionOnSet(h, D)
  BY <1>1, <1>2, SumFunctionIs
<1>7. SumFunctionOnSet(h, Flows) = SumFunctionOnSet(h, D)
  BY <1>1, <1>3, <1>4, SumSubset, FlowsAssumption
<1> QED
  BY <1>5, <1>6, <1>7 DEF h

CrossBytes(t) == SumFunction([f \in Crossing(t) |-> t[f].bytes])

\* The share across zones is a share of the total.
LEMMA CrossBytesIs ==
    ASSUME NEW t, IsTable(t)
    PROVE  CrossBytes(t) \in Nat /\ CrossBytes(t) <= TotalBytes(t)
<1> DEFINE C == Crossing(t)
           h == InTable(t)
           k == [f \in Flows |-> IF f \in C THEN h[f] ELSE 0]
           g == [f \in C |-> t[f].bytes]
<1>1. C \subseteq Flows /\ IsFiniteSet(C) /\ DOMAIN g = C
  BY FS_Subset, FlowsAssumption DEF IsTable, Crossing
<1>2. \A f \in C : g[f] = k[f]
  BY <1>1 DEF InTable, BytesIn, Crossing
<1>3. \A f \in Flows : h[f] \in Nat
  BY BytesInType DEF InTable
<1>4. \A f \in Flows : k[f] \in Nat /\ k[f] <= h[f]
  BY <1>3
<1>5. \A f \in Flows \ C : k[f] = 0
  OBVIOUS
<1>6. CrossBytes(t) = SumFunction(g)
  BY DEF CrossBytes
<1>7. TotalBytes(t) = SumFunctionOnSet(h, Flows)
  BY TotalBytesIs
<1> HIDE DEF g, h, k, C
<1>8. SumFunction(g) = SumFunctionOnSet(k, C)
  BY <1>1, <1>2, SumFunctionIs
<1>9. SumFunctionOnSet(k, Flows) = SumFunctionOnSet(k, C)
  BY <1>1, <1>4, <1>5, SumSubset, FlowsAssumption
<1>10. SumFunctionOnSet(k, Flows) <= SumFunctionOnSet(h, Flows)
  BY <1>3, <1>4, SumLeq, FlowsAssumption
<1>11. SumFunctionOnSet(k, Flows) \in Nat
  BY <1>4, SumNat, FlowsAssumption
<1> QED
  BY <1>6, <1>7, <1>8, <1>9, <1>10, <1>11

\* The costs of the flows add up to the rate of what crossed.
LEMMA CostIs ==
    ASSUME NEW t, IsTable(t)
    PROVE  SumFunction([f \in DOMAIN t |-> CostUSD(t[f])]) = CostPerGB * CrossBytes(t)
<1> DEFINE C == Crossing(t)
           D == DOMAIN t
           g == [f \in D |-> CostUSD(t[f])]
           b == [f \in C |-> t[f].bytes]
<1>1. C \subseteq D /\ IsFiniteSet(D) /\ IsFiniteSet(C) /\ DOMAIN g = D /\ DOMAIN b = C
  BY FS_Subset, FlowsAssumption DEF IsTable, Crossing
<1>2. \A f \in D : t[f].bytes \in Nat
  BY DEF IsTable, ConnStat
<1>3. \A f \in C : b[f] \in Nat /\ g[f] = CostPerGB * b[f]
  <2> SUFFICES ASSUME NEW f \in C PROVE b[f] \in Nat /\ g[f] = CostPerGB * b[f]
    OBVIOUS
  <2>1. CrossAZ(t[f]) /\ f \in D /\ t[f].bytes \in Nat
    BY <1>2 DEF Crossing
  <2>2. g[f] = t[f].bytes * CostPerGB
    BY <2>1 DEF CostUSD
  <2> QED
    BY <2>1, <2>2, CostPerGBAssumption
<1>4. \A f \in D \ C : g[f] = 0
  BY DEF Crossing, CostUSD
<1>5. CrossBytes(t) = SumFunction(b)
  BY DEF CrossBytes
<1> HIDE DEF g, b, C, D
<1>6. \A f \in D : g[f] \in Nat
  <2>1. \A m, n \in Nat : m * n \in Nat
    OBVIOUS
  <2> QED
    BY <1>3, <1>4, <2>1, CostPerGBAssumption
<1>7. SumFunction(b) = SumFunctionOnSet(b, C) /\ SumFunction(g) = SumFunctionOnSet(g, D)
  BY <1>1 DEF SumFunction
<1>8. SumFunctionOnSet(g, D) = SumFunctionOnSet(g, C)
  BY <1>1, <1>4, <1>6, SumSubset
<1>9. SumFunctionOnSet(g, C) = CostPerGB * SumFunctionOnSet(b, C)
  BY <1>1, <1>3, SumTimes, CostPerGBAssumption
<1> QED
  BY <1>5, <1>7, <1>8, <1>9 DEF g, D

\* A snapshot of what was fed makes a record that Record takes.
LEMMA IntervalRecordIs ==
    ASSUME NEW s, IsTable(s.flows), s.timestamp \in 1..MaxTime,
           \A f \in Flows : BytesIn(s.flows, f) <= MaxBytes
    PROVE  LET rec == IntervalRecord(s)
           IN  /\ rec \in Records
               /\ rec.timestamp = s.timestamp
               /\ rec.bytes = SumFunctionOnSet(InTable(s.flows), Flows)
               /\ rec.bytes \in Nat /\ rec.crossAZ \in Nat
               /\ rec.crossAZ <= rec.bytes
               /\ rec.cost = CostPerGB * rec.crossAZ
<1> DEFINE t == s.flows
           h == InTable(t)
           total == TotalBytes(t)
           cross == CrossBytes(t)
           most == MaxBytes * Cardinality(Flows)
<1>1. total = SumFunctionOnSet(h, Flows)
  BY TotalBytesIs
<1>2. cross \in Nat /\ cross <= total
  BY CrossBytesIs
<1>3. \A f \in Flows : h[f] \in Nat /\ h[f] <= MaxBytes
  BY BytesInType DEF InTable
<1>4. MaxBytes \in Nat /\ Cardinality(Flows) \in Nat
  BY BoundsAssumption, FlowsAssumption, FS_CardinalityType
<1>5. IntervalRecord(s) = [timestamp |-> s.timestamp, bytes |-> total,
                           crossAZ |-> cross, cost |-> CostPerGB * cross]
  BY CostIs DEF IntervalRecord, CrossBytes
<1> HIDE DEF t, h, total, cross
<1>6. total <= most /\ total \in Nat
  BY <1>1, <1>3, <1>4, SumBound, SumNat, FlowsAssumption
<1>7. most \in Nat
  BY <1>4
<1> HIDE DEF most
<1>8. total \in 0..most /\ cross \in 0..most
  BY <1>2, <1>6, <1>7
<1>9. \A x \in 1..MaxTime, sent \in 0..most, crossed \in 0..most :
          [timestamp |-> x, bytes |-> sent, crossAZ |-> crossed,
           cost |-> CostPerGB * crossed] \in Records
  BY IntervalsAssumption DEF most
<1>10. IntervalRecord(s) \in Records
  BY <1>5, <1>8, <1>9
<1> QED
  BY <1>1, <1>2, <1>5, <1>6, <1>10 DEF t, h

-----------------------------------------------------------------------------
(* The inductive invariant. *)

\* No flow was fed more than the bound of the model.
Fits == \A f \in Flows : fed[f] <= MaxBytes

\* Everything recorded so far is from a past interval, and the store older than
\* what is to be recorded.
Paced ==
    /\ \A q \in issued : q.timestamp <= clock
    /\ store # NoStore => store.since <= clock
    /\ Carrying => /\ \A q \in issued : q.timestamp < snap.timestamp
                   /\ store.since <= snap.timestamp

\* Without a process there is no table.
Gone == ~Up => conns = NoConns

Inv == TypeOK /\ Conservation /\ Fits /\ Paced /\ Gone /\ HistoryTypeOK /\ ReplayIsHonest

\* The snapshot in the reporter's hands: no more than was fed.
LEMMA SnapshotFits ==
    ASSUME TypeOK, Conservation, Fits, Carrying, NEW f \in Flows
    PROVE  BytesIn(snap.flows, f) <= MaxBytes
<1>1. Carried(f) = BytesIn(snap.flows, f) /\ Carried(f) \in Nat
  BY BytesInType DEF Carried, TypeOK
<1>2. BytesIn(conns, f) \in Nat
  BY BytesInType DEF TypeOK
<1>3. fed[f] = BytesIn(conns, f) + Carried(f) + handed[f] + lost[f]
  BY DEF Conservation
<1>4. fed[f] \in Nat /\ handed[f] \in Nat /\ lost[f] \in Nat /\ fed[f] <= MaxBytes
  BY DEF TypeOK, Fits
<1>5. MaxBytes \in Nat
  BY BoundsAssumption
<1> QED
  BY <1>1, <1>2, <1>3, <1>4, <1>5

\* What the reporter hands over is later than all before it.
LEMMA HandedRecord ==
    ASSUME Inv, rep = "record"
    PROVE  /\ Up
           /\ IntervalRecord(snap) \in Later
           /\ IntervalRecord(snap).timestamp = snap.timestamp
           /\ snap.timestamp \in 1..clock
           /\ IsTable(snap.flows)
<1>1. Carrying /\ TypeOK /\ Conservation /\ Fits /\ Paced
  BY DEF Inv, Carrying
<1>2. Up /\ snap.timestamp \in 1..clock /\ IsTable(snap.flows) /\ clock \in 1..MaxTime
  BY <1>1 DEF TypeOK
<1>3. snap.timestamp \in 1..MaxTime
  BY <1>2, BoundsAssumption
<1>4. \A f \in Flows : BytesIn(snap.flows, f) <= MaxBytes
  BY <1>1, SnapshotFits
<1>5. IntervalRecord(snap) \in Records /\ IntervalRecord(snap).timestamp = snap.timestamp
  BY <1>2, <1>3, <1>4, IntervalRecordIs
<1>6. IntervalRecord(snap) \in Later
  BY <1>1, <1>5 DEF Paced, Later
<1> QED
  BY <1>2, <1>5, <1>6

LEMMA ClockIsNow == TypeOK /\ Paced => clock \in Now
BY ClockAssumption DEF TypeOK, Paced, Now

\* Every step of the daemon is one that History allows, or leaves it alone: the
\* step correspondence of ImplementsHistory.
LEMMA RefinesStep ==
    ASSUME Inv, [Next]_vars
    PROVE  [HistoryNext]_historyVars
<1>1. CASE Boot
  <2>1. clock \in Now
    BY ClockIsNow DEF Inv
  <2> QED
    BY <1>1, <2>1 DEF Boot, HistoryNext
<1>2. ASSUME NEW f \in Flows, NEW ends \in Ends, Connect(f, ends)
      PROVE  UNCHANGED historyVars
  BY <1>2 DEF Connect
<1>3. ASSUME NEW f \in Flows, NEW ends \in Ends, NEW n \in Sizes, Send(f, ends, n)
      PROVE  UNCHANGED historyVars
  BY <1>3 DEF Send
<1>4. CASE HandOver
  <2> DEFINE rec == IntervalRecord(snap)
  <2>1. rep = "record" /\ (Record(rec) \/ RecordUnwritten(rec) \/ RecordShort(rec))
    BY <1>4 DEF HandOver, Recorded
  <2>2. rec \in Later
    BY <2>1, HandedRecord
  <2> HIDE DEF rec
  <2> QED
    BY <2>1, <2>2 DEF HistoryNext
<1>5. CASE KillInRecord
  <2> DEFINE rec == IntervalRecord(snap)
  <2>1. rep = "record" /\ CrashInRecord(rec)
    BY <1>5 DEF KillInRecord
  <2>2. rec \in Later
    BY <2>1, HandedRecord
  <2> HIDE DEF rec
  <2> QED
    BY <2>1, <2>2 DEF HistoryNext
<1>6. CASE Exit \/ Kill \/ HostDies
  BY <1>6 DEF Exit, Kill, HostDies, HistoryNext
<1>7. CASE Interval \/ Report \/ Signal \/ CloseReader \/ ReporterReturns
  BY <1>7 DEF Interval, Report, Signal, CloseReader, ReporterReturns
<1>8. CASE UNCHANGED vars
  BY <1>8 DEF vars
<1> QED
  BY <1>1, <1>2, <1>3, <1>4, <1>5, <1>6, <1>7, <1>8 DEF Next

\* History's own invariants come with it.
LEMMA HistoryStep ==
    ASSUME Inv, [Next]_vars
    PROVE  HistoryTypeOK' /\ ReplayIsHonest'
BY RefinesStep, HistoryTypeStep, HonestStep DEF Inv

\* Reading lines that were recorded opens a store no younger than now.
LEMMA OpenedStore ==
    ASSUME NEW ls \in Seq(Lines), InOrder(ls), RecordsOf(ls) \subseteq issued,
           NEW now \in Nat, \A q \in issued : q.timestamp <= now,
           Restore(ls, now)
    PROVE  store' \in Stores /\ store'.since <= now
<1> DEFINE h == Replay(ls)
<1>1. h \in Stores /\ Dated(h, ls)
  BY ReplayType, ReplayDates DEF GoodStore
<1>2. store' = [h EXCEPT !.since = IF @ = NoTime THEN now ELSE @]
  BY DEF Restore
<1> HIDE DEF h
<1>3. store' \in Stores /\ store'.since = IF h.since = NoTime THEN now ELSE h.since
  BY <1>1, <1>2 DEF Stores
<1>4. h.since # NoTime => h.since <= now
  BY <1>1 DEF Dated
<1> QED
  BY <1>3, <1>4

LEMMA BootedStore ==
    ASSUME Inv, Boot
    PROVE  /\ store' \in Stores /\ store' # NoStore /\ store'.since <= clock
           /\ issued' = issued
<1>1. /\ ScannedLines \in Seq(Lines) /\ InOrder(ScannedLines)
      /\ RecordsOf(ScannedLines) \subseteq issued
  BY ScannedLinesType, HonestIs DEF Inv
<1>2. clock \in Nat /\ \A q \in issued : q.timestamp <= clock
  BY DEF Inv, TypeOK, Paced
<1>3. CASE NewHistoryStore(clock)
  BY <1>1, <1>2, <1>3, OpenedStore, StoreIsOpen DEF NewHistoryStore
<1>4. CASE NewHistoryStoreCut(clock)
  <2>1. PICK n \in 0..Len(ScannedLines) - 1 :
          Restore(SubSeq(ScannedLines, 1, n), clock)
    BY <1>4 DEF NewHistoryStoreCut
  <2> DEFINE p == SubSeq(ScannedLines, 1, n)
  <2>2. n \in 0..Len(ScannedLines)
    BY <1>1, LenProperties
  <2>3. p \in Seq(Lines) /\ InOrder(p)
    BY <1>1, <2>2, InOrderPrefix
  <2>4. RecordsOf(p) \subseteq RecordsOf(ScannedLines)
    BY <1>1, <2>2, RecordsOfPrefix
  <2>5. RecordsOf(p) \subseteq issued
    BY <1>1, <2>4
  <2> HIDE DEF p
  <2>6. store' \in Stores /\ store'.since <= clock
    BY <1>2, <2>1, <2>3, <2>5, OpenedStore DEF p
  <2> QED
    BY <1>4, <2>6, StoreIsOpen DEF NewHistoryStoreCut
<1> QED
  BY <1>3, <1>4 DEF Boot

LEMMA CountedStore ==
    ASSUME Inv, HandOver
    PROVE  /\ rep = "record" /\ Up
           /\ store \in Stores /\ store' \in Stores /\ store' # NoStore
           /\ store'.since = store.since
           /\ store' = Absorb(store, IntervalRecord(snap))
           /\ issued' = issued \cup {IntervalRecord(snap)}
<1> DEFINE rec == IntervalRecord(snap)
<1>1. rep = "record" /\ (Record(rec) \/ RecordUnwritten(rec) \/ RecordShort(rec))
  BY DEF HandOver, Recorded
<1>2. Up /\ rec \in Records
  BY <1>1, HandedRecord, LaterType
<1> HIDE DEF rec
<1>3. store' = Absorb(store, rec) /\ issued' = issued \cup {rec}
  BY <1>1 DEF Record, RecordUnwritten, RecordShort, Count
<1>4. GoodStore(store)
  BY <1>2 DEF Inv, HistoryTypeOK, Up, GoodStore, Stores
<1>5. store \in Stores /\ store' \in Stores
  BY <1>2, <1>3, <1>4, AbsorbType DEF GoodStore
<1>6. store'.since = store.since
  BY <1>3, <1>5 DEF Absorb, Stores
<1> QED
  BY <1>1, <1>2, <1>3, <1>5, <1>6, StoreIsOpen DEF rec

-----------------------------------------------------------------------------
(* The pipeline's own invariants, one group of steps at a time. *)

\* What the daemon holds is well formed.
HeldOK ==
    /\ IsTable(conns)
    /\ execCnt \in Nat
    /\ rep \in {"waiting", "publish", "record", "stopped"}
    /\ Carrying => snap.timestamp \in 1..clock /\ IsTable(snap.flows)
    /\ reading \/ stopping \/ rep # "waiting" => Up

\* The clock and the ghosts are well formed.
GhostsTyped ==
    /\ clock \in 1..MaxTime
    /\ stopping \in BOOLEAN /\ reading \in BOOLEAN
    /\ fed \in [Flows -> Nat] /\ handed \in [Flows -> Nat] /\ lost \in [Flows -> Nat]

LEMMA TypeIs == TypeOK <=> HeldOK /\ GhostsTyped
BY DEF TypeOK, HeldOK, GhostsTyped

\* A process that has just started, or is gone, holds no flows.
LEMMA FreshTable ==
    ASSUME NewStats
    PROVE  /\ IsTable(conns') /\ execCnt' = 0 /\ rep' = "waiting"
           /\ \A f \in Flows : BytesIn(conns', f) = 0 /\ Carried(f)' = 0
<1>1. conns' = NoConns /\ execCnt' = 0 /\ rep' = "waiting"
  BY DEF NewStats
<1>2. \A f \in Flows : Carried(f)' = 0
  BY <1>1 DEF Carried, Carrying
<1> QED
  BY <1>1, <1>2, NoConnsType

LEMMA CarriedType ==
    ASSUME TypeOK, NEW f \in Flows
    PROVE  BytesIn(conns, f) \in Nat /\ Carried(f) \in Nat
BY BytesInType DEF TypeOK, Carried

\* An end of the process turns what it held into what is lost.
LEMMA LostWithProcess ==
    ASSUME TypeOK, Conservation, Fits, NewStats, UNCHANGED <<clock, fed>>,
           stopping' = FALSE, reading' = FALSE,
           NEW gone \in [Flows -> Nat], NEW kept \in [Flows -> Nat],
           \A f \in Flows : gone[f] + kept[f] = BytesIn(conns, f) + Carried(f),
           handed' = [f \in Flows |-> handed[f] + kept[f]],
           lost' = [f \in Flows |-> lost[f] + gone[f]]
    PROVE  TypeOK' /\ Conservation' /\ Fits' /\ Gone'
<1>1. HeldOK'
  BY FreshTable DEF HeldOK, Carrying
<1>2. GhostsTyped'
  <2>1. \A f \in Flows : handed[f] + kept[f] \in Nat /\ lost[f] + gone[f] \in Nat
    BY DEF TypeOK
  <2>2. handed' \in [Flows -> Nat] /\ lost' \in [Flows -> Nat]
    BY <2>1
  <2>3. clock' \in 1..MaxTime /\ fed' \in [Flows -> Nat]
    BY DEF TypeOK
  <2> QED
    BY <2>2, <2>3 DEF GhostsTyped
<1>3. TypeOK'
  BY <1>1, <1>2 DEF TypeOK, HeldOK, GhostsTyped
<1>4. Conservation'
  <2> SUFFICES ASSUME NEW f \in Flows
               PROVE  fed'[f] = BytesIn(conns', f) + Carried(f)' + handed'[f] + lost'[f]
    BY DEF Conservation
  <2>1. BytesIn(conns', f) = 0 /\ Carried(f)' = 0
    BY FreshTable
  <2>2. fed'[f] = fed[f] /\ handed'[f] = handed[f] + kept[f] /\ lost'[f] = lost[f] + gone[f]
    OBVIOUS
  <2>3. fed[f] = BytesIn(conns, f) + Carried(f) + handed[f] + lost[f]
    BY DEF Conservation
  <2>4. /\ gone[f] + kept[f] = BytesIn(conns, f) + Carried(f)
        /\ gone[f] \in Nat /\ kept[f] \in Nat /\ handed[f] \in Nat /\ lost[f] \in Nat
        /\ BytesIn(conns, f) \in Nat /\ Carried(f) \in Nat
    BY CarriedType DEF TypeOK
  <2> QED
    BY <2>1, <2>2, <2>3, <2>4
<1>5. Fits' /\ Gone'
  BY DEF Fits, Gone, NewStats
<1> QED
  BY <1>3, <1>4, <1>5

LEMMA EndStep ==
    ASSUME Inv, Exit \/ Kill \/ HostDies
    PROVE  TypeOK' /\ Conservation' /\ Fits' /\ Paced' /\ Gone'
<1> DEFINE gone == [f \in Flows |-> BytesIn(conns, f) + Carried(f)]
           kept == [f \in Flows |-> 0]
<1>1. TypeOK /\ Conservation /\ Fits /\ Paced
  BY DEF Inv
<1>2. /\ NewStats /\ stopping' = FALSE /\ reading' = FALSE /\ UNCHANGED <<clock, fed>>
      /\ lost' = [f \in Flows |-> lost[f] + BytesIn(conns, f) + Carried(f)]
      /\ handed' = handed
      /\ Forget /\ issued' = issued
  BY DEF Exit, Kill, HostDies, ProcessEnds, Crash, HostCrash
<1>3. \A f \in Flows : /\ BytesIn(conns, f) \in Nat /\ Carried(f) \in Nat
                       /\ lost[f] \in Nat /\ handed[f] \in Nat
  BY <1>1, CarriedType DEF TypeOK
<1>4. /\ gone \in [Flows -> Nat] /\ kept \in [Flows -> Nat]
      /\ \A f \in Flows : gone[f] + kept[f] = BytesIn(conns, f) + Carried(f)
      /\ \A f \in Flows : /\ gone[f] = BytesIn(conns, f) + Carried(f)
                          /\ kept[f] = 0
  BY <1>3
<1> HIDE DEF gone, kept
<1>5. lost' = [f \in Flows |-> lost[f] + gone[f]]
  BY <1>2, <1>3, <1>4
<1>6. handed' = [f \in Flows |-> handed[f] + kept[f]]
  <2>1. handed = [f \in Flows |-> handed[f]]
    BY <1>1 DEF TypeOK
  <2> QED
    BY <1>2, <1>3, <1>4, <2>1
<1>7. TypeOK' /\ Conservation' /\ Fits' /\ Gone'
  BY <1>1, <1>2, <1>4, <1>5, <1>6, LostWithProcess
<1>8. Paced'
  <2>1. store' = NoStore /\ rep' = "waiting" /\ clock' = clock
    BY <1>2 DEF Forget, NewStats
  <2> QED
    BY <1>1, <1>2, <2>1 DEF Paced, Carrying
<1> QED
  BY <1>7, <1>8

LEMMA KillInRecordStep ==
    ASSUME Inv, KillInRecord
    PROVE  TypeOK' /\ Conservation' /\ Fits' /\ Paced' /\ Gone'
<1> DEFINE gone == [f \in Flows |-> BytesIn(conns, f)]
           kept == [f \in Flows |-> Carried(f)]
           rec  == IntervalRecord(snap)
<1>1. TypeOK /\ Conservation /\ Fits /\ Paced
  BY DEF Inv
<1>2. /\ NewStats /\ stopping' = FALSE /\ reading' = FALSE /\ UNCHANGED <<clock, fed>>
      /\ lost' = [f \in Flows |-> lost[f] + BytesIn(conns, f)]
      /\ handed' = [f \in Flows |-> handed[f] + Carried(f)]
      /\ store' = NoStore /\ issued' = issued \cup {rec} /\ rep = "record"
  BY DEF KillInRecord, ProcessEnds, CrashInRecord, Forget
<1>3. \A f \in Flows : BytesIn(conns, f) \in Nat /\ Carried(f) \in Nat
  BY <1>1, CarriedType
<1>4. /\ gone \in [Flows -> Nat] /\ kept \in [Flows -> Nat]
      /\ \A f \in Flows : gone[f] + kept[f] = BytesIn(conns, f) + Carried(f)
      /\ \A f \in Flows : gone[f] = BytesIn(conns, f) /\ kept[f] = Carried(f)
  BY <1>3
<1> HIDE DEF gone, kept, rec
<1>5. lost' = [f \in Flows |-> lost[f] + gone[f]]
  BY <1>2, <1>4
<1>6. handed' = [f \in Flows |-> handed[f] + kept[f]]
  BY <1>2, <1>4
<1>7. TypeOK' /\ Conservation' /\ Fits' /\ Gone'
  BY <1>1, <1>2, <1>4, <1>5, <1>6, LostWithProcess
<1>8. Paced'
  <2>1. rep' = "waiting" /\ clock' = clock
    BY <1>2 DEF NewStats
  <2>2. rec.timestamp \in 1..clock /\ clock \in Nat
    BY <1>1, <1>2, HandedRecord DEF TypeOK, rec
  <2> QED
    BY <1>1, <1>2, <2>1, <2>2 DEF Paced, Carrying
<1> QED
  BY <1>7, <1>8

LEMMA BootStep ==
    ASSUME Inv, Boot
    PROVE  TypeOK' /\ Conservation' /\ Fits' /\ Paced' /\ Gone'
<1>1. TypeOK /\ Conservation /\ Fits /\ Paced /\ Gone
  BY DEF Inv
<1>2. store = NoStore /\ NewStats /\ stopping' = FALSE /\ reading' = TRUE
      /\ UNCHANGED <<clock, fed, handed, lost>>
  BY DEF Boot, NewHistoryStore, NewHistoryStoreCut, ghostVars
<1>3. store' # NoStore /\ store'.since <= clock /\ issued' = issued
  BY BootedStore
<1>4. TypeOK'
  <2>1. HeldOK'
    BY <1>2, <1>3, FreshTable DEF HeldOK, Carrying, Up
  <2>2. GhostsTyped'
    BY <1>1, <1>2 DEF TypeOK, GhostsTyped
  <2> QED
    BY <2>1, <2>2 DEF TypeOK, HeldOK, GhostsTyped
<1>5. Conservation'
  <2> SUFFICES ASSUME NEW f \in Flows
               PROVE  fed'[f] = BytesIn(conns', f) + Carried(f)' + handed'[f] + lost'[f]
    BY DEF Conservation
  <2>1. BytesIn(conns', f) = 0 /\ Carried(f)' = 0
    BY <1>2, FreshTable
  <2>2. fed[f] = BytesIn(conns, f) + Carried(f) + handed[f] + lost[f]
    BY <1>1 DEF Conservation
  <2>3. BytesIn(conns, f) = 0 /\ Carried(f) = 0
    BY <1>1, <1>2, NoConnsType DEF TypeOK, Gone, Up, Carried, Carrying
  <2> QED
    BY <1>1, <1>2, <2>1, <2>2, <2>3 DEF TypeOK
<1>6. Fits' /\ Gone'
  BY <1>1, <1>2 DEF Fits, Gone, NewStats
<1>7. Paced'
  BY <1>1, <1>2, <1>3, FreshTable DEF Paced, Carrying
<1> QED
  BY <1>4, <1>5, <1>6, <1>7

\* Events: what a send adds to the table was fed.
LEMMA ConnectStep ==
    ASSUME Inv, NEW f \in Flows, NEW ends \in Ends, Connect(f, ends)
    PROVE  TypeOK' /\ Conservation' /\ Fits' /\ Paced' /\ Gone'
<1>1. TypeOK /\ Conservation /\ Fits /\ Paced /\ Gone
  BY DEF Inv
<1>2. /\ RecordTCP(f, ends) /\ reading
      /\ UNCHANGED <<execCnt, lastJSON, snap, rep, clock, stopping, reading,
                     fed, handed, lost, store, issued>>
  BY DEF Connect, RecordTCP, historyVars, daemonVars, ghostVars
<1>3. IsTable(conns') /\ \A g \in Flows : BytesIn(conns', g) = BytesIn(conns, g)
  BY <1>1, <1>2, TableAfterTCP DEF TypeOK
<1>4. Up
  BY <1>1, <1>2 DEF TypeOK
<1>5. \A g \in Flows : Carried(g)' = Carried(g)
  BY <1>2 DEF Carried, Carrying
<1>6. TypeOK'
  BY <1>1, <1>2, <1>3 DEF TypeOK, Carrying, Up
<1>7. Conservation'
  BY <1>1, <1>2, <1>3, <1>5 DEF Conservation
<1>8. Fits' /\ Paced' /\ Gone'
  BY <1>1, <1>2, <1>4 DEF Fits, Paced, Gone, Carrying, Up
<1> QED
  BY <1>6, <1>7, <1>8

LEMMA SendStep ==
    ASSUME Inv, NEW f \in Flows, NEW ends \in Ends, NEW n \in Sizes, Send(f, ends, n)
    PROVE  TypeOK' /\ Conservation' /\ Fits' /\ Paced' /\ Gone'
<1>1. TypeOK /\ Conservation /\ Fits /\ Paced /\ Gone
  BY DEF Inv
<1>2. /\ RecordBytes(f, ends, n) /\ reading
      /\ fed[f] + n <= MaxBytes /\ fed' = [fed EXCEPT ![f] = @ + n]
      /\ UNCHANGED <<execCnt, lastJSON, snap, rep, clock, stopping, reading,
                     handed, lost, store, issued>>
  BY DEF Send, RecordBytes, historyVars, daemonVars
<1>3. n \in Nat
  BY SizesAssumption
<1>4. IsTable(conns') /\ \A g \in Flows :
         BytesIn(conns', g) = BytesIn(conns, g) + (IF g = f THEN n ELSE 0)
  BY <1>1, <1>2, <1>3, TableAfterBytes DEF TypeOK
<1>5. Up
  BY <1>1, <1>2 DEF TypeOK
<1>6. \A g \in Flows : Carried(g)' = Carried(g)
  BY <1>2 DEF Carried, Carrying
<1>7. /\ fed' \in [Flows -> Nat]
      /\ \A g \in Flows : fed'[g] = fed[g] + (IF g = f THEN n ELSE 0)
  BY <1>1, <1>2, <1>3 DEF TypeOK
<1>8. TypeOK'
  BY <1>1, <1>2, <1>4, <1>7 DEF TypeOK, Carrying, Up
<1>9. Conservation'
  <2> SUFFICES ASSUME NEW g \in Flows
               PROVE  fed'[g] = BytesIn(conns', g) + Carried(g)' + handed'[g] + lost'[g]
    BY DEF Conservation
  <2>1. fed[g] = BytesIn(conns, g) + Carried(g) + handed[g] + lost[g]
    BY <1>1 DEF Conservation
  <2>2. /\ BytesIn(conns, g) \in Nat /\ Carried(g) \in Nat
        /\ handed[g] \in Nat /\ lost[g] \in Nat /\ fed[g] \in Nat
    BY <1>1, CarriedType DEF TypeOK
  <2>3. /\ BytesIn(conns', g) = BytesIn(conns, g) + (IF g = f THEN n ELSE 0)
        /\ fed'[g] = fed[g] + (IF g = f THEN n ELSE 0)
        /\ Carried(g)' = Carried(g) /\ handed' = handed /\ lost' = lost
    BY <1>2, <1>4, <1>6, <1>7
  <2> QED
    BY <1>3, <2>1, <2>2, <2>3
<1>10. Fits' /\ Paced' /\ Gone'
  <2>1. Fits'
    BY <1>1, <1>2, <1>3, <1>7 DEF Fits, TypeOK
  <2>2. Paced' /\ Gone'
    BY <1>1, <1>2, <1>5 DEF Paced, Gone, Carrying, Up
  <2> QED
    BY <2>1, <2>2
<1> QED
  BY <1>8, <1>9, <1>10

\* The reset between two intervals: the table goes to the reporter whole.
LEMMA IntervalStep ==
    ASSUME Inv, Interval
    PROVE  TypeOK' /\ Conservation' /\ Fits' /\ Paced' /\ Gone'
<1>1. TypeOK /\ Conservation /\ Fits /\ Paced /\ Gone
  BY DEF Inv
<1>2. /\ Up /\ clock < MaxTime /\ clock' = clock + 1
      /\ rep = "waiting" /\ rep' = "publish"
      /\ snap' = TakeSnapshot(clock + 1) /\ conns' = NoConns /\ execCnt' = 0
      /\ UNCHANGED <<stopping, reading, fed, handed, lost, store, issued>>
  BY DEF Interval, Tick, historyVars, daemonVars, ghostVars
<1>3. snap'.timestamp = clock + 1 /\ snap'.flows = conns
  BY <1>2 DEF TakeSnapshot
<1>4. clock \in Nat /\ clock >= 1 /\ clock' \in 1..MaxTime /\ clock' \in 1..clock'
  BY <1>1, <1>2, BoundsAssumption DEF TypeOK
<1>5. TypeOK'
  BY <1>1, <1>2, <1>3, <1>4, NoConnsType DEF TypeOK, Carrying, Up
<1>6. Conservation'
  <2> SUFFICES ASSUME NEW f \in Flows
               PROVE  fed'[f] = BytesIn(conns', f) + Carried(f)' + handed'[f] + lost'[f]
    BY DEF Conservation
  <2>1. fed[f] = BytesIn(conns, f) + Carried(f) + handed[f] + lost[f]
    BY <1>1 DEF Conservation
  <2>2. Carried(f) = 0 /\ BytesIn(conns', f) = 0 /\ Carried(f)' = BytesIn(conns, f)
    BY <1>2, <1>3, NoConnsType DEF Carried, Carrying
  <2>3. BytesIn(conns, f) \in Nat /\ handed[f] \in Nat /\ lost[f] \in Nat
    BY <1>1, CarriedType DEF TypeOK
  <2> QED
    BY <1>2, <2>1, <2>2, <2>3
<1>7. Paced'
  <2>1. \A q \in issued : q.timestamp \in Nat
    <3>1. \A q \in issued : q \in Records
      BY DEF Inv, HistoryTypeOK
    <3> QED
      BY <3>1, RecordsAssumption, TimesAssumption
  <2>2. \A q \in issued : q.timestamp <= clock
    BY <1>1 DEF Paced
  <2>3. store # NoStore => store.since <= clock /\ store.since \in Nat
    BY <1>1 DEF Paced, Inv, HistoryTypeOK
  <2> QED
    BY <1>2, <1>3, <1>4, <2>1, <2>2, <2>3 DEF Paced, Carrying, Up
<1>8. Fits' /\ Gone'
  BY <1>1, <1>2 DEF Fits, Gone
<1> QED
  BY <1>5, <1>6, <1>7, <1>8

LEMMA ReportStep ==
    ASSUME Inv, Report
    PROVE  TypeOK' /\ Conservation' /\ Fits' /\ Paced' /\ Gone'
<1>1. TypeOK /\ Conservation /\ Fits /\ Paced /\ Gone
  BY DEF Inv
<1>2. /\ Up /\ rep = "publish" /\ rep' = "record"
      /\ UNCHANGED <<conns, execCnt, snap, clock, stopping, reading, fed, handed,
                     lost, store, issued>>
  BY DEF Report, Publish, historyVars, daemonVars, ghostVars
<1>3. Carrying /\ Carrying'
  BY <1>2 DEF Carrying
<1>4. \A f \in Flows : Carried(f)' = Carried(f)
  BY <1>2, <1>3 DEF Carried
<1>5. TypeOK'
  BY <1>1, <1>2, <1>3 DEF TypeOK, Up
<1>6. Conservation'
  BY <1>1, <1>2, <1>4 DEF Conservation
<1>7. Fits' /\ Paced' /\ Gone'
  BY <1>1, <1>2, <1>3 DEF Fits, Paced, Gone, Up
<1> QED
  BY <1>5, <1>6, <1>7

\* The hand-over: what was carried is handed over, whatever the write did.
LEMMA HandOverStep ==
    ASSUME Inv, HandOver
    PROVE  TypeOK' /\ Conservation' /\ Fits' /\ Paced' /\ Gone'
<1> DEFINE rec == IntervalRecord(snap)
<1>1. TypeOK /\ Conservation /\ Fits /\ Paced /\ Gone
  BY DEF Inv
<1>2. /\ rep = "record" /\ rep' = "waiting"
      /\ handed' = [f \in Flows |-> handed[f] + Carried(f)]
      /\ UNCHANGED <<conns, execCnt, clock, stopping, reading, fed, lost>>
  BY DEF HandOver, Recorded, daemonVars
<1>3. /\ Up /\ store' # NoStore /\ store'.since = store.since
      /\ issued' = issued \cup {rec}
  BY CountedStore
<1>4. rec.timestamp \in 1..clock
  BY <1>2, HandedRecord
<1> HIDE DEF rec
<1>5. \A f \in Flows : /\ BytesIn(conns, f) \in Nat /\ Carried(f) \in Nat
                       /\ handed[f] \in Nat /\ lost[f] \in Nat
  BY <1>1, CarriedType DEF TypeOK
<1>6. ~Carrying' /\ \A f \in Flows : Carried(f)' = 0
  BY <1>2 DEF Carrying, Carried
<1>7. TypeOK'
  <2>1. \A f \in Flows : handed[f] + Carried(f) \in Nat
    BY <1>5
  <2>2. handed' \in [Flows -> Nat]
    BY <1>2, <2>1
  <2> QED
    BY <1>1, <1>2, <1>3, <1>6, <2>2 DEF TypeOK, Up
<1>8. Conservation'
  <2> SUFFICES ASSUME NEW f \in Flows
               PROVE  fed'[f] = BytesIn(conns', f) + Carried(f)' + handed'[f] + lost'[f]
    BY DEF Conservation
  <2>1. fed[f] = BytesIn(conns, f) + Carried(f) + handed[f] + lost[f]
    BY <1>1 DEF Conservation
  <2>2. handed'[f] = handed[f] + Carried(f)
    BY <1>2
  <2> QED
    BY <1>2, <1>5, <1>6, <2>1, <2>2
<1>9. Fits' /\ Gone'
  BY <1>1, <1>2, <1>3 DEF Fits, Gone, Up
<1>10. Paced'
  <2>1. clock \in Nat
    BY <1>1 DEF TypeOK
  <2> QED
    BY <1>1, <1>2, <1>3, <1>4, <1>6, <2>1 DEF Paced, Up
<1> QED
  BY <1>7, <1>8, <1>9, <1>10

\* The steps towards a stop move no byte.
LEMMA StopStep ==
    ASSUME Inv, Signal \/ CloseReader \/ ReporterReturns \/ UNCHANGED vars
    PROVE  TypeOK' /\ Conservation' /\ Fits' /\ Paced' /\ Gone'
<1>1. TypeOK /\ Conservation /\ Fits /\ Paced /\ Gone
  BY DEF Inv
<1>2. /\ UNCHANGED <<conns, execCnt, snap, clock, fed, handed, lost, store, issued>>
      /\ \/ rep' = rep
         \/ rep = "waiting" /\ rep' = "stopped" /\ Up
      /\ \/ UNCHANGED <<stopping, reading>>
         \/ Up /\ stopping' = TRUE /\ reading' = reading
         \/ stopping /\ stopping' = stopping /\ reading' = FALSE
  BY DEF Signal, CloseReader, ReporterReturns, StopReporter, vars, statsVars,
         historyVars, daemonVars, ghostVars
<1>3. (Carrying <=> Carrying') /\ \A f \in Flows : Carried(f)' = Carried(f)
  BY <1>2 DEF Carrying, Carried
<1>4. TypeOK'
  <2>1. HeldOK'
    BY <1>1, <1>2, <1>3 DEF TypeOK, HeldOK, Up
  <2>2. GhostsTyped'
    BY <1>1, <1>2 DEF TypeOK, GhostsTyped
  <2> QED
    BY <2>1, <2>2 DEF TypeOK, HeldOK, GhostsTyped
<1>5. Conservation'
  BY <1>1, <1>2, <1>3 DEF Conservation
<1>6. Fits' /\ Paced' /\ Gone'
  BY <1>1, <1>2, <1>3 DEF Fits, Paced, Gone, Up
<1> QED
  BY <1>4, <1>5, <1>6

LEMMA InvStep ==
    ASSUME Inv, [Next]_vars
    PROVE  Inv'
<1> DEFINE Own == TypeOK /\ Conservation /\ Fits /\ Paced /\ Gone
<1>1. ASSUME NEW f \in Flows, NEW ends \in Ends, Connect(f, ends) PROVE Own'
  BY <1>1, ConnectStep
<1>2. ASSUME NEW f \in Flows, NEW ends \in Ends, NEW n \in Sizes, Send(f, ends, n)
      PROVE  Own'
  BY <1>2, SendStep
<1>3. ASSUME Boot \/ Interval \/ Report \/ HandOver \/ KillInRecord
      PROVE  Own'
  BY <1>3, BootStep, IntervalStep, ReportStep, HandOverStep, KillInRecordStep
<1>4. ASSUME Exit \/ Kill \/ HostDies
      PROVE  Own'
  BY <1>4, EndStep
<1>5. ASSUME Signal \/ CloseReader \/ ReporterReturns \/ UNCHANGED vars
      PROVE  Own'
  BY <1>5, StopStep
<1>6. HistoryTypeOK' /\ ReplayIsHonest'
  BY HistoryStep
<1>7. Own'
  <2> HIDE DEF Own
  <2> QED
    BY <1>1, <1>2, <1>3, <1>4, <1>5 DEF Next
<1> QED
  BY <1>6, <1>7 DEF Inv

LEMMA InvInit == Init => Inv
<1> SUFFICES ASSUME Init PROVE Inv
  OBVIOUS
<1>1. /\ conns = NoConns /\ execCnt = 0 /\ rep = "waiting" /\ clock = 1
      /\ stopping = FALSE /\ reading = FALSE /\ store = NoStore /\ issued = {}
      /\ fed = [f \in Flows |-> 0] /\ handed = [f \in Flows |-> 0]
      /\ lost = [f \in Flows |-> 0]
  BY DEF Init, StatsInit, HistoryInit
<1>2. HeldOK
  BY <1>1, NoConnsType DEF HeldOK, Carrying
<1>3. GhostsTyped
  <2>1. clock \in 1..MaxTime
    BY <1>1, BoundsAssumption
  <2>2. fed \in [Flows -> Nat] /\ handed \in [Flows -> Nat] /\ lost \in [Flows -> Nat]
    BY <1>1
  <2> QED
    BY <1>1, <2>1, <2>2 DEF GhostsTyped
<1>4. TypeOK
  BY <1>2, <1>3, TypeIs
<1>5. Conservation
  BY <1>1, NoConnsType DEF Conservation, Carried, Carrying
<1>6. Fits /\ Paced /\ Gone
  BY <1>1, BoundsAssumption DEF Fits, Paced, Gone, Carrying
<1>7. HistoryTypeOK
  BY HistoryTypeInit DEF Init
<1>8. ReplayIsHonest
  BY HonestInit DEF Init
<1> QED
  BY <1>4, <1>5, <1>6, <1>7, <1>8 DEF Inv

LEMMA Invariance == Spec => []Inv
BY InvInit, InvStep, PTL DEF Spec

-----------------------------------------------------------------------------
(* What the pipeline promises. *)

\* The clock, the table, the reporter's stage and the process fit together: a
\* reader, a signal or a snapshot in hand there is only while a process is up.
THEOREM TypeCorrect == Spec => []TypeOK
<1>1. Inv => TypeOK
  BY DEF Inv
<1> QED
  BY <1>1, Invariance, PTL

\* No byte that was read is dropped or counted twice by the reset between
\* intervals and the hand-over outside the lock (stats.go:152-175,196-208),
\* whenever the process stops, is killed, or its host crashes.
THEOREM ConservationCorrect == Spec => []Conservation
<1>1. Inv => Conservation
  BY DEF Inv
<1> QED
  BY <1>1, Invariance, PTL

\* The pipeline is a user of the history as History takes its users to be: one
\* process at a time, records later than all before.  What is proved of History
\* holds of the daemon.
THEOREM HistoryRefinement == Spec => ImplementsHistory
<1>1. Init => HistoryInit
  BY DEF Init
<1>2. Inv /\ [Next]_vars => [HistoryNext]_historyVars
  BY RefinesStep
<1> QED
  BY <1>1, <1>2, Invariance, PTL DEF Spec, ImplementsHistory, HistorySpec

\* So the history of the running pipeline is a durable log, until the first
\* fault the summary of everything handed over.
THEOREM PipelineIsDurable == Spec => ImplementsDurableLog
BY HistoryRefinement, DurableRefinement DEF ImplementsHistory

-----------------------------------------------------------------------------
(* The totals across restarts. *)

\* A record adds to the totals, read from the file or counted.
LEMMA TotalsAfter ==
    ASSUME NEW h \in Stores, NEW rec \in Records
    PROVE  /\ Absorb(h, rec).bytes   = h.bytes + rec.bytes
           /\ Absorb(h, rec).crossAZ = h.crossAZ + rec.crossAZ
           /\ Absorb(h, rec).cost    = h.cost + rec.cost
           /\ ReplayLine(h, rec).bytes   = h.bytes + rec.bytes
           /\ ReplayLine(h, rec).crossAZ = h.crossAZ + rec.crossAZ
           /\ ReplayLine(h, rec).cost    = h.cost + rec.cost
<1> DEFINE k == [h EXCEPT !.since = IF @ = NoTime THEN rec.timestamp ELSE @]
<1>1. rec # Malformed /\ rec.timestamp \in Nat
  BY RecordsAssumption, TimesAssumption
<1>2. k \in Stores /\ k.bytes = h.bytes /\ k.crossAZ = h.crossAZ /\ k.cost = h.cost
  BY <1>1 DEF Stores
<1>3. ReplayLine(h, rec) = Absorb(k, rec)
  BY <1>1 DEF ReplayLine
<1> HIDE DEF k
<1>4. \A g \in Stores : /\ Absorb(g, rec).bytes   = g.bytes + rec.bytes
                        /\ Absorb(g, rec).crossAZ = g.crossAZ + rec.crossAZ
                        /\ Absorb(g, rec).cost    = g.cost + rec.cost
  BY DEF Absorb, Stores
<1> QED
  BY <1>2, <1>3, <1>4

\* The strengthening of RestoredTotals that is inductive: as long as no write
\* failed, the file is all records, and their totals what was handed over.
DiskTotals ==
    LET disk == Replay(lines)
    IN  /\ disk.bytes = SumFunction(handed)
        /\ disk.crossAZ <= disk.bytes
        /\ disk.cost = CostPerGB * disk.crossAZ

StoreTotals ==
    Up /\ cuts = 0 => /\ store.bytes   = Replay(lines).bytes
                      /\ store.crossAZ = Replay(lines).crossAZ
                      /\ store.cost    = Replay(lines).cost

Restored == faults = 0 => tail = NoTail /\ DiskTotals /\ StoreTotals

LEMMA DiskType ==
    ASSUME HistoryTypeOK
    PROVE  lines \in Seq(Lines) /\ Replay(lines) \in Stores
<1>1. lines \in Seq(Lines)
  BY DEF HistoryTypeOK, Lines
<1> QED
  BY <1>1, ReplayType DEF GoodStore

\* An interval that is handed over and written adds to the file, the store and
\* the flows alike.
LEMMA RecordedTotals ==
    ASSUME Inv, HandOver, Record(IntervalRecord(snap)),
           tail = NoTail, DiskTotals, StoreTotals
    PROVE  tail' = NoTail /\ DiskTotals' /\ StoreTotals'
<1> DEFINE rec  == IntervalRecord(snap)
           disk == Replay(lines)
           carry == InTable(snap.flows)
<1>1. rep = "record" /\ Up /\ store \in Stores /\ store' = Absorb(store, rec)
  BY CountedStore
<1>2. /\ rec \in Records /\ IsTable(snap.flows)
      /\ snap.timestamp \in 1..MaxTime
  BY <1>1, HandedRecord, LaterType, BoundsAssumption DEF Inv, TypeOK
<1>3. /\ rec.bytes = SumFunctionOnSet(carry, Flows)
      /\ rec.bytes \in Nat /\ rec.crossAZ \in Nat /\ rec.crossAZ <= rec.bytes
      /\ rec.cost = CostPerGB * rec.crossAZ
  <2>1. \A f \in Flows : BytesIn(snap.flows, f) <= MaxBytes
    BY <1>1, SnapshotFits DEF Inv, Carrying
  <2> QED
    BY <1>2, <2>1, IntervalRecordIs
<1>4. lines \in Seq(Lines) /\ disk \in Stores
  BY DiskType DEF Inv
<1>5. lines' = Append(lines, rec) /\ tail' = NoTail /\ cuts' = cuts
  BY DEF Record, AppendLine
<1>6. Replay(lines)' = ReplayLine(disk, rec)
  <2>1. rec \in Lines
    BY <1>2 DEF Lines
  <2>2. Replay(Append(lines, rec)) = ReplayLine(disk, rec)
    BY <1>4, <2>1, ReplayAppend
  <2> HIDE DEF rec, disk
  <2> QED
    BY <1>5, <2>2
<1>7. SumFunction(handed') = SumFunction(handed) + rec.bytes
  <2>1. /\ handed \in [Flows -> Nat]
        /\ handed' = [f \in Flows |-> handed[f] + Carried(f)]
    BY DEF Inv, TypeOK, HandOver
  <2>2. \A f \in Flows : carry[f] = Carried(f) /\ carry[f] \in Nat
    BY <1>1, <1>2, BytesInType DEF InTable, Carried, Carrying
  <2>3. \A f \in Flows : /\ handed[f] \in Nat /\ carry[f] \in Nat
                         /\ handed'[f] = handed[f] + carry[f]
    BY <2>1, <2>2
  <2> HIDE DEF carry
  <2>4. SumFunctionOnSet(handed', Flows) =
          SumFunctionOnSet(handed, Flows) + SumFunctionOnSet(carry, Flows)
    BY <2>3, SumPlus, FlowsAssumption
  <2>5. DOMAIN handed = Flows /\ DOMAIN handed' = Flows
    BY <2>1
  <2> QED
    BY <1>3, <2>4, <2>5 DEF SumFunction
<1> HIDE DEF rec, carry
<1>8. /\ Replay(lines)'.bytes   = disk.bytes + rec.bytes
      /\ Replay(lines)'.crossAZ = disk.crossAZ + rec.crossAZ
      /\ Replay(lines)'.cost    = disk.cost + rec.cost
  BY <1>2, <1>4, <1>6, TotalsAfter
<1>9. /\ store'.bytes   = store.bytes + rec.bytes
      /\ store'.crossAZ = store.crossAZ + rec.crossAZ
      /\ store'.cost    = store.cost + rec.cost
  BY <1>1, <1>2, TotalsAfter
<1>10. DiskTotals'
  <2>1. /\ disk.bytes \in Nat /\ disk.crossAZ \in Nat /\ disk.cost \in Nat
        /\ disk.bytes = SumFunction(handed) /\ disk.crossAZ <= disk.bytes
        /\ disk.cost = CostPerGB * disk.crossAZ
    BY <1>4 DEF DiskTotals, Stores
  <2> HIDE DEF disk
  <2>2. \A a, b \in Nat : CostPerGB * a + CostPerGB * b = CostPerGB * (a + b)
    BY CostPerGBAssumption
  <2>3. disk.cost + rec.cost = CostPerGB * (disk.crossAZ + rec.crossAZ)
    BY <1>3, <2>1, <2>2
  <2>4. disk.crossAZ + rec.crossAZ <= disk.bytes + rec.bytes
    BY <1>3, <2>1
  <2> QED
    BY <1>7, <1>8, <2>1, <2>3, <2>4 DEF DiskTotals
<1>11. StoreTotals'
  BY <1>1, <1>5, <1>8, <1>9 DEF StoreTotals
<1> QED
  BY <1>5, <1>10, <1>11

\* A start reads the totals back.
LEMMA BootTotals ==
    ASSUME Inv, Boot, Restored
    PROVE  Restored'
<1>1. /\ lines' = lines /\ tail' = tail /\ handed' = handed /\ faults' = faults
      /\ \/ cuts' = cuts /\ Restore(ScannedLines, clock)
         \/ cuts' = cuts + 1
  BY DEF Boot, NewHistoryStore, NewHistoryStoreCut, fileVars, ghostVars
<1>2. SUFFICES ASSUME faults = 0, tail = NoTail, DiskTotals
               PROVE  StoreTotals'
  BY <1>1 DEF Restored, DiskTotals
<1>3. cuts \in Nat
  BY DEF Inv, HistoryTypeOK
<1>4. SUFFICES ASSUME Restore(ScannedLines, clock)
               PROVE  StoreTotals'
  BY <1>1, <1>3 DEF StoreTotals
<1> DEFINE disk == Replay(lines)
<1>5. disk \in Stores
  BY DiskType DEF Inv
<1>6. store' = [disk EXCEPT !.since = IF @ = NoTime THEN clock ELSE @]
  BY <1>2, <1>4 DEF Restore, ScannedLines
<1>7. Replay(lines)' = disk
  BY <1>1
<1> HIDE DEF disk
<1>8. /\ store'.bytes = disk.bytes /\ store'.crossAZ = disk.crossAZ
      /\ store'.cost = disk.cost
  BY <1>5, <1>6 DEF Stores
<1> QED
  BY <1>7, <1>8 DEF StoreTotals

LEMMA RestoredStep ==
    ASSUME Inv, Restored, [Next]_vars
    PROVE  Restored'
<1>0. faults \in Nat
  BY DEF Inv, HistoryTypeOK
<1>00. ASSUME Fault PROVE Restored'
  BY <1>0, <1>00 DEF Fault, Restored
<1>01. ASSUME UNCHANGED <<lines, tail, store, faults, cuts, handed>> PROVE Restored'
  BY <1>01 DEF Restored, DiskTotals, StoreTotals, Up
<1>02. ASSUME UNCHANGED <<lines, tail, faults, cuts, handed>>, store' = NoStore
       PROVE  Restored'
  BY <1>02 DEF Restored, DiskTotals, StoreTotals, Up
<1>1. CASE Boot
  BY <1>1, BootTotals
<1>2. ASSUME NEW f \in Flows, NEW ends \in Ends, Connect(f, ends) PROVE Restored'
  BY <1>2, <1>01 DEF Connect, historyVars, ghostVars
<1>3. ASSUME NEW f \in Flows, NEW ends \in Ends, NEW n \in Sizes, Send(f, ends, n)
      PROVE  Restored'
  BY <1>3, <1>01 DEF Send, historyVars
<1>4. CASE HandOver
  <2> DEFINE rec == IntervalRecord(snap)
  <2>1. Record(rec) \/ RecordUnwritten(rec) \/ RecordShort(rec)
    BY <1>4 DEF HandOver
  <2>2. CASE Record(rec)
    <3>1. faults' = faults
      BY <2>2 DEF Record
    <3> QED
      BY <1>4, <2>2, <3>1, RecordedTotals DEF Restored
  <2>3. CASE RecordUnwritten(rec) \/ RecordShort(rec)
    BY <1>00, <2>3 DEF RecordUnwritten, RecordShort
  <2> QED
    BY <2>1, <2>2, <2>3
<1>5. CASE KillInRecord
  BY <1>00, <1>5 DEF KillInRecord, CrashInRecord
<1>6. CASE Exit \/ Kill
  BY <1>6, <1>02 DEF Exit, Kill, Crash, Forget, fileVars
<1>7. CASE HostDies
  <2>1. CASE tail # NoTail /\ faults' = faults
    BY <2>1 DEF Restored
  <2>2. \/ tail # NoTail /\ faults' = faults
        \/ Fault
    BY <1>7 DEF HostDies, HostCrash
  <2> QED
    BY <1>00, <2>1, <2>2
<1>8. CASE Interval \/ Report \/ Signal \/ CloseReader \/ ReporterReturns
  BY <1>8, <1>01
  DEF Interval, Report, Signal, CloseReader, ReporterReturns, historyVars, ghostVars
<1>9. CASE UNCHANGED vars
  BY <1>9, <1>01 DEF vars, historyVars, ghostVars
<1> QED
  BY <1>1, <1>2, <1>3, <1>4, <1>5, <1>6, <1>7, <1>8, <1>9 DEF Next

LEMMA RestoredInit == Init => Restored
<1> SUFFICES ASSUME Init PROVE Restored
  OBVIOUS
<1>1. /\ lines = <<>> /\ tail = NoTail /\ store = NoStore
      /\ handed = [f \in Flows |-> 0]
  BY DEF Init, HistoryInit
<1>2. Replay(lines) = EmptyStore
  BY <1>1, ReplayEmpty
<1>3. SumFunction(handed) = 0
  <2> DEFINE E == {}
  <2>1. \A f \in Flows : handed[f] \in Nat /\ handed[f] = 0
    BY <1>1
  <2>2. SumFunctionOnSet(handed, Flows) = SumFunctionOnSet(handed, {})
    BY <2>1, SumSubset, FlowsAssumption
  <2>3. DOMAIN handed = Flows
    BY <1>1
  <2> QED
    BY <2>2, <2>3, SumEmpty DEF SumFunction
<1>4. DiskTotals
  <2>1. EmptyStore.bytes = 0 /\ EmptyStore.crossAZ = 0 /\ EmptyStore.cost = 0
    BY DEF EmptyStore
  <2>2. CostPerGB * 0 = 0
    BY CostPerGBAssumption
  <2> QED
    BY <1>2, <1>3, <2>1, <2>2 DEF DiskTotals
<1>5. StoreTotals
  BY <1>1 DEF StoreTotals, Up
<1> QED
  BY <1>1, <1>4, <1>5 DEF Restored

\* As long as no write failed and no host lost one, what a start would restore
\* from the file is what the flows were handed over with, and its cost is what
\* crossed zones at the configured rate (stats.go:104-119, history.go:68-84): the
\* cumulative totals neither lose an interval at a restart nor count one twice.
THEOREM RestoredTotalsCorrect == Spec => []RestoredTotals
<1>1. Restored => RestoredTotals
  BY DEF Restored, DiskTotals, StoreTotals, RestoredTotals, ScannedLines
<1> QED
  BY <1>1, RestoredInit, RestoredStep, Invariance, PTL DEF Spec
=============================================================================
