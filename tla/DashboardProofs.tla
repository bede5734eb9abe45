-------------------------- MODULE DashboardProofs --------------------------
(***************************************************************************)
(* Proofs about Dashboard: the steps of the daemon under it keep what is   *)
(* proved of Accounting, and the two answers fit together.                 *)
(***************************************************************************)
EXTENDS Dashboard, AccountingProofs

(* The newest record of a ring. *)

\* A record that is pushed is the newest.
LEMMA PushedIsLast ==
    ASSUME NEW ring \in Seq(Records), NEW rec \in Records
    PROVE  /\ Push(ring, rec) \in Seq(Records) /\ Push(ring, rec) # <<>>
           /\ Last(Push(ring, rec)) = rec
           /\ InSeq(Push(ring, rec)) \subseteq InSeq(ring) \cup {rec}
<1> DEFINE grown == Append(ring, rec)
           n == Len(ring)
<1>1. /\ grown \in Seq(Records) /\ Len(grown) = n + 1 /\ n \in Nat
      /\ grown[n + 1] = rec /\ grown # <<>>
  BY AppendProperties, LenProperties
<1>2. InSeq(grown) \subseteq InSeq(ring) \cup {rec}
  BY InSeqAppend
<1>3. RingCap \in Nat /\ RingCap >= 1
  BY RingCapAssumption
<1> HIDE DEF grown, n
<1>4. CASE Len(grown) > RingCap
  <2> DEFINE new == Tail(grown)
  <2>1. /\ new \in Seq(Records) /\ Len(new) = Len(grown) - 1
        /\ \A i \in 1..Len(new) : new[i] = grown[i + 1]
    BY <1>1, HeadTailProperties
  <2>2. Push(ring, rec) = new
    BY <1>4 DEF Push, grown
  <2> HIDE DEF new
  <2>3. Len(new) = n /\ n >= 1
    BY <1>1, <1>3, <1>4, <2>1
  <2>4. n \in 1..Len(new) /\ Last(new) = rec
    BY <1>1, <2>1, <2>3 DEF Last
  <2>5. new # <<>>
    BY <1>1, <2>3, EmptySeq
  <2>6. InSeq(new) \subseteq InSeq(grown)
    <3>1. DOMAIN new = 1..n /\ DOMAIN grown = 1..n + 1
      BY <1>1, <2>1, <2>3, LenProperties
    <3>2. \A i \in 1..n : i + 1 \in 1..n + 1
      BY <1>1
    <3> QED
      BY <2>1, <2>3, <3>1, <3>2 DEF InSeq
  <2> QED
    BY <1>2, <2>1, <2>2, <2>4, <2>5, <2>6
<1>5. CASE ~(Len(grown) > RingCap)
  <2>1. Push(ring, rec) = grown
    BY <1>5 DEF Push, grown
  <2> QED
    BY <1>1, <1>2, <2>1 DEF Last
<1> QED
  BY <1>4, <1>5

\* The ring that the replay loop leaves is filled from the lines read.
LEMMA ReplayRing ==
    ASSUME NEW ls \in Seq(Lines)
    PROVE  InSeq(Replay(ls).ring) \subseteq RecordsOf(ls)
<1> DEFINE T == {s \in Seq(Lines) : InSeq(Replay(s).ring) \subseteq RecordsOf(s)}
<1>1. <<>> \in T
  <2>1. Replay(<<>>).ring = <<>>
    BY ReplayEmpty DEF EmptyStore
  <2> QED
    BY <2>1, EmptySeq DEF InSeq
<1>2. ASSUME NEW s \in T, NEW e \in Lines
      PROVE  Append(s, e) \in T
  <2> DEFINE h == Replay(s)
             t == Append(s, e)
  <2>1. /\ t \in Seq(Lines) /\ s \in Seq(Lines)
        /\ RecordsOf(t) = RecordsOf(s) \cup ({e} \ {Malformed})
        /\ Replay(t) = ReplayLine(h, e) /\ h \in Stores
        /\ InSeq(h.ring) \subseteq RecordsOf(s)
    BY AppendProperties, RecordsOfAppend, ReplayAppend, ReplayType DEF GoodStore
  <2> HIDE DEF h, t
  <2>2. CASE e = Malformed
    BY <2>1, <2>2 DEF ReplayLine, t
  <2>3. CASE e # Malformed
    <3> DEFINE k == [h EXCEPT !.since = IF @ = NoTime THEN e.timestamp ELSE @]
    <3>1. e \in Records
      BY <2>3 DEF Lines
    <3>2. e.timestamp \in Nat
      BY <3>1, RecordsAssumption, TimesAssumption
    <3>3. k \in Stores /\ k.ring = h.ring
      BY <2>1, <3>2 DEF Stores
    <3>4. Replay(t) = Absorb(k, e)
      BY <2>1, <2>3 DEF ReplayLine
    <3> HIDE DEF k
    <3>5. Replay(t).ring = Push(h.ring, e)
      BY <3>3, <3>4 DEF Absorb, Stores
    <3> DEFINE r == h.ring
    <3>6. r \in Seq(Records)
      BY <2>1 DEF Stores
    <3>7. Replay(t).ring = Push(r, e) /\ InSeq(r) \subseteq RecordsOf(s)
      BY <2>1, <3>5
    <3> HIDE DEF r
    <3>8. InSeq(Push(r, e)) \subseteq InSeq(r) \cup {e}
      BY <3>1, <3>6, PushedIsLast
    <3> QED
      BY <2>1, <2>3, <3>7, <3>8 DEF t
  <2> QED
    BY <2>2, <2>3
<1> HIDE DEF T
<1>3. T \in SUBSET Seq(Lines)
  BY DEF T
<1>4. T = Seq(Lines)
  BY <1>1, <1>2, <1>3, SeqSetInduction
<1> QED
  BY <1>4 DEF T

-----------------------------------------------------------------------------
(* The daemon under the page. *)

\* A process that is up serves the newest snapshot published: the one that is
\* being recorded, or the newest in the ring.
Newest ==
    /\ store # NoStore => InSeq(store.ring) \subseteq issued
    /\ Carrying => snap # NoSnapshot
    /\ rep = "record" => lastJSON = snap
    /\ (Up /\ rep # "record" /\ lastJSON # NoSnapshot)
         => store.ring # <<>> /\ Last(store.ring) = IntervalRecord(lastJSON)

LEMMA SnapshotIsNone ==
    ASSUME IsTable(conns), execCnt \in Nat, NEW now \in Nat
    PROVE  TakeSnapshot(now) # NoSnapshot
<1> DEFINE Tables == UNION {[D -> ConnStat] : D \in SUBSET Flows}
           Snaps == [timestamp : Nat, execs : Nat, flows : Tables]
<1>1. conns \in Tables
  BY DEF IsTable
<1>2. NoSnapshot \notin Snaps
  BY NoSnapshotAssumption
<1> HIDE DEF Tables
<1>3. TakeSnapshot(now) \in Snaps
  BY <1>1 DEF TakeSnapshot
<1> HIDE DEF Snaps
<1> QED
  BY <1>2, <1>3

LEMMA BootedRing ==
    ASSUME Inv, Boot
    PROVE  InSeq(store'.ring) \subseteq issued
<1>1. /\ ScannedLines \in Seq(Lines) /\ InOrder(ScannedLines)
      /\ RecordsOf(ScannedLines) \subseteq issued
  BY ScannedLinesType, HonestIs DEF Inv
<1>2. ASSUME NEW ls \in Seq(Lines), RecordsOf(ls) \subseteq issued,
             Restore(ls, clock)
      PROVE  InSeq(store'.ring) \subseteq issued
  <2> DEFINE h == Replay(ls)
  <2>1. h \in Stores /\ InSeq(h.ring) \subseteq issued
    BY <1>2, ReplayType, ReplayRing DEF GoodStore
  <2>2. store' = [h EXCEPT !.since = IF @ = NoTime THEN clock ELSE @]
    BY <1>2 DEF Restore
  <2> HIDE DEF h
  <2>3. store'.ring = h.ring
    BY <2>1, <2>2 DEF Stores
  <2> QED
    BY <2>1, <2>3
<1>3. CASE NewHistoryStore(clock)
  BY <1>1, <1>2, <1>3 DEF NewHistoryStore
<1>4. CASE NewHistoryStoreCut(clock)
  <2>1. PICK n \in 0..Len(ScannedLines) - 1 :
          Restore(SubSeq(ScannedLines, 1, n), clock)
    BY <1>4 DEF NewHistoryStoreCut
  <2> DEFINE p == SubSeq(ScannedLines, 1, n)
  <2>2. n \in 0..Len(ScannedLines)
    BY <1>1, LenProperties
  <2>3. p \in Seq(Lines) /\ RecordsOf(p) \subseteq RecordsOf(ScannedLines)
    BY <1>1, <2>2, RecordsOfPrefix
  <2> HIDE DEF p
  <2> QED
    BY <1>1, <1>2, <2>1, <2>3 DEF p
<1> QED
  BY <1>3, <1>4 DEF Boot

\* What each step of the daemon does to what is served.
LEMMA NewestStep ==
    ASSUME Inv, Newest, DaemonStep \/ UNCHANGED vars
    PROVE  Newest'
<1>1. CASE Boot
  <2>1. rep' = "waiting" /\ lastJSON' = NoSnapshot /\ store' # NoStore /\ issued' = issued
    BY <1>1, BootedStore DEF Boot, NewStats
  <2>2. InSeq(store'.ring) \subseteq issued
    BY <1>1, BootedRing
  <2> QED
    BY <2>1, <2>2 DEF Newest, Carrying
<1>2. ASSUME NEW f \in Flows, NEW ends \in Ends, NEW n \in Sizes, Send(f, ends, n)
      PROVE  Newest'
  BY <1>2 DEF Send, RecordBytes, historyVars, Newest, Carrying, Up
<1>3. CASE Interval
  <2>1. /\ rep = "waiting" /\ rep' = "publish" /\ snap' = TakeSnapshot(clock + 1)
        /\ UNCHANGED <<lastJSON, store, issued>> /\ Up
    BY <1>3 DEF Interval, Tick, historyVars
  <2>2. clock + 1 \in Nat /\ IsTable(conns) /\ execCnt \in Nat
    BY DEF Inv, TypeOK
  <2>3. snap' # NoSnapshot
    BY <2>1, <2>2, SnapshotIsNone
  <2> QED
    BY <2>1, <2>3 DEF Newest, Carrying, Up
<1>4. CASE Report
  <2>1. /\ rep = "publish" /\ rep' = "record" /\ lastJSON' = snap
        /\ UNCHANGED <<snap, store, issued>>
    BY <1>4 DEF Report, Publish, historyVars
  <2> QED
    BY <2>1 DEF Newest, Carrying, Up
<1>5. CASE HandOver
  <2> DEFINE rec == IntervalRecord(snap)
             r == store.ring
  <2>1. /\ rep = "record" /\ Up /\ store \in Stores
        /\ store' = Absorb(store, rec) /\ issued' = issued \cup {rec}
    BY <1>5, CountedStore
  <2>2. rec \in Records
    BY <2>1, HandedRecord, LaterType
  <2>3. rep' = "waiting" /\ lastJSON' = lastJSON /\ lastJSON = snap
    BY <1>5, <2>1 DEF HandOver, Recorded, Newest
  <2>4. r \in Seq(Records) /\ InSeq(r) \subseteq issued
    BY <2>1 DEF Stores, Newest, Up
  <2>5. IntervalRecord(lastJSON)' = rec
    BY <2>3 DEF IntervalRecord, TotalBytes, Crossing, CrossAZ, CostUSD
  <2> HIDE DEF rec
  <2>6. store'.ring = Push(r, rec)
    BY <2>1 DEF Absorb, Stores
  <2> HIDE DEF r
  <2>7. store'.ring # <<>> /\ Last(store'.ring) = rec
        /\ InSeq(store'.ring) \subseteq InSeq(r) \cup {rec}
    BY <2>2, <2>4, <2>6, PushedIsLast
  <2> QED
    BY <2>1, <2>3, <2>4, <2>5, <2>7 DEF Newest, Carrying
<1>6. CASE Exit \/ Kill \/ KillInRecord
  <2>1. store' = NoStore /\ rep' = "waiting"
    BY <1>6 DEF Exit, Kill, KillInRecord, Crash, CrashInRecord, Forget, ProcessEnds, NewStats
  <2> QED
    BY <2>1 DEF Newest, Carrying, Up
<1>7. CASE Signal \/ CloseReader
  BY <1>7 DEF Signal, CloseReader, statsVars, historyVars, Newest, Carrying, Up
<1>8. CASE ReporterReturns
  <2>1. /\ rep = "waiting" /\ rep' = "stopped"
        /\ UNCHANGED <<lastJSON, store, issued>>
    BY <1>8 DEF ReporterReturns, StopReporter, historyVars
  <2> QED
    BY <2>1 DEF Newest, Carrying, Up
<1>9. CASE UNCHANGED vars
  BY <1>9 DEF vars, statsVars, historyVars, Newest, Carrying, Up
<1> QED
  BY <1>1, <1>2, <1>3, <1>4, <1>5, <1>6, <1>7, <1>8, <1>9 DEF DaemonStep

-----------------------------------------------------------------------------
(* What the answers can say.  Time and totals of an answer are past: whatever *)
(* is answered later is no older, whoever restarts in between.                *)

Answers == [timestamp : Times \cup {NoTime}, bytes : Nat, crossAZ : Nat, cost : Nat]

\* The timestamps that nothing still to be served is before.
PastTimes ==
    {t \in Nat : /\ t <= clock
                 /\ Carrying => t <= snap.timestamp
                 /\ lastJSON # NoSnapshot => t <= lastJSON.timestamp}

\* The histories whose totals are no more than those in the file, as long as
\* no write failed and all could be read.
PastTotals ==
    {h \in Stores : /\ Len(h.ring) <= RingCap
                    /\ faults + cuts = 0 => /\ h.bytes   <= Replay(lines).bytes
                                            /\ h.crossAZ <= Replay(lines).crossAZ
                                            /\ h.cost    <= Replay(lines).cost}

LEMMA DaemonIsNext ==
    ASSUME DaemonStep \/ UNCHANGED vars
    PROVE  [Next]_vars
BY DEF DaemonStep, Next

LEMMA PastTimesGrow ==
    ASSUME Inv, DaemonStep \/ UNCHANGED vars
    PROVE  PastTimes \subseteq PastTimes'
<1>1. clock \in Nat
  BY DEF Inv, TypeOK
<1>2. CASE Boot \/ Exit \/ Kill \/ KillInRecord
  BY <1>2 DEF Boot, Exit, Kill, KillInRecord, ProcessEnds, NewStats, PastTimes, Carrying
<1>3. ASSUME NEW f \in Flows, NEW ends \in Ends, NEW n \in Sizes, Send(f, ends, n)
      PROVE  PastTimes \subseteq PastTimes'
  BY <1>3 DEF Send, RecordBytes, PastTimes, Carrying
<1>4. CASE Interval
  <2>1. /\ clock' = clock + 1 /\ snap'.timestamp = clock + 1 /\ lastJSON' = lastJSON
    BY <1>4 DEF Interval, Tick, TakeSnapshot
  <2> QED
    BY <1>1, <2>1 DEF PastTimes
<1>5. CASE Report
  <2>1. /\ rep = "publish" /\ lastJSON' = snap /\ snap' = snap /\ clock' = clock
    BY <1>5 DEF Report, Publish
  <2> QED
    BY <2>1 DEF PastTimes, Carrying
<1>6. CASE HandOver
  BY <1>6 DEF HandOver, Recorded, PastTimes, Carrying
<1>7. CASE Signal \/ CloseReader \/ UNCHANGED vars
  BY <1>7 DEF Signal, CloseReader, vars, statsVars, PastTimes, Carrying
<1>8. CASE ReporterReturns
  BY <1>8 DEF ReporterReturns, StopReporter, PastTimes, Carrying
<1> QED
  BY <1>2, <1>3, <1>4, <1>5, <1>6, <1>7, <1>8 DEF DaemonStep

\* Nothing but an interval handed over changes the file, and that adds to it.
LEMMA FileGrows ==
    ASSUME Inv, DaemonStep \/ UNCHANGED vars, faults' + cuts' = 0
    PROVE  /\ faults + cuts = 0
           /\ \/ lines' = lines
              \/ \E rec \in Records : lines' = Append(lines, rec)
                                      \/ lines' = Append(lines, Malformed)
<1>1. faults \in Nat /\ cuts \in Nat
  BY DEF Inv, HistoryTypeOK
<1>2. CASE Boot
  BY <1>1, <1>2 DEF Boot, NewHistoryStore, NewHistoryStoreCut, fileVars
<1>3. CASE HandOver
  <2> DEFINE rec == IntervalRecord(snap)
  <2>1. rec \in Records
    <3>1. rep = "record"
      BY <1>3 DEF HandOver, Recorded
    <3> QED
      BY <3>1, HandedRecord, LaterType
  <2>2. CASE Record(rec)
    <3> HIDE DEF rec
    <3>1. /\ lines' = Append(lines, rec) \/ lines' = Append(lines, Malformed)
          /\ faults' = faults /\ cuts' = cuts
      BY <2>2 DEF Record, AppendLine
    <3> QED
      BY <2>1, <3>1
  <2>3. CASE RecordUnwritten(rec) \/ RecordShort(rec)
    BY <1>1, <2>3 DEF RecordUnwritten, RecordShort, Fault
  <2> QED
    BY <1>3, <2>2, <2>3 DEF HandOver
<1>4. CASE KillInRecord
  BY <1>1, <1>4 DEF KillInRecord, CrashInRecord, Fault
<1>5. CASE Exit \/ Kill
  BY <1>5 DEF Exit, Kill, Crash, fileVars
<1>6. CASE Interval \/ Report \/ Signal \/ CloseReader \/ ReporterReturns \/ UNCHANGED vars
  BY <1>6 DEF Interval, Report, Signal, CloseReader, ReporterReturns, vars, historyVars
<1>7. ASSUME NEW f \in Flows, NEW ends \in Ends, NEW n \in Sizes, Send(f, ends, n)
      PROVE  lines' = lines /\ faults' = faults /\ cuts' = cuts
  BY <1>7 DEF Send, historyVars
<1> QED
  BY <1>2, <1>3, <1>4, <1>5, <1>6, <1>7 DEF DaemonStep

LEMMA PastTotalsGrow ==
    ASSUME Inv, DaemonStep \/ UNCHANGED vars
    PROVE  PastTotals \subseteq PastTotals'
<1>1. SUFFICES ASSUME NEW h \in PastTotals, faults' + cuts' = 0
               PROVE  /\ h.bytes   <= Replay(lines)'.bytes
                      /\ h.crossAZ <= Replay(lines)'.crossAZ
                      /\ h.cost    <= Replay(lines)'.cost
  BY DEF PastTotals
<1> DEFINE disk == Replay(lines)
<1>2. lines \in Seq(Lines) /\ disk \in Stores
  BY DiskType DEF Inv
<1>3. /\ faults + cuts = 0
      /\ \/ lines' = lines
         \/ \E rec \in Records : lines' = Append(lines, rec)
                                 \/ lines' = Append(lines, Malformed)
  BY <1>1, FileGrows
<1>4. /\ h.bytes <= disk.bytes /\ h.crossAZ <= disk.crossAZ /\ h.cost <= disk.cost
      /\ h.bytes \in Nat /\ h.crossAZ \in Nat /\ h.cost \in Nat
  BY <1>3 DEF PastTotals, Stores
<1>5. CASE lines' = lines
  BY <1>4, <1>5
<1>6. ASSUME NEW rec \in Records, lines' = Append(lines, rec)
      PROVE  /\ h.bytes   <= Replay(lines)'.bytes
             /\ h.crossAZ <= Replay(lines)'.crossAZ
             /\ h.cost    <= Replay(lines)'.cost
  <2>1. Replay(Append(lines, rec)) = ReplayLine(disk, rec)
    BY <1>2, ReplayAppend DEF Lines
  <2> HIDE DEF disk
  <2>2. Replay(lines)' = ReplayLine(disk, rec)
    BY <1>6, <2>1
  <2>3. rec.bytes \in Nat /\ rec.crossAZ \in Nat /\ rec.cost \in Nat
    BY RecordsAssumption
  <2>4. disk.bytes \in Nat /\ disk.crossAZ \in Nat /\ disk.cost \in Nat
    BY <1>2 DEF Stores
  <2>5. /\ Replay(lines)'.bytes   = disk.bytes + rec.bytes
        /\ Replay(lines)'.crossAZ = disk.crossAZ + rec.crossAZ
        /\ Replay(lines)'.cost    = disk.cost + rec.cost
    BY <1>2, <2>2, TotalsAfter
  <2> QED
    BY <1>4, <2>3, <2>4, <2>5
<1>7. CASE lines' = Append(lines, Malformed)
  <2>1. Replay(Append(lines, Malformed)) = ReplayLine(disk, Malformed)
    BY <1>2, ReplayAppend DEF Lines
  <2>2. Replay(lines)' = disk
    BY <1>7, <2>1 DEF ReplayLine
  <2> QED
    BY <1>4, <2>2
<1> QED
  BY <1>3, <1>5, <1>6, <1>7

-----------------------------------------------------------------------------
(* The answers. *)

\* What a request holds: answers that are whole, and past.
Seen == [snap : {s \in Answers : s.timestamp \in PastTimes} \cup {NoAnswer},
         hist : PastTotals \cup {NoAnswer}]

LEMMA SeenGrows ==
    ASSUME Inv, DaemonStep \/ UNCHANGED vars
    PROVE  Seen \subseteq Seen'
<1>1. PastTimes \subseteq PastTimes' /\ PastTotals \subseteq PastTotals'
  BY PastTimesGrow, PastTotalsGrow
<1> QED
  BY <1>1 DEF Seen, Answers

\* The newest snapshot is answered whole, and none answered before is newer.
LEMMA AnsweredSnapshot ==
    ASSUME Inv, Newest, Up
    PROVE  /\ LatestJSON \in Answers /\ LatestJSON.timestamp \in PastTimes
           /\ \/ LatestJSON.timestamp = NoTime
              \/ \A t \in PastTimes : LatestJSON.timestamp >= t
<1>1. /\ clock \in 1..MaxTime
      /\ Carrying => snap.timestamp \in 1..clock
      /\ rep \in {"waiting", "publish", "record", "stopped"}
  BY DEF Inv, TypeOK
<1>2. CASE lastJSON = NoSnapshot
  <2>1. LatestJSON = [timestamp |-> NoTime, bytes |-> 0, crossAZ |-> 0, cost |-> 0]
    BY <1>2 DEF LatestJSON
  <2>2. 0 \in PastTimes
    BY <1>1, <1>2, BoundsAssumption DEF PastTimes
  <2> QED
    <3>1. LatestJSON \in Answers
      BY <2>1 DEF Answers
    <3>2. LatestJSON.timestamp = NoTime /\ NoTime \in PastTimes
      BY <2>1, <2>2 DEF NoTime
    <3> QED
      BY <3>1, <3>2
<1>3. CASE lastJSON # NoSnapshot
  <2> DEFINE rec == IntervalRecord(lastJSON)
             t   == lastJSON.timestamp
  <2>1. LatestJSON = rec /\ rec.timestamp = t
    BY <1>3 DEF LatestJSON, IntervalRecord
  <2>2. ASSUME rep = "record" PROVE rec \in Records /\ t \in PastTimes
    <3>1. rec = IntervalRecord(snap) /\ t = snap.timestamp
      BY <2>2 DEF Newest
    <3>2. IntervalRecord(snap) \in Records
      BY <2>2, HandedRecord, LaterType
    <3>3. t \in Nat /\ t <= clock
      BY <1>1, <2>2, <3>1, BoundsAssumption DEF Carrying
    <3> QED
      BY <3>1, <3>2, <3>3 DEF PastTimes
  <2>3. ASSUME rep # "record" PROVE rec \in Records /\ t \in PastTimes
    <3> DEFINE ring == store.ring
    <3>1. ring # <<>> /\ Last(ring) = rec /\ InSeq(ring) \subseteq issued
      BY <1>3, <2>3 DEF Newest, Up
    <3>2. ring \in Seq(Records)
      BY DEF Inv, HistoryTypeOK, Up
    <3>3. Last(ring) \in InSeq(ring)
      <4>1. Len(ring) \in Nat /\ DOMAIN ring = 1..Len(ring)
        BY <3>2, LenProperties
      <4>2. Len(ring) # 0
        BY <3>1, <3>2, EmptySeq
      <4> QED
        BY <4>1, <4>2 DEF Last, InSeq
    <3> HIDE DEF ring, rec, t
    <3>4. rec \in issued /\ rec \in Records
      BY <3>1, <3>3 DEF Inv, HistoryTypeOK
    <3>5. t \in Nat /\ t <= clock
      BY <2>1, <3>4, RecordsAssumption, TimesAssumption DEF Inv, Paced
    <3>6. Carrying => t <= snap.timestamp
      <4>1. Carrying => t < snap.timestamp
        BY <2>1, <3>4 DEF Inv, Paced
      <4> QED
        BY <1>1, <3>5, <4>1, BoundsAssumption
    <3> QED
      BY <2>1, <3>4, <3>5, <3>6 DEF PastTimes, t
  <2>4. \A u \in PastTimes : u \in Nat /\ u <= t
    BY <1>3 DEF PastTimes
  <2> HIDE DEF rec, t
  <2>5. rec \in Records /\ t \in PastTimes
    BY <2>2, <2>3
  <2>6. rec \in Answers
    BY <2>5, RecordsAssumption DEF Answers
  <2> QED
    BY <2>1, <2>4, <2>5, <2>6
<1> QED
  BY <1>2, <1>3

\* So is the history.
LEMMA AnsweredHistory ==
    ASSUME Inv, Restored, Up
    PROVE  /\ HistoryJSON \in PastTotals
           /\ faults + cuts = 0 => \A h \in PastTotals :
                                     /\ HistoryJSON.bytes   >= h.bytes
                                     /\ HistoryJSON.crossAZ >= h.crossAZ
                                     /\ HistoryJSON.cost    >= h.cost
<1>1. store \in Stores /\ Len(store.ring) <= RingCap /\ faults \in Nat /\ cuts \in Nat
  BY DEF Inv, HistoryTypeOK, Stores, Up
<1>2. lines \in Seq(Lines) /\ Replay(lines) \in Stores
  BY DiskType DEF Inv
<1>3. faults + cuts = 0 => /\ store.bytes   = Replay(lines).bytes
                           /\ store.crossAZ = Replay(lines).crossAZ
                           /\ store.cost    = Replay(lines).cost
  BY <1>1 DEF Restored, StoreTotals
<1> HIDE DEF Stores
<1>4. \A h \in Stores : h.bytes \in Nat /\ h.crossAZ \in Nat /\ h.cost \in Nat
  BY DEF Stores
<1> QED
  BY <1>1, <1>2, <1>3, <1>4 DEF PastTotals, HistoryJSON

-----------------------------------------------------------------------------
(* The page. *)

SnapNotBefore(r, p) ==
    r.snap # NoAnswer => \/ r.snap.timestamp = NoTime
                         \/ r.snap.timestamp >= p.snap.timestamp

HistNotBefore(r, p) ==
    r.hist # NoAnswer => /\ r.hist.bytes   >= p.hist.bytes
                         /\ r.hist.crossAZ >= p.hist.crossAZ
                         /\ r.hist.cost    >= p.hist.cost

\* What is on its way was answered whole; unless refreshes overlapped there is
\* only one, and it was begun after the page was painted.
OnItsWay ==
    /\ fetching \in Seq(Seen)
    /\ Len(fetching) <= MaxFetching

Painted == page # NoPage => page \in Seen /\ Answered(page)

Alone ==
    ~overlapped =>
      /\ Len(fetching) <= 1
      /\ page # NoPage => \A i \in 1..Len(fetching) :
                            /\ SnapNotBefore(fetching[i], page)
                            /\ faults + cuts = 0 => HistNotBefore(fetching[i], page)

Shown == OnItsWay /\ Painted /\ Alone

LEMMA RemoveAtType ==
    ASSUME NEW S, NEW s \in Seq(S), NEW i \in 1..Len(s)
    PROVE  RemoveAt(s, i) \in Seq(S) /\ Len(RemoveAt(s, i)) = Len(s) - 1
<1> DEFINE n == Len(s)
           a == SubSeq(s, 1, i - 1)
           b == SubSeq(s, i + 1, n)
<1>1. n \in Nat /\ \A j \in 1..n : s[j] \in S
  BY LenProperties, ElementOfSeq
<1>2. a \in Seq(S) /\ Len(a) = i - 1
  <2>1. \A j \in 1..i - 1 : s[j] \in S
    BY <1>1
  <2>2. i - 1 \in Int /\ 1 \in Int
    BY <1>1
  <2> QED
    BY <1>1, <2>1, <2>2, SubSeqProperties
<1>3. b \in Seq(S) /\ Len(b) = n - i
  <2>1. \A j \in i + 1..n : s[j] \in S
    BY <1>1
  <2>2. i + 1 \in Int /\ n \in Int
    BY <1>1
  <2> QED
    BY <1>1, <2>1, <2>2, SubSeqProperties
<1>4. RemoveAt(s, i) = a \o b
  BY DEF RemoveAt
<1> HIDE DEF a, b, n
<1>5. a \o b \in Seq(S) /\ Len(a \o b) = Len(a) + Len(b)
  BY <1>2, <1>3, ConcatProperties
<1> QED
  BY <1>1, <1>2, <1>3, <1>4, <1>5 DEF n

\* The steps of the daemon leave the page alone and make nothing it holds less
\* past.
LEMMA ShownUnderDaemon ==
    ASSUME Inv, Shown, DaemonStep \/ UNCHANGED vars,
           UNCHANGED <<fetching, page, overlapped>>
    PROVE  Shown'
<1>1. Seen \subseteq Seen'
  BY SeenGrows
<1>2. OnItsWay'
  <2>1. fetching \in Seq(Seen')
    BY <1>1, SeqMonotonic DEF Shown, OnItsWay
  <2> QED
    BY <2>1 DEF Shown, OnItsWay
<1>3. Painted'
  BY <1>1 DEF Shown, Painted, Answered
<1>4. Alone'
  <2>1. faults' + cuts' = 0 => faults + cuts = 0
    BY FileGrows
  <2> QED
    BY <2>1 DEF Shown, Alone, SnapNotBefore, HistNotBefore
<1> QED
  BY <1>2, <1>3, <1>4 DEF Shown

LEMMA SeenUnchanged ==
    ASSUME UNCHANGED vars
    PROVE  Seen' = Seen /\ (faults' = faults /\ cuts' = cuts)
BY DEF vars, statsVars, historyVars, Seen, PastTimes, PastTotals, Carrying

LEMMA ShownRefresh ==
    ASSUME Inv, Shown, Refresh
    PROVE  Shown'
<1>1. /\ Len(fetching) < MaxFetching /\ fetching' = Append(fetching, Unanswered)
      /\ overlapped' = (fetching # <<>>) /\ page' = page
      /\ Seen' = Seen
  BY SeenUnchanged DEF Refresh
<1>2. Unanswered \in Seen
  BY DEF Unanswered, Seen
<1>3. fetching \in Seq(Seen)
  BY DEF Shown, OnItsWay
<1>4. /\ fetching' \in Seq(Seen) /\ Len(fetching') = Len(fetching) + 1
      /\ fetching'[Len(fetching) + 1] = Unanswered
      /\ Len(fetching) \in Nat
  BY <1>1, <1>2, <1>3, AppendProperties, LenProperties
<1>5. OnItsWay'
  BY <1>1, <1>4, MaxFetchingAssumption DEF OnItsWay
<1>6. Painted'
  BY <1>1 DEF Shown, Painted, Answered
<1>7. Alone'
  <2>1. CASE fetching = <<>>
    <3>1. Len(fetching) = 0
      BY <2>1
    <3>2. \A i \in 1..Len(fetching') : fetching'[i] = Unanswered
      BY <1>4, <3>1
    <3>3. \A i \in 1..Len(fetching') : /\ SnapNotBefore(fetching'[i], page')
                                       /\ HistNotBefore(fetching'[i], page')
      BY <3>2 DEF Unanswered, SnapNotBefore, HistNotBefore
    <3> QED
      BY <1>4, <3>1, <3>3 DEF Alone, SnapNotBefore, HistNotBefore
  <2>2. CASE fetching # <<>>
    BY <1>1, <2>2 DEF Alone
  <2> QED
    BY <2>1, <2>2
<1> QED
  BY <1>5, <1>6, <1>7 DEF Shown

LEMMA ShownAnswerSnapshot ==
    ASSUME Inv, Newest, Up, Shown, NEW i \in DOMAIN fetching, AnswerSnapshot(i)
    PROVE  Shown'
<1> DEFINE r == fetching[i]
           a == LatestJSON
           q == [r EXCEPT !.snap = a]
<1>1. /\ fetching' = [fetching EXCEPT ![i] = q] /\ overlapped' = overlapped
      /\ page' = page /\ Seen' = Seen /\ faults' = faults /\ cuts' = cuts
  BY SeenUnchanged DEF AnswerSnapshot
<1>2. /\ a \in Answers /\ a.timestamp \in PastTimes
      /\ a.timestamp = NoTime \/ \A t \in PastTimes : a.timestamp >= t
  BY AnsweredSnapshot
<1>3. fetching \in Seq(Seen) /\ i \in 1..Len(fetching)
  BY LenProperties DEF Shown, OnItsWay
<1>4. r \in Seen
  BY <1>3, ElementOfSeq
<1> HIDE DEF r, a
<1>5. q \in Seen /\ q.snap = a /\ q.hist = r.hist
  BY <1>2, <1>4 DEF Seen
<1> HIDE DEF q
<1>6. /\ fetching' \in Seq(Seen) /\ Len(fetching') = Len(fetching)
      /\ \A j \in 1..Len(fetching) : fetching'[j] = IF j = i THEN q ELSE fetching[j]
  BY <1>1, <1>3, <1>5, ExceptSeq
<1>7. OnItsWay' /\ Painted'
  BY <1>1, <1>6 DEF Shown, OnItsWay, Painted, Answered
<1>8. Alone'
  <2> SUFFICES ASSUME ~overlapped, page # NoPage, NEW j \in 1..Len(fetching)
               PROVE  /\ SnapNotBefore(fetching'[j], page)
                      /\ faults + cuts = 0 => HistNotBefore(fetching'[j], page)
    BY <1>1, <1>6 DEF Shown, Alone, SnapNotBefore, HistNotBefore
  <2>1. /\ SnapNotBefore(fetching[j], page)
        /\ faults + cuts = 0 => HistNotBefore(fetching[j], page)
    BY DEF Shown, Alone
  <2>2. page.snap.timestamp \in PastTimes
    BY DEF Shown, Painted, Answered, Seen
  <2>3. CASE j = i
    BY <1>2, <1>5, <1>6, <2>1, <2>2, <2>3 DEF SnapNotBefore, HistNotBefore, r
  <2>4. CASE j # i
    BY <1>6, <2>1, <2>4
  <2> QED
    BY <2>3, <2>4
<1> QED
  BY <1>7, <1>8 DEF Shown

LEMMA ShownAnswerHistory ==
    ASSUME Inv, Restored, Up, Shown, NEW i \in DOMAIN fetching, AnswerHistory(i)
    PROVE  Shown'
<1> DEFINE r == fetching[i]
           a == HistoryJSON
           q == [r EXCEPT !.hist = a]
<1>1. /\ fetching' = [fetching EXCEPT ![i] = q] /\ overlapped' = overlapped
      /\ page' = page /\ Seen' = Seen /\ faults' = faults /\ cuts' = cuts
  BY SeenUnchanged DEF AnswerHistory
<1>2. /\ a \in PastTotals
      /\ faults + cuts = 0 => \A h \in PastTotals :
                                /\ a.bytes   >= h.bytes
                                /\ a.crossAZ >= h.crossAZ
                                /\ a.cost    >= h.cost
  BY AnsweredHistory
<1>3. fetching \in Seq(Seen) /\ i \in 1..Len(fetching)
  BY LenProperties DEF Shown, OnItsWay
<1>4. r \in Seen
  BY <1>3, ElementOfSeq
<1> HIDE DEF r, a
<1>5. q \in Seen /\ q.hist = a /\ q.snap = r.snap
  BY <1>2, <1>4 DEF Seen
<1> HIDE DEF q
<1>6. /\ fetching' \in Seq(Seen) /\ Len(fetching') = Len(fetching)
      /\ \A j \in 1..Len(fetching) : fetching'[j] = IF j = i THEN q ELSE fetching[j]
  BY <1>1, <1>3, <1>5, ExceptSeq
<1>7. OnItsWay' /\ Painted'
  BY <1>1, <1>6 DEF Shown, OnItsWay, Painted, Answered
<1>8. Alone'
  <2> SUFFICES ASSUME ~overlapped, page # NoPage, NEW j \in 1..Len(fetching)
               PROVE  /\ SnapNotBefore(fetching'[j], page)
                      /\ faults + cuts = 0 => HistNotBefore(fetching'[j], page)
    BY <1>1, <1>6 DEF Shown, Alone, SnapNotBefore, HistNotBefore
  <2>1. /\ SnapNotBefore(fetching[j], page)
        /\ faults + cuts = 0 => HistNotBefore(fetching[j], page)
    BY DEF Shown, Alone
  <2>2. page.hist \in PastTotals
    BY DEF Shown, Painted, Answered, Seen
  <2>3. CASE j = i
    BY <1>2, <1>5, <1>6, <2>1, <2>2, <2>3 DEF SnapNotBefore, HistNotBefore, r
  <2>4. CASE j # i
    BY <1>6, <2>1, <2>4
  <2> QED
    BY <2>3, <2>4
<1> QED
  BY <1>7, <1>8 DEF Shown

\* A refresh ends: unless refreshes overlapped, none is left.
LEMMA ShownEnd ==
    ASSUME Inv, Shown, NEW i \in DOMAIN fetching, Reject(i) \/ Paint(i)
    PROVE  Shown'
<1>1. /\ fetching' = RemoveAt(fetching, i) /\ overlapped' = overlapped
      /\ page' = page \/ (page' = fetching[i] /\ Answered(fetching[i]))
      /\ Seen' = Seen
  BY SeenUnchanged DEF Reject, Paint
<1>2. /\ fetching \in Seq(Seen) /\ i \in 1..Len(fetching)
      /\ Len(fetching) \in Nat /\ Len(fetching) <= MaxFetching
  BY LenProperties DEF Shown, OnItsWay
<1>3. fetching' \in Seq(Seen) /\ Len(fetching') = Len(fetching) - 1
  BY <1>1, <1>2, RemoveAtType
<1>4. OnItsWay'
  BY <1>1, <1>2, <1>3, MaxFetchingAssumption DEF OnItsWay
<1>5. Painted'
  <2>1. fetching[i] \in Seen
    BY <1>2, ElementOfSeq
  <2> QED
    BY <1>1, <2>1 DEF Shown, Painted, Answered
<1>6. Alone'
  <2>1. ~overlapped => Len(fetching') = 0
    BY <1>2, <1>3 DEF Shown, Alone
  <2> QED
    BY <1>1, <2>1 DEF Alone
<1> QED
  BY <1>4, <1>5, <1>6 DEF Shown

-----------------------------------------------------------------------------
(* What the server and the page promise. *)

Listens ==
    /\ listening \in {"off", "starting", "on", "failed"}
    /\ Up <=> listening # "off"

Served == Inv /\ Newest /\ Restored /\ Shown /\ Listens

LEMMA ServedInit == DashboardInit => Served
<1> SUFFICES ASSUME DashboardInit PROVE Served
  OBVIOUS
<1>1. Init /\ listening = "off" /\ fetching = <<>> /\ page = NoPage /\ overlapped = FALSE
  BY DEF DashboardInit
<1>2. /\ rep = "waiting" /\ store = NoStore /\ lastJSON = NoSnapshot
  BY <1>1 DEF Init, StatsInit, HistoryInit
<1>3. Newest
  BY <1>2 DEF Newest, Carrying, Up
<1>4. Len(fetching) = 0 /\ fetching \in Seq(Seen)
  BY <1>1, EmptySeq
<1>5. Shown
  BY <1>1, <1>4, MaxFetchingAssumption DEF Shown, OnItsWay, Painted, Alone
<1>6. Listens
  BY <1>1, <1>2 DEF Listens, Up
<1> QED
  BY <1>1, <1>3, <1>5, <1>6, InvInit, RestoredInit DEF Served

LEMMA ServedStep ==
    ASSUME Served, [DashboardNext]_dashboardVars
    PROVE  Served'
<1>1. Inv /\ Newest /\ Restored /\ Shown /\ Listens
  BY DEF Served
<1>2. DaemonStep \/ UNCHANGED vars
  BY DEF DashboardNext, Daemon, Listen, Refresh, AnswerSnapshot, AnswerHistory, Reject,
         Paint, dashboardVars
<1>3. Inv' /\ Restored' /\ Newest'
  BY <1>1, <1>2, DaemonIsNext, InvStep, RestoredStep, NewestStep
<1>4. Serving => Up
  BY <1>1 DEF Listens, Serving
<1>5. ASSUME UNCHANGED vars, UNCHANGED listening PROVE Listens'
  BY <1>1, <1>5 DEF Listens, Up, vars, historyVars
<1>6. CASE Daemon
  <2>1. Listens'
    BY <1>1, <1>6 DEF Daemon, Listens
  <2>2. Shown'
    BY <1>1, <1>6, ShownUnderDaemon DEF Daemon
  <2> QED
    BY <1>3, <2>1, <2>2 DEF Served
<1>7. CASE Listen
  <2>1. Listens'
    BY <1>1, <1>7 DEF Listen, Listens, Up, vars, historyVars
  <2>2. Shown'
    BY <1>1, <1>7, ShownUnderDaemon DEF Listen
  <2> QED
    BY <1>3, <2>1, <2>2 DEF Served
<1>8. CASE Refresh
  <2>1. Listens'
    BY <1>5, <1>8 DEF Refresh
  <2> QED
    BY <1>1, <1>3, <1>8, <2>1, ShownRefresh DEF Served
<1>9. ASSUME NEW i \in DOMAIN fetching,
             AnswerSnapshot(i) \/ AnswerHistory(i) \/ Reject(i) \/ Paint(i)
      PROVE  Served'
  <2>1. Listens'
    BY <1>5, <1>9 DEF AnswerSnapshot, AnswerHistory, Reject, Paint
  <2>2. CASE AnswerSnapshot(i)
    <3>1. Up
      BY <1>4, <2>2 DEF AnswerSnapshot
    <3> QED
      BY <1>1, <1>3, <2>1, <2>2, <3>1, ShownAnswerSnapshot DEF Served
  <2>3. CASE AnswerHistory(i)
    <3>1. Up
      BY <1>4, <2>3 DEF AnswerHistory
    <3> QED
      BY <1>1, <1>3, <2>1, <2>3, <3>1, ShownAnswerHistory DEF Served
  <2>4. CASE Reject(i) \/ Paint(i)
    BY <1>1, <1>3, <2>1, <2>4, ShownEnd DEF Served
  <2> QED
    BY <1>9, <2>2, <2>3, <2>4
<1>10. CASE UNCHANGED dashboardVars
  <2>1. Listens'
    BY <1>5, <1>10 DEF dashboardVars
  <2>2. Shown'
    BY <1>1, <1>10, ShownUnderDaemon DEF dashboardVars
  <2> QED
    BY <1>3, <2>1, <2>2 DEF Served
<1> QED
  BY <1>6, <1>7, <1>8, <1>9, <1>10 DEF DashboardNext

LEMMA ServedInvariance == DashboardSpec => []Served
BY ServedInit, ServedStep, PTL DEF DashboardSpec

\* Only a running daemon listens, answers are whole, and the ring that is
\* served is never longer than historyRingCap.
THEOREM DashboardTypeCorrect == DashboardSpec => []DashboardTypeOK
<1>1. Served => DashboardTypeOK
  <2> SUFFICES ASSUME Served PROVE DashboardTypeOK
    OBVIOUS
  <2>1. Listens /\ fetching \in Seq(Seen) /\ Len(fetching) <= MaxFetching
    BY DEF Served, Shown, OnItsWay
  <2>2. \A i \in DOMAIN fetching : fetching[i] \in Seen
    BY <2>1, LenProperties, ElementOfSeq
  <2>3. ASSUME NEW r \in Seen
        PROVE  /\ r.snap # NoAnswer => r.snap \in Answers
               /\ r.hist # NoAnswer => Len(r.hist.ring) <= RingCap
    BY DEF Seen, PastTotals
  <2> QED
    BY <2>1, <2>2, <2>3 DEF DashboardTypeOK, Listens, Answers
<1> QED
  BY <1>1, ServedInvariance, PTL

\* Whenever both are asked, /snapshot is the newest interval of /history or the
\* one after it, never an older one: the snapshot is published before it is
\* recorded, each under its own lock (stats.go:199-207).
THEOREM ServedTogetherCorrect == DashboardSpec => []ServedTogether
<1>1. Served => ServedTogether
  <2> SUFFICES ASSUME Served, Up PROVE ServedTogether
    BY DEF ServedTogether
  <2> DEFINE ring == store.ring
  <2>1. Inv /\ Newest
    BY DEF Served
  <2>2. rep \in {"waiting", "publish", "record", "stopped"}
    BY <2>1 DEF Inv, TypeOK
  <2>3. CASE rep = "record"
    <3>1. lastJSON = snap /\ snap # NoSnapshot /\ InSeq(ring) \subseteq issued
      BY <2>1, <2>3 DEF Newest, Carrying, Up
    <3>2. LatestJSON = IntervalRecord(snap)
      BY <3>1 DEF LatestJSON
    <3>3. LatestJSON.timestamp = snap.timestamp
      BY <3>2 DEF IntervalRecord
    <3>4. ring \in Seq(Records)
      BY <2>1 DEF Inv, HistoryTypeOK, Up
    <3>5. ASSUME ring # <<>> PROVE Last(ring) \in InSeq(ring)
      <4>1. Len(ring) \in Nat /\ DOMAIN ring = 1..Len(ring)
        BY <3>4, LenProperties
      <4>2. Len(ring) # 0
        BY <3>4, <3>5, EmptySeq
      <4> QED
        BY <4>1, <4>2 DEF Last, InSeq
    <3> HIDE DEF ring
    <3>6. ring # <<>> => Last(ring).timestamp < LatestJSON.timestamp
      BY <2>1, <2>3, <3>1, <3>3, <3>5 DEF Inv, Paced, Carrying
    <3> QED
      BY <2>3, <3>1, <3>2, <3>6 DEF ServedTogether, ring
  <2>4. CASE rep # "record" /\ lastJSON # NoSnapshot
    <3>1. ring # <<>> /\ Last(ring) = LatestJSON
      BY <2>1, <2>4 DEF Newest, LatestJSON
    <3> QED
      BY <2>4, <3>1 DEF ServedTogether
  <2>5. CASE rep # "record" /\ lastJSON = NoSnapshot
    BY <2>2, <2>5 DEF ServedTogether
  <2> QED
    BY <2>3, <2>4, <2>5
<1> QED
  BY <1>1, ServedInvariance, PTL

\* What the page shows does not go back, unless refreshes overlapped: not to an
\* older snapshot, and not to smaller totals either while no write failed and
\* all could be read, however often the daemon was killed and started.
THEOREM PageMovesForwardCorrect == DashboardSpec => PageMovesForward
<1> DEFINE Forward ==
      page # NoPage /\ ~overlapped =>
         /\ \/ page'.snap.timestamp = NoTime
            \/ page'.snap.timestamp >= page.snap.timestamp
         /\ faults + cuts = 0 =>
              /\ page'.hist.bytes   >= page.hist.bytes
              /\ page'.hist.crossAZ >= page.hist.crossAZ
              /\ page'.hist.cost    >= page.hist.cost
<1>1. ASSUME Served, [DashboardNext]_dashboardVars, page' # page PROVE Forward
  <2>1. PICK i \in DOMAIN fetching : Paint(i)
    BY <1>1 DEF DashboardNext, Daemon, Listen, Refresh, AnswerSnapshot, AnswerHistory,
                Reject, dashboardVars
  <2>2. page' = fetching[i] /\ Answered(fetching[i])
    BY <2>1 DEF Paint
  <2>3. i \in 1..Len(fetching)
    BY <1>1, LenProperties DEF Served, Shown, OnItsWay
  <2>4. page # NoPage /\ ~overlapped =>
          /\ SnapNotBefore(fetching[i], page)
          /\ faults + cuts = 0 => HistNotBefore(fetching[i], page)
    BY <1>1, <2>3 DEF Served, Shown, Alone
  <2> QED
    BY <2>2, <2>4 DEF SnapNotBefore, HistNotBefore, Answered
<1>2. Served /\ [DashboardNext]_dashboardVars => [Forward]_page
  BY <1>1
<1> QED
  BY <1>2, ServedInvariance, PTL DEF DashboardSpec, PageMovesForward
=============================================================================
