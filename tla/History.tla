------------------------------ MODULE History ------------------------------
(***************************************************************************)
(* The durable history of pkg/adapters/ebpf/history.go: an append-only     *)
(* JSON-lines file, replayed when the daemon starts, and the store kept in *)
(* memory beside it (cumulative totals and a bounded ring of intervals).   *)
(*                                                                         *)
(* The file is modelled by what the replay loop can tell apart: a line is  *)
(* the record json.Unmarshal gets from it, or Malformed.  The bytes after  *)
(* the last newline, which a short write leaves behind, are `tail': none,  *)
(* a fragment (Malformed), or a whole record whose newline is missing.     *)
(*                                                                         *)
(* Faults are those of the write at history.go:114, whose result the code  *)
(* drops: it fails, it is short, or the process dies in the middle of it;  *)
(* of a host that crashes before the lines written have reached its disk   *)
(* (nothing calls fsync); and of the read at history.go:63-66, whose       *)
(* errors end the replay without a word.                                   *)
(***************************************************************************)
EXTENDS Integers, Sequences, FiniteSets

CONSTANTS
    Records,    \* the interval records that can be handed to Record
    Times,      \* the clock readings (seconds; never 0)
    RingCap,    \* historyRingCap
    MaxFaults,  \* bound: faults of one behaviour
    Malformed,  \* a line json.Unmarshal rejects
    NoTail,     \* the file ends with a newline (or is empty)
    NoStore     \* no process holds the history file

ASSUME RingCapAssumption == RingCap \in Nat \ {0}
ASSUME MaxFaultsAssumption == MaxFaults \in Nat
ASSUME TimesAssumption == Times \subseteq Nat \ {0}
ASSUME RecordsAssumption ==
    /\ Records \subseteq
         [timestamp : Times, bytes : Nat, crossAZ : Nat, cost : Nat]
    /\ {Malformed, NoTail} \cap Records = {}
    /\ Malformed # NoTail
ASSUME NoStoreAssumption ==
    NoStore \notin [since : Nat, bytes : Nat, crossAZ : Nat, cost : Nat,
                   ring : Seq(Records)]
                 \cup [bytes : Nat, crossAZ : Nat, cost : Nat,
                       recent : Seq(Records)]

VARIABLES
    lines,   \* the newline-terminated lines of the file
    tail,    \* what follows the last newline
    store,   \* the HistoryStore in memory, or NoStore
    counted, \* ghost: the records the store has counted, in order
    issued,  \* ghost: every record ever handed to Record
    written, \* ghost: the records whose Write was complete, and not undone
             \* by a crash of the host
    faults,  \* ghost: writes that failed and lines that a host lost so far
    cuts     \* ghost: replays that did not reach the end of the file so far

fileVars    == <<lines, tail>>
storeVars   == <<store, counted>>
historyVars == <<lines, tail, store, counted, issued, written, faults, cuts>>

-----------------------------------------------------------------------------
NoTime == 0  \* the empty string of HistoryStore.since

EmptyStore ==
    [since |-> NoTime, bytes |-> 0, crossAZ |-> 0, cost |-> 0, ring |-> <<>>]

\* Mutants of Push: a cap off by one, a full ring that takes no more.
PushOneMore(ring, rec) ==
    LET grown == Append(ring, rec)
    IN  IF Len(grown) > RingCap + 1 THEN Tail(grown) ELSE grown
PushUntilFull(ring, rec) ==
    IF Len(ring) < RingCap THEN Append(ring, rec) ELSE ring

\* history.go:120-124 (and 77-80 in the replay loop): append to the ring and
\* drop its head when it has grown past the cap.
Push(ring, rec) ==
    LET grown == Append(ring, rec)
    IN  IF Len(grown) > RingCap THEN Tail(grown) ELSE grown

\* The cumulative totals and the ring after one more interval.
Absorb(h, rec) ==
    [h EXCEPT !.bytes   = @ + rec.bytes,
              !.crossAZ = @ + rec.crossAZ,
              !.cost    = @ + rec.cost,
              !.ring    = Push(@, rec)]

\* Mutant: the history is dated by the last record read.
ReplayLineRedates(h, line) ==
    IF line = Malformed
    THEN h
    ELSE Absorb([h EXCEPT !.since = line.timestamp], line)

\* One turn of the replay loop: a malformed line is skipped, the first record
\* read dates the history.
ReplayLine(h, line) ==
    IF line = Malformed
    THEN h
    ELSE Absorb([h EXCEPT !.since = IF @ = NoTime THEN line.timestamp ELSE @],
                line)

\* The replay loop over the lines that bufio.Scanner yields.
Replay(ls) ==
    LET scanned[i \in 0..Len(ls)] ==
          IF i = 0 THEN EmptyStore ELSE ReplayLine(scanned[i - 1], ls[i])
    IN  scanned[Len(ls)]

\* Mutants: a last line without its newline is not read; reading ends at the
\* first malformed line.
ScannedNewlined == lines
ScannedUntilMalformed ==
    LET all == IF tail = NoTail THEN lines ELSE Append(lines, tail)
        good == {i \in 0..Len(all) : \A j \in 1..i : all[j] # Malformed}
    IN  SubSeq(all, 1, CHOOSE i \in good : \A j \in good : j <= i)

\* bufio.ScanLines also yields a last line that has no newline.
ScannedLines == IF tail = NoTail THEN lines ELSE Append(lines, tail)

\* The records among the lines ls, in their order.
Sound(ls) ==
    LET kept[i \in 0..Len(ls)] ==
          IF i = 0 THEN <<>>
          ELSE IF ls[i] = Malformed THEN kept[i - 1]
          ELSE Append(kept[i - 1], ls[i])
    IN  kept[Len(ls)]

\* The records a start of the daemon would find in the file.
Readable == {ScannedLines[i] : i \in DOMAIN ScannedLines} \ {Malformed}

-----------------------------------------------------------------------------
HistoryInit ==
    /\ lines = <<>>
    /\ tail = NoTail
    /\ store = NoStore
    /\ counted = <<>>
    /\ issued = {}
    /\ written = {}
    /\ faults = 0
    /\ cuts = 0

MoreFaults == faults + cuts < MaxFaults

\* The store made of the lines ls; an empty history is dated from now.
Restore(ls, now) ==
    /\ store' = [Replay(ls) EXCEPT !.since = IF @ = NoTime THEN now ELSE @]
    /\ counted' = Sound(ls)

\* Replay the file, then keep it open for appending (O_APPEND: a torn tail is
\* neither cut off nor terminated).
NewHistoryStore(now) ==
    /\ store = NoStore
    /\ Restore(ScannedLines, now)
    /\ UNCHANGED <<fileVars, issued, written, faults, cuts>>

\* The same when the file cannot be opened for reading, or reading it fails on
\* the way: what was not read is taken for not there.
NewHistoryStoreCut(now) ==
    /\ store = NoStore
    /\ MoreFaults /\ cuts' = cuts + 1
    /\ \E n \in 0..Len(ScannedLines) - 1 :
         Restore(SubSeq(ScannedLines, 1, n), now)
    /\ UNCHANGED <<fileVars, issued, written, faults>>

\* Mutant: the write is repeated, as after an error that was none.
AppendLineTwice(rec) ==
    /\ lines' = lines \o <<IF tail = NoTail THEN rec ELSE Malformed, rec>>
    /\ tail' = NoTail

\* What one complete append does to the file: it ends the line that a torn
\* tail began, and the merged line is not a record any more.
AppendLine(rec) ==
    /\ lines' = Append(lines, IF tail = NoTail THEN rec ELSE Malformed)
    /\ tail' = NoTail

\* What a short append leaves: nothing but its newline may be missing.
AppendFragment(rec) ==
    /\ tail' \in IF tail = NoTail THEN {Malformed, rec} ELSE {Malformed}
    /\ UNCHANGED lines

Fault == MoreFaults /\ faults' = faults + 1 /\ UNCHANGED cuts

\* The cumulative totals and the ring take the interval, whatever became of it
\* in the file.
Count(rec) ==
    /\ store' = Absorb(store, rec)
    /\ counted' = Append(counted, rec)

\* The store is gone with its process.
Forget == store' = NoStore /\ counted' = <<>>

\* Record: the append succeeds.
Record(rec) ==
    /\ store # NoStore
    /\ AppendLine(rec)
    /\ Count(rec)
    /\ issued' = issued \cup {rec}
    /\ written' = written \cup {rec}
    /\ UNCHANGED <<faults, cuts>>

\* Record: the append writes nothing (disk full, I/O error); the store counts the
\* interval anyway.
RecordUnwritten(rec) ==
    /\ store # NoStore
    /\ Fault
    /\ Count(rec)
    /\ issued' = issued \cup {rec}
    /\ UNCHANGED <<fileVars, written>>

\* Record: the append is short (the disk fills up); the result is ignored.
RecordShort(rec) ==
    /\ store # NoStore
    /\ Fault
    /\ AppendFragment(rec)
    /\ Count(rec)
    /\ issued' = issued \cup {rec}
    /\ UNCHANGED written

\* The daemon or its host dies in the middle of the append.
CrashInRecord(rec) ==
    /\ store # NoStore
    /\ Fault
    /\ AppendFragment(rec)
    /\ Forget
    /\ issued' = issued \cup {rec}
    /\ UNCHANGED written

\* The daemon exits or is killed between two calls of Record.
Crash ==
    /\ store # NoStore
    /\ Forget
    /\ UNCHANGED <<fileVars, issued, written, faults, cuts>>

\* The host crashes, and the file lost bytes at its end that were still in the
\* page cache: a torn tail or part of it, or the last line, of which all but
\* its newline, some, or nothing may be left.  Several lines are several of
\* these steps, which no process is there to tell from one.  (Where two records
\* were glued into one line, that the cut falls exactly between them is left
\* out.)
HostCrash ==
    /\ Forget
    /\ \/ /\ tail # NoTail
          /\ tail' \in {NoTail, Malformed} \ {tail}
          /\ UNCHANGED <<lines, written, faults, cuts>>
       \/ LET n == Len(lines)
          IN  /\ n > 0
              /\ Fault
              /\ lines' = SubSeq(lines, 1, n - 1)
              /\ tail' \in {NoTail, Malformed, lines[n]}
              /\ written' = written \ {lines[n]}
    /\ UNCHANGED issued

\* Snapshots are taken one at a time and stamped with a clock that does not go
\* back, after the store was opened: a record is later than all before it.
Later ==
    {r \in Records : /\ \A q \in issued : q.timestamp < r.timestamp
                     /\ store # NoStore => store.since <= r.timestamp}
Now == {t \in Times : \A q \in issued : q.timestamp <= t}

HistoryNext ==
    \/ \E now \in Now : NewHistoryStore(now) \/ NewHistoryStoreCut(now)
    \/ \E rec \in Later :
         \/ Record(rec)
         \/ RecordUnwritten(rec)
         \/ RecordShort(rec)
         \/ CrashInRecord(rec)
    \/ Crash
    \/ HostCrash

HistorySpec == HistoryInit /\ [][HistoryNext]_historyVars
-----------------------------------------------------------------------------
\* The file holds records, the store and its ring (never longer than
\* historyRingCap, history.go:122) their types.
HistoryTypeOK ==
    /\ lines \in Seq(Records \cup {Malformed})
    /\ tail \in Records \cup {Malformed, NoTail}
    /\ \/ store = NoStore
       \/ /\ store \in [since : Nat, bytes : Nat, crossAZ : Nat, cost : Nat,
                        ring : Seq(Records)]
          /\ Len(store.ring) <= RingCap
    /\ counted \in Seq(Records)
    /\ issued \in SUBSET Records
    /\ written \in SUBSET issued
    /\ faults \in Nat /\ cuts \in Nat /\ faults + cuts <= MaxFaults

\* A failed write, or a line that a crash of the host takes, costs at most two
\* intervals for good: its own and, through the torn tail it leaves, the next
\* one appended (NewHistoryStore skips malformed lines instead of failing or
\* stopping, and a replay cut short costs the file nothing).
LossBounded == Cardinality(issued \ Readable) <= 2 * faults

\* The strengthening of LossBounded that is inductive: a torn tail has yet to
\* be paid for, a fragment with the record that will be glued to it, a whole
\* record without its newline with itself as well.
PendingLoss == CASE tail = NoTail    -> 0
                 [] tail = Malformed -> 1
                 [] OTHER            -> 2
LossPotential == Cardinality(issued \ Readable) + PendingLoss <= 2 * faults

\* Whatever was torn, glued or skipped, replay never counts an interval twice
\* or out of order, or one that was never recorded: the records of the file
\* are recorded ones, in the order they were recorded.
ReplayIsHonest ==
    /\ Readable \subseteq issued
    /\ \A i, j \in DOMAIN ScannedLines :
         (i < j /\ Malformed \notin {ScannedLines[i], ScannedLines[j]})
            => ScannedLines[i].timestamp < ScannedLines[j].timestamp

\* The start date the store reports (HistoryStore.since) never excludes traffic
\* that the cumulative totals beside it include.  After a replay cut short those
\* are of what was read: the file may then hold older records.
SinceDatesTheTotals ==
    store # NoStore =>
      \A i \in DOMAIN counted : store.since <= counted[i].timestamp

\* The promise made for the history ("cumulative traffic and cost survive
\* daemon restarts"): an interval that was written completely is found again.
\* Appending to a torn tail breaks it.
CompleteWritesSurvive == written \subseteq Readable

-----------------------------------------------------------------------------
\* What the store reports besides its start date (HistoryJSON).
View == IF store = NoStore
        THEN NoStore
        ELSE [bytes |-> store.bytes, crossAZ |-> store.crossAZ,
              cost |-> store.cost, recent |-> store.ring]

Durable == INSTANCE DurableLog WITH
             log    <- Sound(ScannedLines),
             view   <- View,
             faulty <- faults + cuts > 0,
             Closed <- NoStore,
             Recent <- RingCap

\* The history is a durable log.  Until the first fault, what the store reports
\* is at all times, and across any number of crashes and restarts, the summary
\* of everything recorded.  A fault costs the file no more than its end, and
\* what the store reports stays the summary of records that were recorded.
ImplementsDurableLog == Durable!Spec
=============================================================================
