------------------------------ MODULE StatsLog ------------------------------
(***************************************************************************)
(* Stats driven by an arbitrary stream of events, beside a log of the      *)
(* events of the current interval.  The log is what the aggregate table is *)
(* judged against: it keeps what the table forgets, the zones that each    *)
(* event resolved to.                                                      *)
(***************************************************************************)
EXTENDS Stats, Sequences, FiniteSetsExt, Functions

CONSTANT MaxEvents  \* bound: events of one behaviour

ASSUME MaxEventsAssumption == MaxEvents \in Nat

VARIABLES
    log,      \* ghost: the events recorded since the last reset
    snapLog,  \* ghost: the events of the interval the reporter holds
    seen,     \* ghost: how many events there have been
    stopping  \* stopCh is closed

vars == <<statsVars, log, snapLog, seen, stopping>>

Events == [type : {"connect"}, flow : Flows, bytes : {0}, ends : Ends]
            \cup
          [type : {"send"}, flow : Flows, bytes : Sizes, ends : Ends]

-----------------------------------------------------------------------------
(* The reference: what a log of events amounts to. *)
Of(f, evs) == {i \in DOMAIN evs : evs[i].flow = f}

Connects(f, evs) == Cardinality({i \in Of(f, evs) : evs[i].type = "connect"})

BytesOf(f, evs) ==
    SumFunctionOnSet([i \in DOMAIN evs |-> evs[i].bytes], Of(f, evs))

\* The last zone that the k-th end of the flow resolved to.
LastKnown(f, evs, k) ==
    LET known == {i \in Of(f, evs) : evs[i].ends[k] # Unknown}
    IN  IF known = {} THEN Unknown ELSE evs[Max(known)].ends[k]

Aggregate(evs) ==
    [f \in {evs[i].flow : i \in DOMAIN evs} |->
        [count   |-> Connects(f, evs),
         bytes   |-> BytesOf(f, evs),
         srcZone |-> LastKnown(f, evs, 1),
         dstZone |-> LastKnown(f, evs, 2)]]

-----------------------------------------------------------------------------
Init ==
    /\ StatsInit
    /\ log = <<>>
    /\ snapLog = <<>>
    /\ seen = 0
    /\ stopping = FALSE

\* ReadEvents hands one connect or send event to the table.
Observe(e) ==
    /\ seen < MaxEvents
    /\ IF e.type = "connect"
       THEN RecordTCP(e.flow, e.ends)
       ELSE RecordBytes(e.flow, e.ends, e.bytes)
    /\ log' = Append(log, e)
    /\ seen' = seen + 1
    /\ UNCHANGED <<snapLog, stopping>>

ObserveExec ==
    /\ seen < MaxEvents
    /\ RecordExec
    /\ seen' = seen + 1
    /\ UNCHANGED <<log, snapLog, stopping>>

Interval ==
    /\ Tick(1)
    /\ snapLog' = log
    /\ log' = <<>>
    /\ UNCHANGED <<seen, stopping>>

Report ==
    /\ Publish
    /\ UNCHANGED <<log, snapLog, seen, stopping>>

HandOver ==
    /\ Recorded
    /\ snapLog' = <<>>
    /\ UNCHANGED <<log, seen, stopping>>

CloseStopCh ==
    /\ ~stopping
    /\ stopping' = TRUE
    /\ UNCHANGED <<statsVars, log, snapLog, seen>>

Return ==
    /\ stopping
    /\ StopReporter
    /\ UNCHANGED <<log, snapLog, seen, stopping>>

Next ==
    \/ \E e \in Events : Observe(e)
    \/ ObserveExec
    \/ Interval
    \/ Report
    \/ HandOver
    \/ CloseStopCh
    \/ Return

\* The ticker keeps firing and the reporter goroutine keeps running; nothing
\* makes events arrive, nor a signal.
Spec == Init /\ [][Next]_vars
             /\ WF_vars(Interval) /\ WF_vars(Report) /\ WF_vars(HandOver)

-----------------------------------------------------------------------------
\* The table, the log and the reporter's stage fit together: it holds a
\* snapshot exactly while it is between two of them (stats.go:192-208).
TypeOK ==
    /\ IsTable(conns)
    /\ execCnt \in 0..MaxEvents
    /\ rep \in {"waiting", "publish", "record", "stopped"}
    /\ (snap = NoSnapshot) <=> rep \in {"waiting", "stopped"}
    /\ log \in Seq(Events) /\ snapLog \in Seq(Events)

\* The table is the aggregate of exactly the events since the last reset, the
\* snapshot in the reporter's hands that of exactly the events before it:
\* no event is lost, counted twice or moved between intervals, and a flow has
\* the latest zones that resolved (getOrCreate, snapshotAndReset).
TableMatchesLog ==
    /\ conns = Aggregate(log)
    /\ snap # NoSnapshot => snap.flows = Aggregate(snapLog)

\* The dashboard never goes back to an older interval or shows one that is
\* being assembled: lastJSON changes only to the snapshot that is handed to
\* the history next.
PublishedIsHandedOver ==
    [][/\ lastJSON' # lastJSON => lastJSON' = snap
       /\ (rep = "record" /\ rep' = "waiting") => lastJSON = snap]_vars

\* What was recorded for a flow reaches the dashboard, unless the reporter
\* stopped.
FlowsArePublished ==
    \A f \in Flows :
        f \in DOMAIN conns ~>
            \/ lastJSON # NoSnapshot /\ f \in DOMAIN lastJSON.flows
            \/ rep = "stopped"
=============================================================================
