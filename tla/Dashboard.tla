----------------------------- MODULE Dashboard -----------------------------
(***************************************************************************)
(* The HTTP server and the page of pkg/adapters/exporter/web_server.go,    *)
(* over the accounting pipeline and its restarts.  The server starts       *)
(* listening in a goroutine of its own and answers from Stats and from the *)
(* HistoryStore, each under its own lock.  The page asks for both every    *)
(* five seconds, does not wait for the refresh before, and shows what it   *)
(* got when both answers are there.                                        *)
(*                                                                         *)
(* A request is pending until the server answers it; how long the answer   *)
(* travels is how long it waits to be painted.                             *)
(***************************************************************************)
EXTENDS Accounting, Sequences, SequencesExt

CONSTANTS
    MaxFetching, \* bound: refreshes on their way at one time
    NoAnswer,    \* a request that has not been answered
    NoPage       \* the page as it was loaded

ASSUME MaxFetchingAssumption == MaxFetching \in Nat

VARIABLES
    listening, \* ListenAndServe: "off", "starting", "on" or "failed"
    fetching,  \* the refreshes on their way, in the order they were begun
    page,      \* what the page shows of the two answers
    overlapped \* ghost: two of the refreshes on their way were at one time

dashboardVars == <<vars, listening, fetching, page, overlapped>>

Serving == listening = "on"

-----------------------------------------------------------------------------
\* LatestJSON: the placeholder until the first interval is published.
LatestJSON ==
    IF lastJSON = NoSnapshot
    THEN [timestamp |-> NoTime, bytes |-> 0, crossAZ |-> 0, cost |-> 0]
    ELSE IntervalRecord(lastJSON)

\* Mutant: the totals of the ring instead of the cumulative ones.
HistoryOfRing ==
    [store EXCEPT !.bytes = SumFunction([i \in DOMAIN store.ring |->
                                        store.ring[i].bytes])]

\* HistoryJSON: the totals and a copy of the ring.
HistoryJSON == store

-----------------------------------------------------------------------------
\* The steps of the daemon, a stop on request included: the server answers on
\* after the reporter has returned, until main does.  Connects are in no answer,
\* and the death of the host is a Kill that also takes what is not modelled here.
DaemonStep ==
    \/ Boot
    \/ \E f \in Flows, ends \in Ends, n \in Sizes : Send(f, ends, n)
    \/ Interval
    \/ Report
    \/ HandOver
    \/ Signal
    \/ CloseReader
    \/ ReporterReturns
    \/ Exit
    \/ Kill
    \/ KillInRecord

\* exporter.Start comes with the daemon's start, before the socket is bound; the
\* server goes with the process.
Daemon ==
    /\ DaemonStep
    /\ listening' = IF ~Up' THEN "off" ELSE IF Up THEN listening ELSE "starting"
    /\ UNCHANGED <<fetching, page, overlapped>>

\* ListenAndServe binds the socket, or fails and is not tried again.
Listen ==
    /\ listening = "starting"
    /\ listening' \in {"on", "failed"}
    /\ UNCHANGED <<vars, fetching, page, overlapped>>

Unanswered == [snap |-> NoAnswer, hist |-> NoAnswer]

\* Mutant: the page is loaded once and not refreshed.
RefreshOnce ==
    /\ page = NoPage
    /\ Len(fetching) < MaxFetching
    /\ fetching' = Append(fetching, Unanswered)
    /\ overlapped' = (fetching # <<>>)
    /\ UNCHANGED <<vars, listening, page>>

\* The page is loaded, or the interval timer fires.
Refresh ==
    /\ Len(fetching) < MaxFetching
    /\ fetching' = Append(fetching, Unanswered)
    /\ overlapped' = (fetching # <<>>)
    /\ UNCHANGED <<vars, listening, page>>

AnswerSnapshot(i) ==
    /\ Serving
    /\ fetching[i].snap = NoAnswer
    /\ fetching' = [fetching EXCEPT ![i].snap = LatestJSON]
    /\ UNCHANGED <<vars, listening, page, overlapped>>

AnswerHistory(i) ==
    /\ Serving
    /\ fetching[i].hist = NoAnswer
    /\ fetching' = [fetching EXCEPT ![i].hist = HistoryJSON]
    /\ UNCHANGED <<vars, listening, page, overlapped>>

\* Nobody listens, or the connection broke: Promise.all rejects, and the page
\* stays as it is.
Reject(i) ==
    /\ ~Serving
    /\ fetching' = RemoveAt(fetching, i)
    /\ UNCHANGED <<vars, listening, page, overlapped>>

Answered(r) == r.snap # NoAnswer /\ r.hist # NoAnswer

\* Both answers are there.
Paint(i) ==
    /\ Answered(fetching[i])
    /\ page' = fetching[i]
    /\ fetching' = RemoveAt(fetching, i)
    /\ UNCHANGED <<vars, listening, overlapped>>

DashboardInit ==
    /\ Init
    /\ listening = "off"
    /\ fetching = <<>>
    /\ page = NoPage
    /\ overlapped = FALSE

DashboardNext ==
    \/ Daemon
    \/ Listen
    \/ Refresh
    \/ \E i \in DOMAIN fetching :
         \/ AnswerSnapshot(i)
         \/ AnswerHistory(i)
         \/ Reject(i)
         \/ Paint(i)

\* The tab stays open: its timer fires, and the oldest refresh on its way gets
\* on.  Nothing makes the daemon start, or the socket be free.
Fairness ==
    /\ WF_dashboardVars(Refresh)
    /\ WF_dashboardVars(fetching # <<>> /\ AnswerSnapshot(1))
    /\ WF_dashboardVars(fetching # <<>> /\ AnswerHistory(1))
    /\ WF_dashboardVars(fetching # <<>> /\ Paint(1))

DashboardSpec ==
    DashboardInit /\ [][DashboardNext]_dashboardVars /\ Fairness

-----------------------------------------------------------------------------
\* Answers are whole, and only a running daemon listens.
DashboardTypeOK ==
    /\ listening \in {"off", "starting", "on", "failed"}
    /\ Up <=> listening # "off"
    /\ Len(fetching) <= MaxFetching
    /\ \A i \in DOMAIN fetching :
         LET r == fetching[i]
         IN  /\ r.snap # NoAnswer =>
                  r.snap \in [timestamp : Times \cup {NoTime},
                              bytes : Nat, crossAZ : Nat, cost : Nat]
             /\ r.hist # NoAnswer => Len(r.hist.ring) <= RingCap

\* The two answers agree up to the interval being handed over: /snapshot is
\* never behind /history, and ahead of it by the snapshot alone that is
\* published but not yet recorded (stats.go:199-207).  Just started, the daemon
\* has a history and no snapshot.  A reporter that has returned changes nothing
\* of that, for as long as the server goes on answering (stats.go:194).
ServedTogether ==
    Up =>
      LET recent == store.ring
      IN  CASE lastJSON = NoSnapshot -> rep \in {"waiting", "publish", "stopped"}
            [] rep = "record" ->
                 /\ LatestJSON = IntervalRecord(snap)
                 /\ recent # <<>> => Last(recent).timestamp < LatestJSON.timestamp
            [] OTHER -> recent # <<>> /\ Last(recent) = LatestJSON

\* From one refresh to the next the page never goes back to an older snapshot
\* (unless a restart left none), nor to smaller cumulative totals, across
\* restarts of the daemon too when no write failed and all could be read
\* (history.go:110-126): only refreshes that overlap can take it back
\* (web_server.go:329).
PageMovesForward ==
    [][page # NoPage /\ ~overlapped =>
         /\ \/ page'.snap.timestamp = NoTime
            \/ page'.snap.timestamp >= page.snap.timestamp
         /\ faults + cuts = 0 =>
              /\ page'.hist.bytes   >= page.hist.bytes
              /\ page'.hist.crossAZ >= page.hist.crossAZ
              /\ page'.hist.cost    >= page.hist.cost]_page

\* The page keeps up with a daemon that serves: every interval published is
\* shown, it or a later one; and when the daemon has no more to report, all the
\* refreshes that overlapped are past and the page stays at the newest of both
\* (web_server.go:301-315,328-329).
PageCatchesUp ==
    /\ \A t \in Times :
         (Serving /\ LatestJSON.timestamp >= t)
           ~> (~Serving \/ (page # NoPage /\ page.snap.timestamp >= t))
    /\ <>[]Serving
         => <>[](page = [snap |-> LatestJSON, hist |-> HistoryJSON])
=============================================================================
