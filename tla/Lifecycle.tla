----------------------------- MODULE Lifecycle -----------------------------
(***************************************************************************)
(* Starting and stopping the daemon: cmd/daemon/main.go, ebpf.Start in     *)
(* loader.go, StartInformer's outcome, the listening of exporter.Start and *)
(* the startup screen of pkg/tui/startup.go.  The goroutines are main, the *)
(* one that sets up and then reads events, the one that listens, the one   *)
(* that waits for a signal, and bubbletea's loop; they meet in errCh,      *)
(* stopCh and the Reporter's buffered channel.                             *)
(***************************************************************************)
EXTENDS Integers, Sequences

CONSTANT Modes \* of {"screen", "log"}: with a terminal, without one

VARIABLES
    mode,
    main,      \* "screen" or "select", then "waiting" for errCh, then "exited"
    setup,     \* where the setup goroutine is, or how it ended
    outbox,    \* what it has to report before its next step
    server,    \* exporter.Start's goroutine: "off", "starting", "on" or "failed"
    errCh,     \* "none" yet, what it put there, or "taken"
    signalled, \* a SIGINT or SIGTERM has come
    stopped,   \* stopCh is closed
    watcher,   \* the goroutine of main.go:90-94
    updates,   \* Reporter.updates
    screen     \* the Model, and whether the program runs

setupVars  == <<setup, outbox, server, errCh>>
stopVars   == <<signalled, stopped, watcher>>
screenVars == <<updates, screen>>
vars == <<mode, main, setupVars, stopVars, screenVars>>

Steps == 0 .. 2
StepMsg(i, s) == [type |-> "step", index |-> i, status |-> s]
ReadyMsg == [type |-> "ready"]
QuitMsg  == [type |-> "quit"]

\* make(chan tea.Msg, 16).  Mutant: a channel sized for the steps alone.
StepsCapacity == 3
Capacity == 16

-----------------------------------------------------------------------------
(* The setup goroutine. *)
Going == main # "exited" /\ outbox = <<>>
Reports(msgs) == outbox' = IF mode = "screen" THEN msgs ELSE <<>>

\* It moves on from one place to the next, with these reports to make.
Moves(from, to, msgs) ==
    /\ Going /\ setup = from
    /\ setup' = to
    /\ Reports(msgs)
    /\ UNCHANGED <<mode, main, errCh, stopVars, screenVars>>

\* StartInformer returns: synced; an error, or stopCh was closed first.
Synced ==
    /\ Moves("syncing", "attaching", <<StepMsg(0, "done"), StepMsg(1, "active")>>)
    /\ UNCHANGED server
SyncFailed ==
    /\ Moves("syncing", "sync failed", <<StepMsg(0, "failed")>>)
    /\ UNCHANGED server
SyncGivesUp == stopped /\ SyncFailed

\* Mutant: ready is announced before the last step is.
ReadyFirst ==
    /\ Moves("restoring", "reading", <<ReadyMsg, StepMsg(2, "done")>>)
    /\ server' = "starting"

\* ebpf.Start as far as report("ebpf"), then as far as report("dashboard"),
\* which comes as soon as exporter.Start has left the listening to a goroutine;
\* any other of its calls may fail.
Attached ==
    /\ Moves("attaching", "restoring", <<StepMsg(1, "done"), StepMsg(2, "active")>>)
    /\ UNCHANGED server
Restored ==
    /\ Moves("restoring", "reading", <<StepMsg(2, "done"), ReadyMsg>>)
    /\ server' = "starting"
AttachFailed  == Moves("attaching", "attach failed", <<>>) /\ UNCHANGED server
RestoreFailed == Moves("restoring", "restore failed", <<>>) /\ UNCHANGED server

\* ReadEvents: stopCh closed the reader, or an error.
ReaderClosed == stopped /\ Moves("reading", "stopped", <<>>) /\ UNCHANGED server
ReadFailed   == Moves("reading", "read failed", <<>>) /\ UNCHANGED server

\* http.ListenAndServe binds the socket, or returns an error, which is logged;
\* nobody else hears of it.
Listen ==
    /\ main # "exited" /\ server = "starting"
    /\ server' \in {"on", "failed"}
    /\ UNCHANGED <<mode, main, setup, outbox, errCh, stopVars, screenVars>>

StartFailures == {"attach failed", "restore failed"}
Ended == StartFailures \cup {"sync failed", "read failed", "stopped"}

SendReport ==
    /\ main # "exited" /\ outbox # <<>>
    /\ Len(updates) < Capacity
    /\ updates' = Append(updates, Head(outbox))
    /\ outbox' = Tail(outbox)
    /\ UNCHANGED <<mode, main, setup, server, errCh, stopVars, screen>>

SendErr ==
    /\ Going /\ setup \in Ended /\ errCh = "none"
    /\ errCh' = setup
    /\ UNCHANGED <<mode, main, setup, server, outbox, stopVars, screenVars>>

-----------------------------------------------------------------------------
(* Signals. *)
Signal ==
    /\ main # "exited" /\ ~signalled
    /\ signalled' = TRUE
    /\ UNCHANGED <<mode, main, setupVars, stopped, watcher, screenVars>>

\* With a screen a goroutine closes stopCh, then tells the screen.
\* Mutant: only the screen is told.
WatcherForgets ==
    /\ main # "exited" /\ mode = "screen" /\ watcher = "waits" /\ signalled
    /\ watcher' = "quits"
    /\ UNCHANGED <<mode, main, setupVars, signalled, stopped, screenVars>>

WatcherStops ==
    /\ main # "exited" /\ mode = "screen" /\ watcher = "waits" /\ signalled
    /\ stopped' = TRUE
    /\ watcher' = "quits"
    /\ UNCHANGED <<mode, main, setupVars, signalled, screenVars>>

WatcherQuits ==
    /\ main # "exited" /\ watcher = "quits"
    /\ Len(updates) < Capacity
    /\ updates' = Append(updates, QuitMsg)
    /\ watcher' = "over"
    /\ UNCHANGED <<mode, main, setupVars, signalled, stopped, screen>>

-----------------------------------------------------------------------------
(* The screen. *)
Running == main # "exited" /\ screen.running
Ends(s) == [s EXCEPT !.running = FALSE]
UnchangedButScreen == UNCHANGED <<mode, main, setupVars, stopVars>>

\* Mutant: a failed step is not remembered.
UpdateForgets(s, msg) ==
    CASE msg.type = "step"  -> [s EXCEPT !.status[msg.index] = msg.status]
      [] msg.type = "ready" -> [s EXCEPT !.ready = TRUE]
      [] msg.type = "quit"  -> Ends(s)

\* Model.Update for the message that waitForUpdate took.
Update(s, msg) ==
    CASE msg.type = "step"  -> [s EXCEPT !.status[msg.index] = msg.status,
                                         !.failed = @ \/ msg.status = "failed"]
      [] msg.type = "ready" -> [s EXCEPT !.ready = TRUE]
      [] msg.type = "quit"  -> Ends(s)

ScreenReceives ==
    /\ Running /\ updates # <<>>
    /\ screen' = Update(screen, Head(updates))
    /\ updates' = Tail(updates)
    /\ UnchangedButScreen

\* Keys: q and enter once ready, ctrl+c also once failed.
PressEnter ==
    /\ Running /\ screen.ready
    /\ screen' = Ends(screen)
    /\ UnchangedButScreen /\ UNCHANGED updates

PressCtrlC ==
    /\ Running /\ (screen.ready \/ screen.failed)
    /\ screen' = Ends(screen)
    /\ UnchangedButScreen /\ UNCHANGED updates

\* program.Run returns by itself: an error, or bubbletea's own signal handler.
ScreenDies ==
    /\ Running
    /\ screen' = Ends(screen)
    /\ UnchangedButScreen /\ UNCHANGED updates

-----------------------------------------------------------------------------
(* main. *)
ScreenEnded ==
    /\ main = "screen" /\ ~screen.running
    /\ main' = "waiting"
    /\ UNCHANGED <<mode, setupVars, stopVars, screenVars>>

\* Mutant: main returns without waiting for errCh.
SelectSignalReturns ==
    /\ main = "select" /\ signalled
    /\ stopped' = TRUE
    /\ main' = "exited"
    /\ UNCHANGED <<mode, setupVars, signalled, watcher, screenVars>>

SelectSignal ==
    /\ main = "select" /\ signalled
    /\ stopped' = TRUE
    /\ main' = "waiting"
    /\ UNCHANGED <<mode, setupVars, signalled, watcher, screenVars>>

ReceiveErr ==
    /\ main \in {"select", "waiting"} /\ errCh \in Ended
    /\ errCh' = "taken"
    /\ main' = "exited"
    /\ UNCHANGED <<mode, setup, server, outbox, stopVars, screenVars>>

-----------------------------------------------------------------------------
Init ==
    /\ mode \in Modes
    /\ main = IF mode = "screen" THEN "screen" ELSE "select"
    /\ setup = "syncing"
    /\ outbox = IF mode = "screen" THEN <<StepMsg(0, "active")>> ELSE <<>>
    /\ server = "off"
    /\ errCh = "none"
    /\ signalled = FALSE /\ stopped = FALSE /\ watcher = "waits"
    /\ updates = <<>>
    /\ screen = [running |-> mode = "screen", ready |-> FALSE, failed |-> FALSE,
                 status |-> [i \in Steps |-> "pending"]]

Setup   == \/ Synced \/ SyncFailed \/ Attached \/ Restored
           \/ AttachFailed \/ RestoreFailed \/ ReaderClosed \/ ReadFailed \/ SendReport \/ SendErr
Watcher == WatcherStops \/ WatcherQuits
Screen  == ScreenReceives \/ PressEnter \/ PressCtrlC \/ ScreenDies
Main    == ScreenEnded \/ SelectSignal \/ ReceiveErr

Next == Setup \/ Listen \/ Signal \/ Watcher \/ Screen \/ Main

\* Goroutines that can run do, and the calls of ebpf.Start return.  Nothing
\* makes an API server answer, a reader fail, a signal come or a key be pressed,
\* except that somebody who is told to press ctrl+c does.
Fairness ==
    /\ WF_vars(SyncGivesUp)
    /\ WF_vars(Attached \/ AttachFailed) /\ WF_vars(Restored \/ RestoreFailed)
    /\ WF_vars(ReaderClosed)
    /\ WF_vars(SendReport) /\ WF_vars(SendErr)
    /\ WF_vars(Watcher)
    /\ WF_vars(ScreenReceives)
    /\ WF_vars(screen.failed /\ PressCtrlC)
    /\ WF_vars(Main)

Spec == Init /\ [][Next]_vars /\ Fairness

-----------------------------------------------------------------------------
\* No send to the Reporter's channel ever waits, whether or not the screen is
\* there to take messages: neither setup nor the shutdown hangs on a screen
\* that ended early (startup.go:39,42-50, main.go:93).
ReporterNeverBlocks ==
    main # "exited" /\ (outbox # <<>> \/ watcher = "quits") => Len(updates) < Capacity

\* The screen is behind setup and tells its story in order: no step is shown done
\* before setup has passed it, nor begun before the one above it is done; ready
\* comes when all are done; and failed is shown of a failed sync alone, which is
\* never shown ready (main.go:67-85).  Passing the last step is no more than
\* calling exporter.Start, and a screen that is ready stays so whatever fails
\* later: the dashboard (DashboardIsUp, below) or the reading of events.
ScreenFollowsSetup ==
    LET shown  == screen.status
        passed == CASE setup \in {"syncing", "sync failed"} -> {}
                    [] setup \in {"attaching", "attach failed"} -> {0}
                    [] setup \in {"restoring", "restore failed"} -> {0, 1}
                    [] OTHER -> Steps
    IN  /\ {i \in Steps : shown[i] = "done"} \subseteq passed
        /\ \A i \in {1, 2} : shown[i] # "pending" => shown[i - 1] = "done"
        /\ shown[2] = "done" => server # "off"
        /\ screen.ready => \A i \in Steps : shown[i] = "done"
        /\ screen.failed => setup = "sync failed" /\ ~screen.ready

\* main returns only when ebpf.Start or StartInformer has, so that the deferred
\* closes of probes and reader have run (loader.go:26-68, main.go:53,100).
MainOutlivesStart == main = "exited" => setup \in Ended

\* A signal always ends the daemon, whatever it is in the middle of
\* (main.go:50-53,90-100).
SignalsEndIt == signalled ~> main = "exited"

\* Without a terminal every failure ends the daemon; with one, a failure to
\* sync is shown first, and ends it by ctrl+c (main.go:54-57,69, startup.go:133).
FailuresEndIt ==
    /\ (mode = "log" /\ setup \in Ended) ~> main = "exited"
    /\ setup = "sync failed" ~> main = "exited"

\* startup.go:178 "Startup failed - see error above. Press ctrl+c to exit."
\* Violated: only StartInformer's error is reported to the screen.  When
\* ebpf.Start fails its error waits in errCh behind program.Run, no step is
\* marked failed, and ctrl+c is ignored (main.go:87,96-100, startup.go:129-135).
StartupFailureIsShown ==
    setup \in StartFailures ~> (screen.failed \/ main = "exited")

\* loader.go:13-16 "report is called with ... "dashboard" once the HTTP server
\* is up".  Violated: the report comes while the goroutine of exporter.Start
\* has yet to bind the socket (loader.go:82-86, web_server.go:354-359); when it
\* fails to, the step stays done and the screen names an address nobody serves.
DashboardIsUp == screen.status[2] = "done" => server # "failed"
=============================================================================
