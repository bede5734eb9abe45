# TraceWulf: TLA+ models, checks and proofs

TraceWulf is an eBPF agent for Kubernetes nodes: kernel probes see TCP connects
and sends, the daemon puts pod, service and zone names to the addresses,
aggregates per flow, estimates what traffic between availability zones costs,
shows it on a dashboard and keeps a history across restarts. This directory
models the parts of it whose correctness depends on interleavings, failures and
restarts, checks them with TLC on small instances, and proves with TLAPS, for
every value of the constants, all of the safety properties that the passing runs
check. Paths below are relative to `src/`.

## The system

| Part | Code | State | Operations | Meets |
|---|---|---|---|---|
| Kernel tracer | `bpf/tracer.bpf.c` | `sock_map`, `recv_sock_map` (10240 entries each, keyed by pid_tgid), ring buffer (16 MiB) | six probe programs | the event reader, through the ring buffer |
| Event reader | `ebpf/reader.go` | none but locals | `ReadEvents`: read, filter by type, decode, resolve, classify, record | cache (lookups), statistics (Record calls) |
| Identity cache | `k8s/cache.go`, `k8s/informer.go` | pod, service and node maps under one lock | handlers of three informers; lookups | API server through client-go, the reader |
| Flow statistics | `ebpf/stats.go` | flow table, exec counter, last snapshot; a reporter goroutine | RecordExec/TCP/Bytes, snapshotAndReset, LatestJSON, StartReporter | reader, history, HTTP handlers |
| Durable history | `ebpf/history.go` | JSON-lines file; totals, start date and ring of 360 intervals in memory | NewHistoryStore (replay), Record, HistoryJSON | reporter, HTTP handlers |
| Start and stop | `cmd/daemon/main.go`, `ebpf/loader.go` | errCh, stopCh, sigCh | two modes: with a screen, with a log | everything |
| Startup screen | `tui/startup.go` | step statuses, ready, failed; a channel of 16 updates | Reporter, Update, View | main |
| Exporter and dashboard | `exporter/web_server.go` | a listening goroutine; the page's last answers, and its refreshes on their way | /snapshot, /history, refresh | statistics, history |

What is hard here: the reporter works in three separate critical sections while
events keep coming; writes fail or stop half way, and the process dies anywhere
between; the cache follows three unordered streams of notifications with gaps,
and is read by several separate lookups per event; probes of one call run at two
times with other threads in between, over bounded maps that fill up silently;
five goroutines start and stop each other through channels; a page asks twice per
refresh, overlaps its own refreshes and outlives the daemon. `PROJECT.json`
lists every such hazard at its line, with the property that covers it or why none
does.

What makes each part correct: the tracer charges each event to the right
socket and once; the cache never invents an identity and converges when things
settle; an event's name and zone are of one entry of the cache, or a handler
came between; the table is exactly
the events of its interval; no byte is lost or doubled on the way to the
history, and a restart finds again what was recorded; a signal ends the
daemon, and a failure is reported; the page shows what the daemon has, in order.

## Modules

| Module | Models | Correspondence |
|---|---|---|
| `Stats` | `stats.go` | `conns`, `execCnt`, `lastJSON` are the fields; `snap` and `rep` are the reporter's local snapshot and its place. One action per critical section: `Tick` (snapshotAndReset), `Publish` (lastJSON), `Recorded` (history.Record returns). |
| `StatsLog` | `Stats` under any stream of events | ghost `log` of the interval's events; `Aggregate(log)` is the reference definition of the table, by the positions of each flow's events in the log: how many connects, the sum of the bytes, the zone at the last position where one resolved. |
| `DurableLog` | what a history promises | a log and, while open, a view that is the summary of the records counted. Until the first fault the two are one; a fault may cost the log its end, or make the view count a record the log misses. |
| `History` | `history.go` | `lines` and `tail` are the file (what replay can tell apart of it), `store` the HistoryStore, ghost `counted` the records it has summed. `Record` has four outcomes: complete, unwritten, short, process dead in the middle. `HostCrash` takes unsynced bytes off the end of the file, a line at a time; `NewHistoryStoreCut` is a start whose read fails (at once or on the way), which the code takes for the end of the file. |
| `Accounting` | `Stats` + `History` + the life of the process | `Boot` is `ebpf.Start` from NewHistoryStore on; `Exit` is main returning after ReadEvents did, wherever the reporter is; `Kill`, `KillInRecord` and `HostDies` are crashes. Ghosts `fed`, `handed`, `lost` follow the bytes of each flow. |
| `Watch` | one client-go informer (external) | ordered notifications while the watch is up, differences and tombstones from the relist after a gap. |
| `Identity` | `cache.go`, `informer.go` | three instances of `Watch`; `HandlePod`, `HandleService`, `HandleNode` are the handlers; the cluster's own actions are external: pods, services and nodes are created, changed (a live service may take a ClusterIP or give it up), touched and removed. Ghosts `everHeld`, `everServed`, `everZoned` are the facts that were true at some time. |
| `Resolver` | `resolveName`, `resolveZone`, `ReadEvents` over `Identity` | one action per lookup that takes the cache's lock. Ghost `seen` is what the pod map has said of each address since the event was read. |
| `Addresses` | byte order, `swapUint16`, `classify` of `reader.go` | octets as they lie in the socket, the little-endian read, the swap, the four private blocks, on full widths. |
| `Tracer` | `tracer.bpf.c` and the tally of `ReadEvents` | entry and return probes, reserve and submit as separate actions of threads; the two maps share their code's shape and are one function. `Ends` is what the probes copy of a socket, `Flow` what the reader decodes of it; `tally` is kept by decoded flow. `SendReturns` is the rest of tcp_sendmsg, which may take less than it was asked for. |
| `Dashboard` | `web_server.go`, `LatestJSON`, `HistoryJSON` over `Accounting` | `listening` is ListenAndServe, `fetching` the refreshes on their way with the answers they have, `page` what is painted. `Daemon` takes a step of `Accounting`: the reporter's, the reader's bytes, start, stop on request, kill. |
| `Lifecycle` | `main.go`, `loader.go`, `startup.go` | the setup goroutine with its pending reports, the goroutine that listens (`server`), the signal goroutine, bubbletea's loop, main. |
| `Induction` | lemmas | induction on sequences and finite sets, the laws of sums. |
| `HistoryProofs`, `StatsProofs`, `AccountingProofs`, `DashboardProofs`, `IdentityProofs`, `TracerProofs`, `LifecycleProofs` | theorems | one module per component, `IdentityProofs` for `Resolver` too; see below. |

`MC*` modules only give values to constants (`MCResolver` also fixes a starting
cluster and bounds when changes may come, `MCDashboard` the place of a stop). Operators under a comment that begins with "Mutant" are plausible
mistakes; each replaces one definition to show that a property is sensitive to
the code (`PROJECT.json`, "mutants"), and no specification uses one.

Composition: `StatsLog` and `Accounting` extend `Stats`; `Accounting` also
extends `History` and is checked to implement `HistorySpec`, so what is shown or
proved of `History` alone holds in the pipeline; `History` implements
`DurableLog`; `Dashboard` extends `Accounting`, `Tracer` extends `Addresses`;
`Resolver` extends `Identity`, which instantiates `Watch`.

## Runs

| Run | Bounds | Shows |
|---|---|---|
| `History` | 5 intervals of 3 kinds, ring of 2, 3 faults | types; `LossBounded`: f failed writes and lost lines cost at most 2f intervals, with its inductive strengthening `LossPotential`; `ReplayIsHonest`: nothing twice, out of order or invented; `SinceDatesTheTotals`, after a replay cut short as well; `History` implements `DurableLog` |
| `HistoryComplete` | 3 intervals, 1 fault | **violated**: a complete write is lost behind a torn tail |
| `StatsLog` | 2 flows, 4 zone pairs, 3 events | the table is the aggregate of exactly its interval's events; what is published is what is handed over; flows reach the dashboard unless the reporter stops |
| `Accounting` | 2 flows, 1 byte each, clock to 3, 1 fault, any number of starts | each byte is in the table, carried, handed over or lost with a process; without write faults the file restores exactly what was handed over and the cost is the crossing share at the rate; the pipeline implements `HistorySpec` |
| `AccountingStop` | 1 flow | **violated**: a stop on request loses the interval in progress |
| `IdentityGap` | only gaps | **violated**: a deletion found by a relist leaves its entry for good |
| `Resolver` | 2 pods, nodes, zones, pod addresses and services, 1 ClusterIP; 3 changes, an event in work during the first 2 | `EntriesWereTrue`: what an entry of the three maps says was true once; `CleanConverges`: when quiet the cache equals the API server's state, for what no quirk has touched; `CrossingWasPossible`: a crossing has at each end a pod that once ran in that very zone; `NameAndZoneAgree`: name and zone of an address are of one entry the cache had during the event, or a handler changed the entry meanwhile |
| `Tracer` | 3 threads, 1 IPv4 and 2 IPv6 sockets, ring of 2, maps of 2, 3 calls, 1 missed return, sends of 2 bytes taken in whole, in part or not | per decoded flow and kind: recorded + waiting + lost = happened, and covers what was sent; map entries have calls |
| `Dashboard` | 1 flow of 1 byte, 2 intervals, ring of 1, 2 refreshes at a time, any number of starts and kills, a stop on request between the two intervals, no write faults | /snapshot is ahead of /history by the interval being handed over at most, and never behind; only overlapping refreshes take the page back, also across restarts; a daemon that serves is caught up with |
| `Lifecycle` | both modes, no other bound | no send to the screen's channel can wait; the screen is behind setup and tells its steps in order; main outlives `ebpf.Start`; a signal always ends the daemon, and so does a failure that is reported |
| `LifecycleFailure` | same | **violated**: a failure of `ebpf.Start` is not shown and no key ends the screen |
| `LifecycleDashboard` | same | **violated**: the dashboard is shown started, and the screen ready, although its server failed to listen |

Why the bounds are enough. A history fault shows its whole effect within three
intervals (the torn one, the one glued to it, the next); five with three faults
let faults meet, and a ring of 2 turns over twice. Three events are enough for
two flows to be split over two intervals in every order with two zone
observations of one flow. For the
cache the longest interesting stories (lose the watch, delete, reuse the address;
retype a service, give its ClusterIP to another) are two or three changes from the
start that `Resolver` takes: one pod running, one scheduled, one service with a
ClusterIP and one to come. A change before every informer has listed would only
make another start, so changes begin after. Passing an address from one pod to the
other takes two changes, relabelling a node one; they can fall between any two
lookups of an event.
The tracer's ring and maps are smaller than its threads, so both overflow; three
calls fill either and leave one over, or let a thread meet the entry that a
missed return left. On the page, two intervals are an older and a newer one, two
refreshes can overlap in every way, and a ring of one does not hold what the
totals hold. A stop between the intervals leaves a daemon that serves on with one
interval published, and a later daemon's interval to compare it with. What faults do to the history is the matter of `History` and
`Accounting`; `Dashboard` has none, so that its liveness can be checked.
`Lifecycle` has no data to bound; its channel has its real capacity.

Fairness. Only what the Go scheduler and the kernel give: the ticker fires and
the reporter goroutine runs (`StatsLog`); goroutines that can run do, and the
calls of `ebpf.Start` return with or without an error (`Lifecycle`); the tab stays
open, its timer fires, and the oldest request on its way is answered while the
server serves (`Dashboard`). Nothing
makes events or signals come, an API server answer, a reader fail or a socket be
free to listen on: `Listen` has no fairness in either module. One user
assumption: who is shown "press ctrl+c to exit" presses it. All other runs check
safety and need none. Deadlock checking is off where the daemon or the bounded
environment really may stop: after exit, or with its changes used up.

## What is proved

Every invariant of the passing runs and every action property and refinement
among their properties, for all values of the constants. A theorem rests on the
named assumptions of the modules it is about, listed below, and on nothing else.
What an invariant needs beside itself to be inductive was checked by TLC before
it was proved.

### The history (`HistoryProofs`)

* `HistoryTypeCorrect`: `HistorySpec => []HistoryTypeOK`, the ring's cap included.
  It rests on `ReplayType`: whatever lines are in the file, replay gives a store
  of the right type with at most `RingCap` entries.
* `LossBoundedCorrect`: `HistorySpec => []LossBounded`. `LossBounded` is not
  inductive: a fault may cost nothing when it happens and make the next complete
  append fail. `LossPotential` adds what the tail may still cost (nothing, one
  for a fragment, two for a whole record without its newline) and is inductive
  together with the finiteness of the set of issued records (`LossInvCorrect`,
  `LossPotentialCorrect`). One lemma per way a record may end: `LostByAppend`,
  `LostByFragment`, `LostByFailure`.
* `ReplayIsHonestCorrect`: `HistorySpec => []ReplayIsHonest`, inductive together
  with the types: every append, whole or torn, replaces what followed the last
  complete line by the new record or by a malformed line (`AppendedLine`), the
  complete lines of an honest file are honest (`HonestLines`), and the new record
  is later than all before it.
* `SinceDatesTheTotalsCorrect`: `HistorySpec => []SinceDatesTheTotals`. Its core is
  `ReplayDates`: a store replayed from lines in order has the date of their first
  record, and none if there is no record. It needs the order that
  `ReplayIsHonest` gives. It speaks of what the totals count: after a replay cut
  short the file may hold older records, which the store does not know.
* `DurableRefinement`: `HistorySpec => ImplementsDurableLog`, for every bound on the
  faults, zero included. The invariant behind it (`Summarised`) says that an open
  store is the summary of `counted`, and that before the first fault the file has
  no malformed line, no tail, and is `counted`. `ReplayAgrees` (replay computes
  the summary) and `AbsorbAgrees` (one more record keeps it) are its core,
  `PushNewest` the fact that dropping the head keeps the newest `RingCap` entries;
  `LogFrayed` and `LogLosesEnd` say what an append, whole or torn, and a host
  crash do to the records a start would find.

### Statistics (`StatsProofs`)

* `TypeCorrect`, `TableMatchesLogCorrect`, `PublishedIsHandedOverCorrect`. The core
  is `AggregateOneMore`: a table that is the aggregate of a log is the aggregate
  of the log with one more event after getOrCreate and the update, whatever the
  event. It joins one lemma per column on the side of the log (`ConnectsOneMore`,
  `BytesOneMore`, `LastKnownOneMore`) to `ObservedTable` on the side of the table.
  The invariant `Inv` adds that there are no more execs than events (`CountsFit`)
  and that a snapshot about to be recorded has been published (`PublishedFirst`).

### The pipeline (`AccountingProofs`)

* `TypeCorrect`, `ConservationCorrect`: inductive with each other, with the bound
  on what a flow is fed (`Fits`), with the pace of the clock (`Paced`: everything
  recorded is older than what the reporter carries) and with `Gone` (without a
  process there is no table).
* `HistoryRefinement`: `Spec => HistorySpec` with the history's own variables: each
  step of the pipeline is one of `History` or leaves it alone. A record made of a
  table must be one of `Records` (`IntervalRecord` of a table whose flows hold at
  most `MaxBytes` each: the sum lemmas of `Induction`), and later than all
  before it (`Paced`). `PipelineIsDurable` follows: the running system implements
  `DurableLog`.
* `RestoredTotalsCorrect`. The invariant (`Restored`) says of a file that no fault
  has touched that it has no tail, that its records sum to `handed`, and that an
  open store whose start could read everything has the file's totals. It needs
  that a table's total is the sum over its flows (`TotalBytesIs`) and its cost
  the rate times the share that crosses zones (`CostIs`).

### The dashboard (`DashboardProofs`)

* `DashboardTypeCorrect`, `ServedTogetherCorrect`, `PageMovesForwardCorrect`, from
  `Served`: the pipeline's invariants, `Newest` (what is served as newest interval
  and the last entry of the ring are the same one, or the reporter is between
  publishing and recording it), `Shown` (answers on their way were given, and if
  refreshes never overlapped there is one at most and it is no older than the
  page) and `Listens` (there is a server exactly while a process is up).

### The tracer and its reader (`TracerProofs`)

* `AddressIsRead`, `PortIsRead`, from no assumption at all: the little-endian read
  and what `reader.go` does next give back every address and every port. TLC's
  integers have 32 bits and meet only addresses whose last octet is below 128; the
  theorems have no bound. `InternalIsPrivate`: `Classify` says internal exactly for
  10/8, 172.16/12, 192.168/16 and 127/8.
* `TypeCorrect`, `EntriesHaveCallsCorrect`, from `CallInv`. It adds `OwnEntry`: the
  entry of a thread in a probed call is that call's, even when an earlier return
  was missed, because the entry probe overwrites what was left.
* `EventsBalanceCorrect`, from `RecordsInv`: the same balance per kind and group of
  sockets that decode to one flow, with the records of the ring counted by
  position; what happens to a socket moves its group and no other, because two
  sockets have one decoded flow or none in common.
* `SendsAreCoveredCorrect`, from `SendsInv`: for each socket, the bytes taken and
  those that calls under way have asked for are at most those made known; summed
  over the threads with `SumChange`.

### Identity (`IdentityProofs`)

* `CacheTypeCorrect`, `EntriesWereTrueCorrect`, from `ClusterInv`: each informer's
  copy and every notification it has queued speak only of facts that were true
  (`WatchOK`), proved once for a watch of anything and used for three.
* `CrossingWasPossibleCorrect`, `NameAndZoneAgreeCorrect`, from `ClusterInv` and
  `ResolverInv`: the present entry of an address is in `seen` and all of `seen` was
  true (`SeenIsTrue`); names, nodes and zones found so far are of entries in `seen`
  (`NameWasTrue`, `HostWasTrue`, `ZoneWasTrue`); an address that got no pod's name was
  without an entry at some lookup (`MissIsSeen`). So if `seen` is one entry, name and
  zone can only be its own. Facts are never taken back, and later handlers cannot
  undo them.
* `CleanConvergesCorrect`, from `Converging`. What TLC checks only when everything
  is quiet is proved by an invariant of every state: for each address no quirk has
  touched, no two objects own it, and the queue of notifications, read from the
  cache's present entry to its end, settles on what the informer knows (`Agreed`).
  Also stated for a watch of anything: one lemma for a change, one for a relist
  after a gap, one for a delivery, one for the quiet end.

### Start and stop (`LifecycleProofs`)

* `MainOutlivesStartCorrect`, from `ErrIsAnEnd` (errCh holds something only once
  setup has ended).
* `ReporterNeverBlocksCorrect`, from `EnoughRoom`: messages in the channel, those
  about to be sent, those that setup and the watcher may yet send are eight at
  most. Seven reports and one quit are all there ever is, in a channel of sixteen.
* `ScreenFollowsSetupCorrect`, from `Truthful`: facts about the order of the messages
  still on their way. What was passed is shown done or on its way, nothing is said
  of a step after it was done nor before the one above it was (`ToldInOrder`),
  nothing at all after ready; and from `ServerIsCalled`: the last step is passed
  only by a call of exporter.Start. That the call came to a listening server is
  what finding 5 denies.

### Assumptions on the constants

Sets are finite where the code's are (flows, sockets, threads, pods, services,
nodes); bounds are naturals; sizes are naturals; `Process` is a function on
threads. Zones are not the empty string, and a missing snapshot is not a snapshot.
`IntervalsAssumption`: the set of records has every one that an interval of at
most `MaxBytes` per flow can come to, and `ClockAssumption` the same for times: a
history takes what the pipeline gives it. `PeerAssumption`: a socket has addresses
and a port, and it is internal exactly when its address is private; which sockets
share a peer is free. `IPsAssumption`, `NamesAssumption`: addresses of pods and of
services do not meet, as in a cluster whose address ranges are set up as
Kubernetes asks, no address is the empty one, and names are not addresses; a cache entry
is never mistaken for none. Two
services do not have one cluster IP at the start either, which the API server
sees to.

### What is not proved

Liveness: `FlowsArePublished`, `PageCatchesUp`, `SignalsEndIt`, `FailuresEndIt` are
checked by TLC, and so is everything that depends on which actions are enabled.
The five findings are violations and have nothing to prove. Replay and totals are
recursive functions over sequences. That such a function exists, and what it does
for one more element, is proved by induction on sets of lengths (`Induction`),
with no operator parameter.

## Findings

1. A record appended behind a torn line is lost although it was written
   completely (`HistoryComplete`; `history.go:85,114`).
2. Stopping on request drops the interval in progress (`AccountingStop`;
   `stats.go:194`, `main.go:53`).
3. Pods, services and nodes deleted while a watch is down stay in the cache:
   the handlers do not know `DeletedFinalStateUnknown` (`IdentityGap`;
   `informer.go:69,102,133`).
4. A failure of `ebpf.Start` leaves the startup screen spinning, unexplained and
   deaf to ctrl+c (`LifecycleFailure`; `main.go:87`, `startup.go:129-135`).
5. The dashboard is reported up before its socket is bound, and stays so when
   listening fails (`LifecycleDashboard`; `loader.go:82-86`, `web_server.go:354-359`,
   against the comment at `loader.go:14-15`, "once the HTTP server is up").

## Abstractions, and what is not modelled

* A history record is its timestamp and three sums; execs and flow counts are
  left out. Timestamps are a clock that does not go back, one reading per interval.
* A host crash takes whole lines or a torn tail off the end of the file, and may
  leave a part of the last line it took. That it cuts a line which two records
  were glued into exactly between the two, and so frees the first, is left out.
  Every line lost is a fault: `LossBounded` counts lines, not crashes.
* The rate is a natural number, a unit of bytes is a GB: floating point, and
  rates that are not finite, are out, and with them the branches of `stats.go:199`
  and `history.go:113` where json.Marshal fails. Class and LastSeen of a flow are out.
* A flow keeps the last zones that resolved until the interval ends
  (`stats.go:70-75`): that is in the table of `Stats`, which `TableMatchesLog` states
  as the code does it. `Resolver` is about the zones of one event.
* `Identity`: namespaces are part of a name. There are five "quirks", after each of
  which the code need not converge, and `CleanConverges` exempts the address or node
  it touched (`EntriesWereTrue` exempts nothing): a pod that completes keeps its
  address while another may get it (`informer.go:74`), moves to another address
  (`informer.go:57`), or shares one; a live service gives its ClusterIP up, which
  UpdateFunc passes over (`informer.go:93`); something is deleted in a gap
  (`informer.go:69,102,133`, finding 3). A service that takes its first ClusterIP is
  no quirk. client-go is modelled with in-order delivery, the default of
  the version in `go.mod`.
* `Tracer`: `pid` and `comm` are left out, nothing reads them; entry probes do not
  miss. The bytes of a send are the size asked for, as in the code: recorded
  traffic may be more than was sent (`SendsAreCovered` says it is never less), and
  a retry is counted again. An IPv6 socket's IPv4 fields hold what Linux puts
  there; that such flows name no peer is what the code does.
* `Dashboard`: a request is answered by the daemon that listens when it arrives,
  and fails when none does; nothing else loses one. On a stop, the server lives
  until the process ends. What the
  startup screen says of the listening is in `Lifecycle` (finding 5).

Not modelled:

* the generated bindings, the vendored headers (`bpf/headers/vmlinux.h` and the
  libbpf ones: 165,000 lines of kernel types and macros, nearly all the C of the
  repository, of which the tracer uses four socket fields and seven helpers), the benchmark
  script, HTML and layout. Of the C that is the program's own, `tracer.bpf.c` and
  `events.h`, all but includes and section names is modelled, so the share of C
  lines that the models cover cannot grow;
* rates that are not finite (`stats.go:15`): the arithmetic of NaN has no place in
  models over the naturals. What they do, the dashboard's snapshot standing still
  while the totals become NaN and nothing is written, is a hazard without a
  property;
* how old an event is when it is resolved (`reader.go:125`): nothing in the code
  bounds it.

## Plan

1. Done: `History` with faults of writes, reads and the host, `DurableLog`, `Stats`,
   `StatsLog`, `Accounting`, `Dashboard`, `Watch`, `Identity`, `Resolver`,
   `Addresses`, `Tracer`, `Lifecycle`; the safety of all of them proved.
2. Model, if it grows: an event's age when it is resolved, joined to `Resolver`.
3. Proofs, if they grow: an abstract cache that `Identity` implements for untouched
   addresses, with `CleanConverges` as its step; an abstract counter per flow that
   `Accounting` implements, with `Conservation` as its mapping.
