# A TLA+ verification of NetLatencyMonitor

NetLatencyMonitor measures latency between nodes. Agents probe the hubs of a
fleet, keep each cycle's results in a local SQLite spool and post them to a
controller, which stores them, publishes metrics and tells agents which hubs to
probe. This directory holds TLA+ models of that program, the TLC runs that check
them on small instances, and proofs that TLAPS checks for all instances.

## The system and its state

| Part | Source | State | Operations | Runs concurrently with |
|---|---|---|---|---|
| spool | `internal/spool` | tables `spool`, `spool_meta`, the size of the file | Enqueue, Drain, markFailure, enforceRetention, SaveDrainSnapshot | a second agent process on the same file |
| agent cycle | `internal/agent/spoke.go`, `hub.go`, `cmd/nlm-agent` | the batch and the snapshot in memory | Spoke.Run | controller, other process, time |
| HTTP client | `internal/agent/client.go` | a request in progress | Send, notifyVersion | the handler, which a timeout does not stop |
| ingest | `internal/controller/results.go`, `auth.go` | `probe_results`, spool columns of `nodes`, `lastDropsByNode`, counters | bearerAuth, handleResults, persistResults | other handlers, between statements |
| registry | `internal/controller/nodes.go`, `admin.go`, `ui.go` | `nodes`, `targets_version` | create, patch, enable, disable, delete, bump | other operators' requests |
| target cache | `internal/agent/targets.go`, `controller/targets.go` | list, known and noticed version, time of fetch | Targets, NoticeVersion, fetch | registry requests |
| tickets | `internal/ticket`, `controller/ws.go` | ticket map, failure map, gauge | Issue, Validate, Prune, Blocked, RecordFailure, upgrade | upgrade handlers, the pruner |
| UI broadcast, matrix | `controller/ws_hub.go`, `ui.go`, `probe_matrix.go` | clients and their buffers | register, unregister, Broadcast, serveUIClient, queryMatrix | ingest handlers, pages |
| Litestream watcher, readiness | `internal/litestream`, `controller/server.go`, `internal/chrony` | last sync, service state, time of the last poll | poll, Healthy, Drift, handleReadyz | requests, the replication service, time |
| configuration, metrics declarations, probes, listener, logging, migrations, templates | the rest | none, or constant after start | | |

Both databases are opened with one connection per process. A statement or a
transaction is therefore atomic and everything between two of them is not; most
of the models turn on that.

## Modules

| Module | Models |
|---|---|
| `Backoff` | `spool.Backoff` on signed machine integers, and the formula of its comment |
| `ProbeRuns` | constants shared by agent and controller |
| `Spool` | the spool and Spoke.Run, for processes `Procs` sharing one file |
| `Ingest` | POST `/api/v1/results` on the controller |
| `Delivery` | `Spool` and `Ingest` joined by Client.Send over a lossy network |
| `RunLedger` | what the two promise together: their abstract specification |
| `PowerLoss` | `Delivery` on a host that can lose power |
| `HostLedger` | what is left of `RunLedger`'s promise on such a host: its abstract specification |
| `NodeRegistry` | the nodes table and `targets_version` under concurrent operators |
| `TargetSync` | an agent's target cache on top of `NodeRegistry` |
| `WSTickets` | tickets, failure limiter and the upgrade handler |
| `Readiness` | the Litestream watcher and tracker, and GET `/readyz` |
| `Dashboard` | broadcasts to the UI, the hub of its WebSockets, the matrix a page polls |
| `SpoolProofs`, `DeliveryProofs`, `LedgerProofs`, `PowerProofs` | theorems about `Spool` and `Backoff`, about `Delivery`, its refinement of `RunLedger` and its counter, and about `PowerLoss`; each builds on the one before |
| `RegistryProofs` | theorems about `NodeRegistry` and `TargetSync` |
| `WSTicketsProofs`, `ReadinessProofs`, `DashboardProofs` | theorems about those modules |
| `MC*` | instances for TLC: bounds and symmetry sets |

### Spool

Variables `spool`, `dropsTotal`, `saved` are the tables; `pages` is the size of
the database file; `payload` keeps the SpoolMetadata encoded in each run's body.
`pc`, `batch` and `snap` are the locals of each process. `dropped` and
`uncounted` are history variables. One action is one SQL statement with the Go
code up to the next one: `BeginCycle` (LastDrainSnapshot), `Enqueue`, `Select`,
`StartSend`, `SendReturn`, `DeleteRow`, `MarkFailure`, `EndBatch`,
`RetentionCheck`, `NoRowLeft`, `DropOldest`, `BumpDrops`, `Measure`, `SaveDepth`,
`SaveDrops`. `Stop` ends a cycle at any point: the process is killed, the
context expires, or a statement fails. `Tick` is time.

Abstractions:

* A run is named by the AUTOINCREMENT id of its row. `probe_run_id` is a fresh
  UUIDv7, so the `ErrDuplicate` branch of Enqueue is left out. The system clock
  does not step back, so `ORDER BY enqueued_at` is the order of runs.
* A timestamp is its age in ticks, capped where no comparison distinguishes
  larger ages. CURRENT_TIMESTAMP has a resolution of `Second` ticks, hence a new
  row's age starts at `phase`.
* The footprint is the size of the database file, counted in rows: SQLite reuses
  free pages and gives none back. The WAL's share is left out.
* The three reads of `RetentionCheck`, and the three of `Measure`, are one step.
  `RetentionCheck` reads the table more than once, with only the footprint
  outside it. `last_oldest_age_secs`, which decides nothing, is left out.
* Permanent and transient failures are treated alike by Drain, and so here.
* Once all `Runs` are produced, further cycles drain without a new row.

### Ingest and Delivery

`conn[c]` is a request in progress: sent, authenticated, stored, booked (spool
columns updated), answered. `BearerAuth`, `PersistResults`, `UpdateSpoolStats`
and `CountMetrics` are the steps of the handler, each one database access or one
critical section. `caller[c]` is the process that waits for the answer; after
`GiveUp` or `StopCycle` nobody does, and the handler goes on. `Vanish` loses a
request or an answer. A handler whose request context is cancelled shows as a
failed statement (fault `dberr`). The constant `Faults` selects what may go
wrong: `stop`, `timeout`, `dberr`, `credential`, `crash`, `readerr`.

### PowerLoss

The spool is opened with `synchronous(NORMAL)` in WAL mode (`spool.go:70`): a
commit survives the death of the process (`Stop`) but not necessarily a power
failure. `durable` is what the disk has of the tables. `Flush` brings it up to
date, which SQLite or the operating system does at moments the program does not
choose, and `PowerFailure` goes back to it: rows that were inserted since are
lost, deletions and failure marks are taken back, and every process starts from
nothing. Requests already at the controller go on, and its own database is opened
with `synchronous(FULL)`. `undone` is a history variable for the runs whose INSERT
was taken back.

`HostLedger` says the same without agent, network and handlers: `RunLedger`, a copy
of the agent's side that is on the disk (`disk`), `Flush`, and a `PowerFailure` after
which the agent's side is that copy while the controller's is untouched.

### NodeRegistry and TargetSync

`req[a]` is the request an operator has in progress: the row it means to write
and the row it read. `UpsertRead`, `UpsertWrite`, `DeleteWrite` and `Bump` are
its statements. For a request that is refused, nothing changes and there is no
step. The role `listener` is handled as `spoke`. `TargetSync` adds one agent:
`FetchRows` and `FetchVersion` are the two statements of HubTargetsFor,
`NoticeVersion` the echo in a results answer, `Age` the passing of
NLM_HUB_REFRESH_INTERVAL. `Probe` ends a cycle that has no targets, before the
drain. The operators' request budget `MaxRequests` makes "once the operators are
done" a state that is reached. `origin` and `reading` are history: the version at
the time the rows of the cached list, or of the answer in progress, were read, and
whether a change of the hubs has gone untold since, its bump lost or its write
compared with a stale row. At the start the table is empty or has one node, enabled
and with an address, that was registered earlier; with such a node two requests are
enough to work on the same row.

The two statements of HubTargetsFor can give the agent the old list under the
new version. `controller/targets.go:8` says that agents refetch only on a new
version; it is the refresh by age that repairs such a list, and `CacheCatchesUp`
fails without it. `StaleListHasReason` lists all the ways to a wrong list: the agent
knows another version than the current one, the version it was given is not the one
its rows were read under, a bump is still to come, or a change went untold.

### WSTickets

Store and limiter guard their maps with a mutex, so one call is one step.
An address without an entry is identified with one whose window has passed:
RecordFailure treats them alike. `admitted` counts how often each ticket was
accepted, and `lately` has the ages of the last failures of each address since its
last block, as they happened and not as the limiter counts them: both are history.

`ratelimit.go:11` and `:17` promise a rolling window, in which `limit` failures lead to
a block. The code counts in windows that start with a failure and are over `Window`
later (`ratelimit.go:88-91`; its comment says "Slide the window"), so that `limit - 1`
failures at the end of one window and `limit - 2` at the beginning of the next go
unblocked. With a limit of 3 and a window of 60s, failures at 0, 59, 61 and 62
seconds are an example: three of them lie within four seconds and there is no block.
What does hold is `FewFailures`: less than `2 * limit - 2` failures in any `Window`
without a block, at most 17 for the default limit of 10. No document gives that
number. For a limit of 1 or 2 the two readings agree; the run has a limit of 3, where
they differ.

### Readiness

A tick is a second. `journal` holds the lines a poll can still read, with their
ages; `up` is the service. `PollService` is `systemctl is-active` with the choice
of the window, `PollJournal` and `PollJournalFails` are `journalctl`, which takes up
to `Delay`; `due` and `timer` are the ticker, which holds at most one tick.
`AskChrony` and `Reply` are the two halves of handleReadyz, between which the
watcher may run. `Crash` and `Start` restart the controller with an empty tracker.
`newest`, `downFor` and `gap` are history: the age of the last sync, how long the
service has been inactive, and whether a query has failed since the last sync.
That journalctl returns within `Delay`, at most a polling interval, is an
assumption, as is that systemctl returns within a tick: the code sets no limit for
either.

### Dashboard

Of a results request only the commit (`Commit`) and the broadcast that follows
are kept; `Ingest` has the rest. `casting[c]` is a Broadcast from `Lock` through one
`Offer` per client to `Unlock`. `Connect`, `Forward`, `PumpReturns` and `Unregister`
are the WebSocket of a page, `Load` and `Poll` its requests for the matrix.
`Expire` lets five minutes pass since a run, which may still be on its way.
`pushed` is history, and so is `missed`: what was broadcast before a client registered,
and what found its channel full. Node and targets are active hubs, so the matrix is
queried at all; observations are dated by the agent. A page's script opens its
WebSocket once and does not reconnect.

`Unscannable` is about the driver, which is not part of the repository: modernc.org/sqlite
turns a text into a time by the declared type of its column. `MAX(observed_at)` has none,
and database/sql cannot put the string it gets into `LastSeen`, a `time.Time`. So
queryMatrix fails as soon as there is a row of the last five minutes. `spool.go:135-150`
reads such an aggregate into a `NullString` and parses it.

## Runs

Passing:

| Run | Instance | Shows |
|---|---|---|
| Spool | 1 process, 4 runs, 2-tick seconds, stops; windows for a 7-bit word, all bases and maxima, attempts -1 to 10 | `WindowIsCappedPower`, `ReportsNeverRegress`, `BackoffHonoured`, `RetentionDropsOnlyExcess`, `RetentionSuffices` |
| SpoolLive | 2 processes on one spool, 1 row per drain, 2 runs, failing reads, stops, a Sender that may always fail | `EveryRowLeaves`, `DropsAccounted` |
| Delivery | 1 process, 2 runs of which the first is malformed, 2 requests at a time, faults stop, timeout, dberr, credential, crash | `NoSilentLoss`, `AcceptedMeansStored`, `ResultsCountedOnce`, `ReportsAreGenuine`, `ImplementsLedger` |
| PowerLoss | 1 process, 2 runs, 2 requests at a time, 1 power failure, database errors | `OnlyUnflushedLost`, `ResultsCountedOnce`, `ImplementsHostLedger` |
| TargetSync | 2 operators, 2 requests, failing statements, one restart, an empty table or one node at the start | `HubsHaveAddresses`, `StaleListHasReason`, `ChangeIsBumped`, `CacheCatchesUp`, `PostsResume` |
| WSTickets | 2 tickets, 3 handlers, limit 3 | `AdmittedOnce`, `FewFailures`, `BlockRunsItsTime`, `GaugeIsExact`, `TicketsLeave` |
| Readiness | lag limit 4, interval 2, journalctl up to 1 tick, 2 lines, one restart, failing queries | `ReadyMeansRecent`, `RecentSyncIsSeen`, `GateReopens` |
| Dashboard | 2 requests, 2 pages, buffers of 1, 2 runs | `EventsAreNews`, `SameOrder`, `OnlyFullChannelsMiss`, `RequestsFinish`, `ClientsLeave` |

Each of them also checks a type invariant, except SpoolLive, whose module the run
Spool covers.

Why the bounds are enough for the cases of interest: two requests at a time are
what it takes for a retry to overtake its first attempt; two targets show a
partly stored run; two runs and one row per drain show a row hidden behind
another; `MaxAge` and `MaxSize` are small enough for both retention bounds to be
exceeded; the malformed run is the first, so that the second, which is stored,
can report that it was dropped; `AttemptCap` is assumed to be a count at which the
window has reached its maximum, so no later window differs. Two operators on one row
let a patch write back what it read before the other's write. Handlers that have
passed Blocked before a block begins record their failures inside it, and a limit of
3 is the smallest for which failures of two windows add up. A lag limit of twice the
interval lets syncs fall out of it between polls, and a `Delay` of a tick lets
lines be written while journalctl runs. Two pages with room for
one event each are enough for both to miss different events. Interleavings of
more operators, and of several processes on one spool as far as losses are
concerned, are left to the theorems, which hold for any number.

Runs that TLC refutes, each a disagreement of code and documentation:

| Run | What the repository says | What happens |
|---|---|---|
| Footprint | `spool.go:359` the footprint shrinks as rows are deleted | The file never shrinks and retention keeps deleting |
| DropsMetric | `metrics.go:77` cumulative drops | A late, older report lowers the baseline; the next one is added again |
| LostSecret | `admin.go:77` no secret keeps the existing one | A patch writes back the secret it read, undoing a rotation |
| MatrixFails | `ws_hub.go:47` slow clients catch up via htmx polling | Any row of the last five minutes makes Scan fail, so that the matrix is answered 500 and a page gets nothing by polling |

Properties that hold only in part, as the instances above say:

* `BackoffHonoured` and `RetentionDropsOnlyExcess` hold for one process. The
  manual deployment (`README.md:187-188`) enables the hub daemon and the spoke
  timer on one node with one environment file. With two processes in `Procs`
  TLC finds a row sent inside a window that the other process has just opened,
  and a row within both bounds deleted for an excess the other had removed.
* `RetentionSuffices` is stated for one process as well: between the three reads of
  a check, which are one step of the model, a second process could insert a row.
* `ReportsAreGenuine` does not say that the columns hold the latest report: a row that
  was in backoff is delivered late and overwrites them with an older one.
* `ChangeIsBumped` excepts a write whose comparison row, read by an earlier
  statement of Upsert or Delete, has been changed in between: there a change can
  go without a bump. Agents then depend on the refresh by age.
* `FewFailures` is the bound of the code's fixed windows, about twice that of the rolling
  window which `ratelimit.go:11` and `:17` promise (see WSTickets above). With
  `2 * Limit - 2` replaced by `Limit` TLC finds three failures within a window and no block.
* `ReadyMeansRecent` has the bound `MaxLag + Reach`, not `MaxLag`: a line is stamped
  with the time it is read, so that a sync just before a restart counts for up to
  twice the limit. This is less than the documents say: "the last successful sync
  happened within maxLag" (`litestream.go:94`), and `/readyz` "fails closed when [...]
  Litestream lag exceeds the gate" (`README.md:111-112`).
* `RecentSyncIsSeen` excepts a failed query: its window is not asked for again.
* `OnlyFullChannelsMiss` says what a client can miss, not that it gets it later: polling,
  which is to make up for it, fails (MatrixFails).
* `EveryRowLeaves` asks that some drains come to their end. If every cycle runs
  into its deadline before retention, the spool is not bounded.
* `DropsAccounted` has the term `uncounted`: a cycle that ends between the DELETE
  and the UPDATE leaves a dropped row out of `drops_total`.

## Fairness

* `SpoolFairness`: the timer or ticker starts every cycle, statements return,
  and the HTTP timeout bounds each wait. Time passes. No answer has to be
  positive.
* `TargetSync!Fairness`: cycles and time go on and a request in progress takes
  its next statement or fails. A fetch that is attempted again and again
  succeeds some time (strong fairness of its three steps), since a controller
  that is never reached cannot inform anybody; and a drain ends, since it
  handles at most DrainRows rows.
* `WSTickets!FairSpec`: time passes and the pruner's ticker fires.
* `Readiness!FairSpec`: time passes, subprocesses return, and systemd restarts the
  controller. Neither the service nor the queries have to succeed; `GateReopens`
  names what it needs of them.
* `Dashboard!Fairness`: handlers run and get the lock in the end (strong fairness:
  `sync.Mutex` hands itself over to a waiter that starves), which also holds for
  register and unregister. Pumps need not forward anything and pages need not poll.

## Proofs

All theorems hold for every value of the constants that satisfies the named
ASSUMEs, which TLC evaluates in the runs. They are the settings the loader
accepts; that `BackoffMax`, a time.Duration, is at most `MaxInt`, the largest value
of that type; that the cap `AttemptCap` on the attempts of a row is high enough to
change no window; that bounds on the length of behaviours are natural numbers; and
that `NULL` or `None` is none of the values it stands beside. The number of agent
processes on a file is finite.

`SpoolProofs`, for any Sender:

* `SpoolTypeCorrect`: `SpoolSpec => []SpoolTypeOK`. `SpoolInv` adds that finitely many
  runs were enqueued, so that the counts the code takes are numbers.
* `DropsAreAccounted`: `SpoolSpec => []DropsAccounted` for any number of processes.
  `DropInv` adds that a dropped run is not in the spool, so that each DELETE adds a
  new one; the processes between DELETE and UPDATE are counted.
* `RetentionIsJustified`: with one process, `SpoolSpec => RetentionDropsOnlyExcess`.
  A process about to delete still has the excess it found (`ExcessLasts`): only time
  passes between the two, and a row that is too old stays so.
* `ReportsGrow`: with one process whose reads succeed,
  `SpoolSpec => []ReportsNeverRegress`. `ReportInv` bounds what the process has read by
  the last saved report and the counter, and says that ids grow.
* `WindowDoubles` and `WindowIsPower`: what `Backoff` computes, for every word size and
  every base and max with `0 < base <= max <= MaxInt`: base at first, then twice the
  last window or max; hence `min(2^attempts * base, max)`. The loop is a recursive
  function, so its values are shown to exist and to be unique (`WindowsExist`,
  `WindowsUnique`) and to stay within base and max (`WindowsBounded`). These are
  inductions over the attempts; `NatSetInduction` states the principle for a set
  instead of a predicate, from the well-foundedness of `<`.
* `BackoffIsHonoured`: with one process, `SpoolSpec => BackoffHonoured`. Every row of a
  batch is in the spool and past its window (`BatchIsDue`), which time cannot undo
  because a window is within its maximum, and only a process in a drain has a
  batch (`BatchInDrain`).
* `WindowsAreCappedPowers`: `SpoolSpec => []WindowIsCappedPower`, and `IsCappedPower(n)`
  for every integer n. The power of two in it is a recursive function, too:
  `PowersExist` and `PowersUnique` give its recurrence, and `WindowIsPower` the rest.
* `RetentionIsSufficient`: with one process, `SpoolSpec => RetentionSuffices`. The code
  looks at the age of one row, the oldest by `enqueued_at`, and at the size of the file.
  `OrderInv` says why that is enough: of two rows the one with the smaller id is at
  least as old as far as the bound can tell, and the rows fit into the file.
* `FileIsBounded`: `pages <= MaxSize + Cardinality(Procs)` for any number of processes,
  if no cycle stops (`"stop" \notin Faults`). Rows beyond `MaxSize` belong to cycles
  between their INSERT and the end of their retention (`DebtInv`). The hypothesis is
  needed: a cycle that ends before its retention leaves its row, and the next one
  adds another. No run checks this bound.

`DeliveryProofs`:

* `SpoolInside`: `Spec => SpoolSpec`. Controller, network and faults only choose what
  the Sender returns, so the theorems above hold in the whole system.
* `TypeCorrect`: `Spec => []DeliveryTypeOK`.
* `AnswersAreTrue`: `Spec => []AcceptedMeansStored`, by `AnswerInv`. That an
  answer is true is not inductive alone: a connection whose caller waits must
  carry the first run of the caller's batch, so that the answer is about the row
  that will be deleted (`CallersWait`), and a run has all its observations in the
  table or none, so that a collision means a full earlier commit (`AllOrNothing`).

`LedgerProofs`:

* `LedgerImplemented`: `Spec => ImplementsLedger`. `LedgerInv` adds to `AnswerInv`
  that requests concern enqueued runs. Then `Enqueue` is `Produce`,
  `PersistResults` is `Store` or a stutter, `DeleteRow` is `Settle` by
  `AcceptedMeansStored`, `DropOldest` is `Drop`, and all else stutters.
* `NothingLost`: `Spec => []NoSilentLoss`, which the ledger's steps preserve.
* `CountedOnce`: `Spec => []ResultsCountedOnce`. A handler counts some steps after its
  commit, so the bare inequality is not inductive. `CountInv` compares the counter
  with the observations that no handler is still to count (`Settled`), and says
  that no two handlers are to count the same run.
* `ReportsGenuine`: `Spec => []ReportsAreGenuine`, for any number of processes and also
  when the reads for a report fail. `ReportsBounded`, an invariant of the spool, says
  that no report, saved, in memory or in a payload, is ahead of the counter. `GenuineInv`
  adds that every request in progress carries the report of its own run's payload, so
  that the handler's later steps, taken long after the agent gave up, still do.

`PowerProofs`:

* `PowerLosesOnlyUnflushed`: `HostSpec => []OnlyUnflushedLost`. The invariant `HostInv`
  states the same account twice, for the tables and for the disk (`DurableKept`):
  each run whose INSERT is on the disk is on the disk, stored, dropped there, or
  was undone before. A power failure then only exchanges one for the other; every
  other step is one of `Delivery`, for which the ledger is used.
* `HostLedgerImplemented`: `HostSpec => ImplementsHostLedger`. A step of `Delivery` is one
  of `RunLedger` by `LedgerInv`, which `HostInv` keeps through power failures: they leave
  requests, answers and stored runs as they are. The copy on the disk grows older with
  time (`HostTick`), which the refinement mapping does not show.
* `CountedOnceDespitePower`: `HostSpec => []ResultsCountedOnce`, as the failure leaves
  the controller alone; `PowerTypeCorrect`: `HostSpec => []PowerTypeOK`.

`RegistryProofs`, for any number of operators:

* `HubsAreAddressed`: `RegistrySpec => []HubsHaveAddresses`. `RowsValid` extends
  validity to the rows that requests in progress are about to write.
* `ChangesAreBumped`: `RegistrySpec => ChangeIsBumped`. If the comparison row is
  still the one in the table and `hubSetChanged` is false, the active hubs are the
  same after the write (`SameHubs`).
* `RegistryInside`: TargetSync's `Spec => RegistrySpec`, so both hold beside an agent
  (`RegistryBesideAgent`).
* `SyncTypeCorrect`: `Spec => []SyncTypeOK`, from `RegistryInv` and that the list an
  agent is given consists of nodes with addresses (`TargetsAreHubs`).
* `StaleListsHaveReasons`: `Spec => []StaleListHasReason`. `ListInv` states it of the cached
  list and of the answer in progress, with the version the rows were read under instead
  of the one the agent knows: if that version is still the current one, no bump is
  pending and nothing went untold, the list is right. A write that changes the hubs
  leaves a bump pending (`SameHubs`), and a pending bump raises the version or is lost.

`WSTicketsProofs`, for any number of tickets, addresses and handlers:

* `TicketsWorkOnce`: `Spec => []AdmittedOnce`. `OneUse` says that a ticket in the store
  has admitted nobody and that no two upgrades in progress or connections have the
  same one. From that, `GaugeCounts`: `Spec => []GaugeIsExact`.
* `FailuresAreFew`: `Spec => []FewFailures`, for every limit and window. `FailureAges`
  relates the limiter's entry to the failures that happened: all but the `count` of the
  current window are older than that window, and they are at most `Limit - 1` of the
  last `Window`, because a window with more has ended in a block.
* `BlocksRunTheirTime`: `Spec => BlockRunsItsTime`; `TicketsTypeCorrect`:
  `Spec => []TicketsTypeOK`.

`ReadinessProofs`, for all limits and intervals:

* `ReadyIsRecent`: `Spec => []ReadyMeansRecent`. `GateInv` relates the age of the last
  poll to the ticker (`Polling`), the time since the service went down to the age of
  the last poll (`Activity`), and the last sync to what the tracker believes
  (`Syncs`).
* `NoFalseAlarm`: `Spec => []RecentSyncIsSeen`. `SeenInv` follows the last sync: its line
  stays while a window can reach it, and if it was written before the last window
  that was read in full ended, the tracker has it. While journalctl runs, "ended" is
  the start of the window that is being read; as windows follow each other without
  a gap, the one bound becomes the other.
* `ReadinessTypeCorrect`: `Spec => []ReadinessTypeOK`; the caps of the ages hold.

`DashboardProofs`, for any number of requests, runs, targets and pages:

* `PagesGetNews`: `Spec => []EventsAreNews`, and `PagesAgree`: `Spec => []SameOrder`, both
  from `DashInv`. Requests broadcast different runs, which are stored, and one
  Broadcast holds the lock (`Handlers`). What a request has yet to broadcast was sent
  to nobody (`Unsent`); what is being broadcast was sent to nobody it has not come to
  (`NotYet`), and to the others as the last message (`Latest`). Appending such a
  message keeps any two sequences in agreement (`AppendKeepsOrder`).
* `ClientsMissLittle`: `Spec => []OnlyFullChannelsMiss`. `MissInv` adds that a run is stored
  whole (`Whole`), so that a post is news altogether or a replay that stores nothing.
* `DashboardTypeCorrect`: `Spec => []DashboardTypeOK`, the capacity of the channels
  included.

Only model-checked: the liveness properties (`EveryRowLeaves`, `CacheCatchesUp`,
`PostsResume`, `TicketsLeave`, `GateReopens`, `RequestsFinish`, `ClientsLeave`), which need fairness and ENABLED. Every invariant, action
property and refinement of a passing run is a theorem, with the restrictions named
above (one process, reads that succeed), which the run has as well.

## Not modelled

Rendering of the UI and logging have no state. Probes and the listener are TCP
dials and accepts whose results are payload. Of chrony only the outcome of a
query is modelled, of the configuration only the constraints and the limits it
supplies, of the metrics only counters and the gauge that concurrent handlers
update. Sessions and tokens are comparisons with constants. A clock that is
stepped back is not modelled, nor are the contents of migrations. The map of the
failure limiter is never pruned (`PruneExpired` has no caller); the model has no
notion of its size.

## Plan

1. Model next: liveness of `Delivery` (a run is eventually stored or dropped), the
   composition of `Delivery` and `TargetSync`, a clock that is stepped.
2. Prove next: what holds of `BackoffHonoured` and `RetentionDropsOnlyExcess` when
   several processes share the spool, with the three reads of `RetentionCheck` as steps
   of their own.
