------------------------------ MODULE Readiness ------------------------------
(***************************************************************************)
(* GET /readyz of the controller (server.go) and what its Litestream gate  *)
(* rests on: the Tracker (litestream.go), which a Watcher (watcher.go)     *)
(* feeds by asking systemd whether the replication service is active and   *)
(* by reading the lines it logged since the poll before.                   *)
(*                                                                         *)
(* A tick is a second, the resolution of `journalctl --since`.  A time is  *)
(* represented by its age, capped where no comparison can tell larger ages *)
(* apart.  The Tracker's error counter is left out: nothing reads it.      *)
(***************************************************************************)
EXTENDS Integers, FiniteSets

CONSTANTS
  MaxLag,       \* NLM_LITESTREAM_MAX_LAG_SECONDS
  Interval,     \* PollInterval of the Watcher
  Delay,        \* longest run of journalctl: an assumption, the code sets no limit
  Offsets,      \* clock offsets that chronyc can report
  MaxDrift,     \* NLM_READY_MAX_CLOCK_DRIFT_MS, 0 for no limit
  MaxLines,     \* bound on the journal lines recent enough to be read
  MaxRestarts,  \* bound on restarts of the controller
  Faults,       \* "query" if systemctl and journalctl may fail
  None

ASSUME ReadinessAssumption ==
  /\ MaxLag \in Nat \ {0} /\ Interval \in Nat \ {0} /\ Delay \in 0..Interval
  /\ Offsets \subseteq Int /\ MaxDrift \in Nat
  /\ MaxLines \in Nat /\ MaxRestarts \in Nat
  /\ None \notin Int

VARIABLES
  journal,   \* the lines of the service that a poll can still read
  newest,    \* history: age of the last successful sync
  up,        \* the service is active
  downFor,   \* history: for how long it has not been
  at,        \* where the Watcher is
  lastPoll,  \* Watcher.lastPoll
  since,     \* start of the window that journalctl is asked for
  timer,     \* age of the ticker's last tick, None before Run creates it
  due,       \* a tick waits in the ticker's channel
  tracker,   \* Status: ServiceActive and LastSyncAt
  gap,       \* history: a query has failed since the last sync
  probe,     \* what the /readyz request in progress has learnt from chrony
  restarts

watcherVars == <<at, lastPoll, since, timer, due>>
readyVars == <<journal, newest, up, downFor, at, lastPoll, since, timer, due,
               tracker, gap, probe, restarts>>

\* Mutant: the first poll looks back no further than the others.
LookbackOfInterval == Interval

\* main.go passes MaxLitestreamLag as InitialLookback.
InitialLookback == MaxLag

\* The oldest line that a window reaches when it is read, and how old the
\* last sync can be while the gate is open.
Larger(m, n) == IF m > n THEN m ELSE n
Reach == Larger(InitialLookback, Interval + Delay) + Delay
Bound == MaxLag + Reach

\* Lines are kept a little longer than any window reaches.
Horizon == Reach + 1

\* A line that tells of a sync, or of one that went wrong (such a line may
\* well name the snapshot or the WAL segment too).
Line == [kind : {"sync", "failed"}, age : 0..Horizon]

NewTracker == [active |-> FALSE, lastSync |-> None]

ReadinessTypeOK ==
  /\ journal \subseteq Line
  /\ newest \in 0..(Bound + 1) \cup {None}
  /\ up \in BOOLEAN
  /\ downFor \in 0..(Interval + Delay + 1)
  /\ at \in {"down", "start", "journal", "wait"}
  /\ lastPoll \in 0..Horizon \cup {None}
  /\ since \in 0..Horizon
  /\ timer \in 0..(Interval - 1) \cup {None}
  /\ due \in BOOLEAN
  /\ tracker \in [active : BOOLEAN, lastSync : 0..(MaxLag + 1) \cup {None}]
  /\ gap \in BOOLEAN
  /\ probe \in {"none", "passed", "failed"}
  /\ restarts \in 0..MaxRestarts

Init ==
  /\ journal = {}
  /\ newest = None
  /\ up = FALSE
  /\ downFor = 0
  /\ at = "start"
  /\ lastPoll = None
  /\ since = 0
  /\ timer = None
  /\ due = FALSE
  /\ tracker = NewTracker
  /\ gap = FALSE
  /\ probe = "none"
  /\ restarts = 0

------------------------------------------------------------------------------
(* The replication service.                                                *)

\* Litestream logs a sync, or a failure.
Log(kind) ==
  /\ up
  /\ Cardinality(journal) < MaxLines
  /\ journal' = journal \cup {[kind |-> kind, age |-> 0]}
  /\ IF kind = "sync" THEN newest' = 0 /\ gap' = FALSE ELSE UNCHANGED <<newest, gap>>
  /\ UNCHANGED <<up, downFor, watcherVars, tracker, probe, restarts>>

\* systemd starts or stops the service.
Switch ==
  /\ up' = ~up
  /\ downFor' = 0
  /\ UNCHANGED <<journal, newest, watcherVars, tracker, gap, probe, restarts>>

------------------------------------------------------------------------------
(* The Watcher.                                                            *)

\* Mutant: the lookback is added to the time, not taken from it.
WindowInFuture == IF lastPoll = None THEN -InitialLookback ELSE lastPoll

\* The window: since the poll before, or InitialLookback at the first poll.
WindowStart == IF lastPoll = None THEN InitialLookback ELSE lastPoll

\* Mutant: a service seen inactive once is taken for inactive for ever.
StaysInactive(exit) == exit /\ (tracker.active \/ lastPoll = None)

\* SetServiceActive(err == nil).
ServiceActive(exit) == exit

\* Run calls poll at once, and then on every tick: systemctl is-active, then
\* lastPoll = time.Now() and the window for journalctl.  systemctl answers within
\* the tick: the code sets no limit for it, either.
PollService ==
  /\ at = "start" \/ (at = "wait" /\ due)
  /\ \/ tracker' = [tracker EXCEPT !.active = ServiceActive(up)] /\ UNCHANGED gap
     \/ /\ "query" \in Faults
        /\ tracker' = [tracker EXCEPT !.active = ServiceActive(FALSE)]
        /\ gap' = TRUE
  /\ at' = "journal"
  /\ since' = WindowStart
  /\ lastPoll' = 0
  /\ due' = FALSE
  /\ UNCHANGED <<journal, newest, up, downFor, timer, probe, restarts>>

\* poll returns; after the first one Run creates the ticker.
PollReturns ==
  /\ at' = "wait"
  /\ since' = 0
  /\ timer' = IF timer = None THEN 0 ELSE timer
  /\ UNCHANGED <<journal, newest, up, downFor, lastPoll, due, probe, restarts>>

\* Mutant: the words of a sync are looked for first.
IsSyncOrFailed(line) == TRUE

\* parseLine: the words of an error win.
IsSync(line) == line.kind = "sync"

\* A sync is stamped with the time of reading, which no earlier one exceeds.
RecordSync == [tracker EXCEPT !.lastSync = 0]

\* journalctl answers with the lines of the window, those written before it
\* ran and perhaps some written since.
PollJournal ==
  /\ at = "journal"
  /\ \E upTo \in 0..lastPoll :
       tracker' = IF \E l \in journal : l.age \in upTo..since /\ IsSync(l)
                  THEN RecordSync ELSE tracker
  /\ PollReturns
  /\ UNCHANGED gap

\* journalctl fails: the window is not asked for again.
PollJournalFails ==
  /\ at = "journal"
  /\ "query" \in Faults
  /\ gap' = TRUE
  /\ PollReturns
  /\ UNCHANGED tracker

------------------------------------------------------------------------------
(* GET /readyz.                                                            *)

\* Healthy(maxLag).
Healthy == tracker.active /\ tracker.lastSync # None /\ tracker.lastSync <= MaxLag

\* ParseTracking drops the sign of the offset.
Drift(offset) == IF offset < 0 THEN -offset ELSE offset

\* The chrony gate: no answer, None, fails it.
Passes(offset) == offset # None /\ (MaxDrift > 0 => Drift(offset) <= MaxDrift)

\* handleReadyz asks chronyc first, for up to two seconds ...
AskChrony ==
  /\ at # "down" /\ probe = "none"
  /\ \E offset \in Offsets \cup {None} :
       probe' = IF Passes(offset) THEN "passed" ELSE "failed"
  /\ UNCHANGED <<journal, newest, up, downFor, watcherVars, tracker, gap, restarts>>

\* ... and then looks at the Tracker, and answers.
Answer == IF probe = "passed" /\ Healthy THEN "200" ELSE "503"

Reply ==
  /\ probe # "none"
  /\ probe' = "none"
  /\ UNCHANGED <<journal, newest, up, downFor, watcherVars, tracker, gap, restarts>>

------------------------------------------------------------------------------
(* The controller process, and time.                                       *)

Crash ==
  /\ at # "down" /\ restarts < MaxRestarts
  /\ restarts' = restarts + 1
  /\ at' = "down" /\ lastPoll' = None /\ since' = 0 /\ timer' = None /\ due' = FALSE
  /\ tracker' = NewTracker
  /\ gap' = FALSE
  /\ probe' = "none"
  /\ UNCHANGED <<journal, newest, up, downFor>>

Start ==
  /\ at = "down"
  /\ at' = "start"
  /\ UNCHANGED <<journal, newest, up, downFor, lastPoll, since, timer, due,
                 tracker, gap, probe, restarts>>

Older(age, cap) == IF age = None THEN None ELSE IF age < cap THEN age + 1 ELSE cap

\* A second passes.  The Watcher's goroutine runs when it can, and journalctl
\* takes at most Delay.
Tick ==
  /\ at \in {"down", "wait"} \/ (at = "journal" /\ lastPoll < Delay)
  /\ ~(at = "wait" /\ due)
  /\ journal' = {[l EXCEPT !.age = @ + 1] : l \in {m \in journal : m.age < Horizon}}
  /\ newest' = Older(newest, Bound + 1)
  /\ downFor' = IF up THEN 0 ELSE Older(downFor, Interval + Delay + 1)
  /\ lastPoll' = Older(lastPoll, Horizon)
  /\ since' = IF at = "journal" THEN Older(since, Horizon) ELSE 0
  /\ timer' = IF timer = None THEN None ELSE (timer + 1) % Interval
  /\ due' = (due \/ (timer # None /\ timer + 1 = Interval))
  /\ tracker' = [tracker EXCEPT !.lastSync = Older(@, MaxLag + 1)]
  /\ UNCHANGED <<up, at, gap, probe, restarts>>

WatcherStep == PollService \/ PollJournal \/ PollJournalFails

Next ==
  \/ \E kind \in {"sync", "failed"} : Log(kind)
  \/ Switch
  \/ WatcherStep
  \/ AskChrony \/ Reply
  \/ Crash \/ Start \/ Tick

Spec == Init /\ [][Next]_readyVars

\* Time passes, subprocesses return, systemd restarts the controller.
FairSpec == Spec /\ WF_readyVars(Tick) /\ WF_readyVars(WatcherStep) /\ WF_readyVars(Start)

------------------------------------------------------------------------------
(* Properties.                                                             *)

\* A 200 means that a sync succeeded not long ago, and that the service was
\* active not long ago, although both are known only from polls: the sync is
\* at most MaxLag and the reach of a window old (a line is stamped with the
\* time it is read, watcher.go:148, and the first window reaches back
\* InitialLookback), the service was seen active at the last poll.  The comment
\* of Healthy has the sync within maxLag (litestream.go:94), which is less.
ReadyMeansRecent ==
  probe # "none" /\ Answer = "200"
    => /\ newest # None /\ newest <= Bound
       /\ up \/ downFor <= Interval + Delay

\* No false alarm: a sync within MaxLag that is old enough to have been polled
\* keeps the gate open, across restarts of the controller too, unless a query
\* failed since: consecutive windows leave no line out, although lastPoll is
\* taken before journalctl runs (watcher.go:102-110).
RecentSyncIsSeen ==
  /\ newest # None /\ newest > Interval + Delay /\ newest <= MaxLag
  /\ at = "wait" /\ ~gap
  => tracker.lastSync # None /\ tracker.lastSync <= MaxLag

\* The gate opens again after any outage: if from some time on the service
\* stays active and keeps syncing, and no more queries fail, it is open again
\* and again (litestream.go:92-107 under watcher.go:82-127).
GateReopens ==
  <>[](up /\ ~gap) /\ []<>(newest = 0) => []<>Healthy
==============================================================================
