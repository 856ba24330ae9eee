--------------------------- MODULE ReadinessProofs ---------------------------
(***************************************************************************)
(* Readiness for every lag, polling interval and run time of journalctl,   *)
(* and any number of lines, restarts and failing queries.                  *)
(***************************************************************************)
EXTENDS Readiness, TLAPS

\* The longest window, when it is asked for.
Longest == Larger(InitialLookback, Interval + Delay)

\* What lets the gate open: nothing is known before the first poll; a poll runs
\* for at most Delay, and the next one comes within an interval of its end.
Polling ==
  /\ at \in {"down", "start", "journal", "wait"}
  /\ at \in {"down", "start"} => lastPoll = None /\ timer = None /\ ~tracker.active
  /\ at = "down" => probe = "none"
  /\ at = "journal" => lastPoll \in 0..Delay /\ since \in 0..(Longest + lastPoll)
  /\ at = "wait" => lastPoll \in 0..(Interval + Delay) /\ timer # None
  /\ at = "wait" /\ ~due => lastPoll <= timer + Delay
  /\ timer \in 0..(Interval - 1) \cup {None}
  /\ since \in Nat
  /\ due \in BOOLEAN

\* A service that is no longer active has been so for less than the last poll.
Activity ==
  /\ up \in BOOLEAN
  /\ downFor \in Nat
  /\ tracker.active /\ ~up => lastPoll \in Nat /\ downFor <= lastPoll

\* The lines are no older than the last sync, and neither is the Tracker's
\* idea of it by more than the reach of a window.
Syncs ==
  /\ journal \subseteq Line
  /\ newest \in Nat \cup {None}
  /\ \A l \in journal : l.kind = "sync" => newest # None /\ newest <= l.age
  /\ tracker \in [active : BOOLEAN, lastSync : 0..(MaxLag + 1) \cup {None}]
  /\ tracker.lastSync # None /\ tracker.lastSync <= MaxLag
       => newest # None /\ newest <= tracker.lastSync + Reach

GateInv == Polling /\ Activity /\ Syncs

\* The bounds of the module, as numbers.
LEMMA Bounds ==
  /\ Longest \in Nat /\ Longest >= MaxLag /\ Longest >= Interval + Delay
  /\ Reach = Longest + Delay /\ Reach \in Nat /\ Horizon = Reach + 1 /\ Bound = MaxLag + Reach
BY ReadinessAssumption DEF Longest, Larger, InitialLookback, Reach, Horizon, Bound

\* An age that is capped: one more, or the cap.
LEMMA OlderFact ==
  ASSUME NEW age \in Nat, NEW cap \in Nat
  PROVE  /\ Older(age, cap) \in Nat /\ Older(age, cap) <= cap /\ Older(age, cap) <= age + 1
         /\ age < cap => Older(age, cap) = age + 1
BY ReadinessAssumption DEF Older

\* Nothing is known at first.
LEMMA GateInvInit == Init => GateInv
<1> SUFFICES ASSUME Init PROVE GateInv
  OBVIOUS
<1> QED
  BY ReadinessAssumption DEF Init, GateInv, Polling, Activity, Syncs, NewTracker

\* The service logs and is switched.
LEMMA ServiceKeeps ==
  ASSUME GateInv, (\E kind \in {"sync", "failed"} : Log(kind)) \/ Switch
  PROVE  GateInv'
<1> USE DEF GateInv
<1>1. CASE Switch
  <2>1. Polling' /\ Syncs'
    BY <1>1 DEF Switch, Polling, Syncs, watcherVars
  <2>2. tracker.active => lastPoll \in Nat
    BY ReadinessAssumption DEF Polling
  <2>3. Activity'
    BY <1>1, <2>2 DEF Switch, Activity, watcherVars
  <2> QED
    BY <2>1, <2>3
<1>2. CASE \E kind \in {"sync", "failed"} : Log(kind)
  <2>1. PICK kind \in {"sync", "failed"} : Log(kind)
    BY <1>2
  <2>2. Polling' /\ Activity'
    BY <2>1 DEF Log, Polling, Activity, watcherVars
  <2>3. [kind |-> kind, age |-> 0] \in Line
    BY Bounds DEF Line
  <2>4. Syncs'
    <3>1. CASE kind = "sync"
      BY <2>1, <2>3, <3>1, Bounds, ReadinessAssumption DEF Log, Syncs, Line
    <3>2. CASE kind = "failed"
      BY <2>1, <2>3, <3>2 DEF Log, Syncs
    <3> QED
      BY <3>1, <3>2
  <2> QED
    BY <2>2, <2>4
<1> QED
  BY <1>1, <1>2

\* systemctl is asked, and the window set.
LEMMA PollServiceKeeps ==
  ASSUME GateInv, PollService
  PROVE  GateInv'
<1> USE DEF GateInv
<1>1. /\ UNCHANGED <<journal, newest, up, downFor, timer, probe, restarts>>
      /\ at' = "journal" /\ lastPoll' = 0 /\ since' = WindowStart /\ due' = FALSE
  BY DEF PollService
<1>2. WindowStart \in 0..Longest
  <2>1. InitialLookback \in Nat /\ InitialLookback <= Longest
    BY ReadinessAssumption, Bounds DEF InitialLookback
  <2> QED
    BY <2>1, Bounds, ReadinessAssumption DEF PollService, WindowStart, Polling
<1>3. /\ tracker' \in [active : BOOLEAN, lastSync : 0..(MaxLag + 1) \cup {None}]
      /\ tracker'.lastSync = tracker.lastSync
      /\ tracker'.active => up
  BY DEF PollService, ServiceActive, Syncs, Activity
<1>4. Polling'
  <2>1. since' \in 0..(Longest + lastPoll') /\ since' \in Nat /\ lastPoll' \in 0..Delay
    BY <1>1, <1>2, Bounds, ReadinessAssumption
  <2> HIDE DEF Longest
  <2> QED
    BY <1>1, <2>1 DEF Polling
<1>5. Activity'
  BY <1>1, <1>3 DEF Activity
<1>6. Syncs'
  BY <1>1, <1>3 DEF Syncs
<1> QED
  BY <1>4, <1>5, <1>6

\* journalctl returns, with lines or without.
LEMMA PollJournalKeeps ==
  ASSUME GateInv, PollJournal \/ PollJournalFails
  PROVE  GateInv'
<1> USE DEF GateInv
<1>1. /\ UNCHANGED <<journal, newest, up, downFor, lastPoll, due, probe, restarts>>
      /\ at = "journal" /\ at' = "wait" /\ since' = 0
      /\ timer' = IF timer = None THEN 0 ELSE timer
  BY DEF PollJournal, PollJournalFails, PollReturns
<1>2. Polling'
  BY <1>1, ReadinessAssumption DEF Polling
<1>3. \/ tracker' = tracker
      \/ /\ tracker' = [tracker EXCEPT !.lastSync = 0]
         /\ \E l \in journal : l.age <= since /\ l.kind = "sync"
  <2>1. CASE PollJournalFails
    BY <2>1 DEF PollJournalFails
  <2>2. CASE PollJournal
    <3>1. PICK upTo \in 0..lastPoll :
            tracker' = IF \E l \in journal : l.age \in upTo..since /\ IsSync(l)
                       THEN [tracker EXCEPT !.lastSync = 0] ELSE tracker
      BY <2>2 DEF PollJournal, RecordSync
    <3> QED
      BY <3>1 DEF IsSync
  <2> QED
    BY <2>1, <2>2
<1>4. tracker' \in [active : BOOLEAN, lastSync : 0..(MaxLag + 1) \cup {None}]
      /\ tracker'.active = tracker.active
  BY <1>3, ReadinessAssumption DEF Syncs
<1>5. Activity'
  BY <1>1, <1>4 DEF Activity
<1>6. tracker'.lastSync # None /\ tracker'.lastSync <= MaxLag
        => newest # None /\ newest <= tracker'.lastSync + Reach
  <2>1. CASE tracker' = tracker
    BY <2>1 DEF Syncs
  <2>2. CASE tracker' = [tracker EXCEPT !.lastSync = 0] /\ \E l \in journal : l.age <= since /\ l.kind = "sync"
    <3>1. PICK l \in journal : l.age <= since /\ l.kind = "sync"
      BY <2>2
    <3>2. newest # None /\ newest \in Nat /\ newest <= l.age /\ l.age \in Nat
      BY <3>1, Bounds DEF Syncs, Line
    <3>3. since \in Nat /\ since <= Reach
      BY <1>1, Bounds, ReadinessAssumption DEF Polling
    <3>4. tracker'.lastSync = 0
      BY <2>2 DEF Syncs
    <3> QED
      BY <3>1, <3>2, <3>3, <3>4, Bounds
  <2> QED
    BY <1>3, <2>1, <2>2
<1>7. Syncs'
  BY <1>1, <1>4, <1>6 DEF Syncs
<1> QED
  BY <1>2, <1>5, <1>7

\* The process dies and starts.
LEMMA ProcessKeeps ==
  ASSUME GateInv, Crash \/ Start
  PROVE  GateInv'
<1> USE DEF GateInv
<1>1. CASE Crash
  <2>1. /\ UNCHANGED <<journal, newest, up, downFor>>
        /\ at' = "down" /\ lastPoll' = None /\ since' = 0 /\ timer' = None /\ due' = FALSE
        /\ tracker' = NewTracker /\ probe' = "none"
    BY <1>1 DEF Crash
  <2> QED
    BY <2>1 DEF Polling, Activity, Syncs, NewTracker
<1>2. CASE Start
  BY <1>2 DEF Start, Polling, Activity, Syncs
<1> QED
  BY <1>1, <1>2

\* A second passes, for the lines, the Tracker and the ticker alike.
LEMMA TickKeeps ==
  ASSUME GateInv, Tick
  PROVE  GateInv'
<1> USE DEF GateInv
<1>1. /\ UNCHANGED <<up, at, probe>>
      /\ at \in {"down", "wait"} \/ (at = "journal" /\ lastPoll < Delay)
      /\ ~(at = "wait" /\ due)
  BY DEF Tick
<1>2. Horizon \in Nat /\ Bound + 1 \in Nat /\ MaxLag + 1 \in Nat /\ Interval + Delay + 1 \in Nat
  BY Bounds, ReadinessAssumption
<1>3. at = "down" => lastPoll = None /\ timer = None /\ lastPoll' = None /\ timer' = None
  BY DEF Tick, Polling, Older
<1>4. at # "down" => lastPoll \in Nat /\ lastPoll <= Interval + Delay /\ lastPoll' = lastPoll + 1
  <2>1. ASSUME at # "down"
        PROVE  lastPoll \in Nat /\ lastPoll <= Interval + Delay /\ lastPoll < Horizon
    BY <1>1, <2>1, Bounds, ReadinessAssumption DEF Polling
  <2>2. lastPoll' = Older(lastPoll, Horizon)
    BY DEF Tick
  <2> QED
    BY <1>2, <2>1, <2>2, OlderFact
<1>5. /\ timer = None => timer' = None
      /\ timer # None => /\ timer' \in 0..(Interval - 1)
                         /\ timer' = timer + 1 \/ (timer + 1 = Interval /\ due')
  <2>1. CASE timer = None
    BY <2>1 DEF Tick
  <2>2. CASE timer # None
    <3>1. timer \in 0..(Interval - 1) /\ timer' = (timer + 1) % Interval
      BY <2>2 DEF Tick, Polling
    <3>2. CASE timer + 1 = Interval
      <4>1. (timer + 1) % Interval = 0
        BY <3>2, ReadinessAssumption
      <4>2. due'
        BY <2>2, <3>2 DEF Tick
      <4> QED
        BY <2>2, <3>1, <3>2, <4>1, <4>2, ReadinessAssumption
    <3>3. CASE timer + 1 # Interval
      <4>1. timer + 1 \in 0..(Interval - 1)
        BY <3>1, <3>3, ReadinessAssumption
      <4>2. (timer + 1) % Interval = timer + 1
        BY <4>1, ReadinessAssumption
      <4> QED
        BY <2>2, <3>1, <4>1, <4>2
    <3> QED
      BY <3>2, <3>3
  <2> QED
    BY <2>1, <2>2
<1>6. since' \in Nat /\ (at = "journal" => since' <= since + 1) /\ due' \in BOOLEAN
  <2>1. since' = IF at = "journal" THEN Older(since, Horizon) ELSE 0
    BY DEF Tick
  <2>2. since \in Nat
    BY DEF Polling
  <2>3. due' \in BOOLEAN
    BY DEF Tick, Polling
  <2> QED
    BY <1>2, <2>1, <2>2, <2>3, OlderFact
<1>7. /\ tracker' \in [active : BOOLEAN, lastSync : 0..(MaxLag + 1) \cup {None}]
      /\ tracker'.active = tracker.active
      /\ tracker'.lastSync = Older(tracker.lastSync, MaxLag + 1)
  <2>1. Older(tracker.lastSync, MaxLag + 1) \in 0..(MaxLag + 1) \cup {None}
    BY ReadinessAssumption DEF Syncs, Older
  <2> QED
    BY <2>1 DEF Tick, Syncs
<1>8. Polling'
  <2>1. at = "journal" => lastPoll' \in 0..Delay /\ since' \in 0..(Longest + lastPoll')
    BY <1>1, <1>4, <1>6, Bounds, ReadinessAssumption DEF Polling
  <2>2. ASSUME at = "wait"
        PROVE  /\ lastPoll' \in 0..(Interval + Delay) /\ timer' # None
               /\ (~due' => lastPoll' <= timer' + Delay)
    <3>1. /\ timer \in 0..(Interval - 1) /\ timer # None
          /\ lastPoll \in Nat /\ lastPoll <= timer + Delay /\ lastPoll' = lastPoll + 1
      BY <1>1, <1>4, <2>2 DEF Polling
    <3>2. timer' \in 0..(Interval - 1) /\ (timer' = timer + 1 \/ (timer + 1 = Interval /\ due'))
      BY <1>5, <3>1
    <3>3. timer' # None /\ lastPoll' \in 0..(Interval + Delay)
      BY <3>1, <3>2, ReadinessAssumption
    <3>4. timer' = timer + 1 => lastPoll' <= timer' + Delay
      BY <3>1, ReadinessAssumption
    <3> QED
      BY <3>2, <3>3, <3>4, Zenon
  <2>3. timer' \in 0..(Interval - 1) \cup {None}
    BY <1>5
  <2> QED
    BY <1>1, <1>3, <1>4, <1>6, <1>7, <2>1, <2>2, <2>3 DEF Polling
<1>9. Activity'
  <2>1. downFor' \in Nat /\ (~up => downFor' <= downFor + 1)
    <3>1. downFor' = IF up THEN 0 ELSE Older(downFor, Interval + Delay + 1)
      BY DEF Tick
    <3> QED
      BY <1>2, <3>1, OlderFact DEF Activity
  <2>2. tracker.active => at # "down"
    BY DEF Polling
  <2> QED
    BY <1>1, <1>4, <1>7, <2>1, <2>2 DEF Activity
<1>10. /\ newest' \in Nat \cup {None} /\ (newest = None <=> newest' = None)
       /\ newest # None => newest' <= newest + 1
  <2>1. newest' = Older(newest, Bound + 1)
    BY DEF Tick
  <2>2. CASE newest = None
    BY <2>1, <2>2 DEF Older
  <2>3. CASE newest # None
    BY <1>2, <2>1, <2>3, OlderFact, ReadinessAssumption DEF Syncs
  <2> QED
    BY <2>2, <2>3
<1>11. Syncs'
  <2>1. \A l \in journal' : \E m \in journal : /\ m.age < Horizon /\ l = [m EXCEPT !.age = m.age + 1]
    BY DEF Tick
  <2>2. ASSUME NEW l \in journal'
        PROVE  l \in Line /\ (l.kind = "sync" => newest' # None /\ newest' <= l.age)
    <3>1. PICK m \in journal : m.age < Horizon /\ l = [m EXCEPT !.age = m.age + 1]
      BY <2>1
    <3>2. m \in Line /\ (m.kind = "sync" => newest # None /\ newest <= m.age)
      BY DEF Syncs
    <3>3. l.kind = m.kind /\ l.age = m.age + 1 /\ l \in Line /\ m.age \in Nat
      BY <1>2, <3>1, <3>2 DEF Line
    <3> QED
      BY <1>10, <3>2, <3>3 DEF Syncs
  <2>3. tracker'.lastSync # None /\ tracker'.lastSync <= MaxLag
          => newest' # None /\ newest' <= tracker'.lastSync + Reach
    <3> SUFFICES ASSUME tracker'.lastSync # None, tracker'.lastSync <= MaxLag
                 PROVE  newest' # None /\ newest' <= tracker'.lastSync + Reach
      OBVIOUS
    <3>1. /\ tracker.lastSync \in Nat /\ tracker.lastSync # None
          /\ tracker'.lastSync = tracker.lastSync + 1 /\ tracker.lastSync <= MaxLag
      BY <1>7, ReadinessAssumption DEF Older, Syncs
    <3> QED
      BY <1>10, <3>1, Bounds DEF Syncs
  <2> QED
    BY <1>7, <1>10, <2>2, <2>3 DEF Syncs
<1> QED
  BY <1>8, <1>9, <1>11

\* GateInv is inductive.
LEMMA GateInvNext == GateInv /\ [Next]_readyVars => GateInv'
<1> SUFFICES ASSUME GateInv, [Next]_readyVars PROVE GateInv'
  OBVIOUS
<1>1. CASE UNCHANGED readyVars
  BY <1>1 DEF readyVars, GateInv, Polling, Activity, Syncs
<1>2. CASE AskChrony \/ Reply
  BY <1>2 DEF AskChrony, Reply, watcherVars, GateInv, Polling, Activity, Syncs
<1> QED
  BY <1>1, <1>2, ServiceKeeps, PollServiceKeeps, PollJournalKeeps, ProcessKeeps, TickKeeps
  DEF Next, WatcherStep

\* A 200 means a sync and an active service not long ago, for every setting of
\* the lag and the interval, however the polls fall and whatever fails.
THEOREM ReadyIsRecent == Spec => []ReadyMeansRecent
<1>1. GateInv => ReadyMeansRecent
  <2> SUFFICES ASSUME GateInv, probe # "none", Answer = "200"
               PROVE  /\ newest # None /\ newest <= Bound
                      /\ up \/ downFor <= Interval + Delay
    BY DEF ReadyMeansRecent
  <2>1. tracker.active /\ tracker.lastSync # None /\ tracker.lastSync <= MaxLag
    BY DEF Answer, Healthy
  <2>2. newest # None /\ newest <= Bound
    BY <2>1, Bounds, ReadinessAssumption DEF GateInv, Syncs
  <2>3. at \in {"journal", "wait"} /\ lastPoll <= Interval + Delay
    BY <2>1, ReadinessAssumption DEF GateInv, Polling
  <2>4. up \/ downFor <= Interval + Delay
    BY <2>1, <2>3, ReadinessAssumption DEF GateInv, Activity
  <2> QED
    BY <2>2, <2>4
<1> QED
  BY GateInvInit, GateInvNext, <1>1, PTL DEF Spec

------------------------------------------------------------------------------
(* No sync is missed: the windows follow each other without a gap.         *)

\* The Tracker knows of a sync as recent as the last one.
Known == tracker.lastSync # None /\ tracker.lastSync <= newest

\* The line of the last sync stays while a window can reach it; if it was
\* written before the last complete window ended, the Tracker knows of it.
SeenInv ==
  /\ gap \in BOOLEAN
  /\ newest # None /\ newest <= Horizon => [kind |-> "sync", age |-> newest] \in journal
  /\ at = "wait" /\ ~gap /\ newest # None /\ newest > lastPoll /\ newest <= MaxLag => Known
  /\ at = "journal" /\ ~gap /\ newest # None /\ newest > since /\ newest <= MaxLag => Known

\* A sync is logged, which no window has missed yet, or a failure.
LEMMA SeenLog ==
  ASSUME GateInv, SeenInv, NEW kind \in {"sync", "failed"}, Log(kind)
  PROVE  SeenInv'
<1>1. /\ UNCHANGED <<at, lastPoll, since, tracker>>
      /\ journal' = journal \cup {[kind |-> kind, age |-> 0]}
  BY DEF Log, watcherVars
<1>2. CASE kind = "sync"
  <2>1. newest' = 0 /\ gap' = FALSE
    BY <1>2 DEF Log
  <2>2. since \in Nat /\ (at = "wait" => lastPoll \in Nat)
    BY ReadinessAssumption DEF GateInv, Polling
  <2>3. gap' \in BOOLEAN /\ [kind |-> "sync", age |-> newest'] \in journal'
    BY <1>1, <1>2, <2>1
  <2>4. ~(newest' > since') /\ (at' = "wait" => ~(newest' > lastPoll'))
    BY <1>1, <2>1, <2>2
  <2> QED
    BY <2>3, <2>4 DEF SeenInv
<1>3. CASE kind = "failed"
  <2>1. newest' = newest /\ gap' = gap
    BY <1>3 DEF Log
  <2> QED
    BY <1>1, <2>1 DEF SeenInv, Known
<1> QED
  BY <1>2, <1>3

\* A window starts where the one before it ended, or MaxLag ago.
LEMMA SeenPollService ==
  ASSUME GateInv, SeenInv, PollService
  PROVE  SeenInv'
<1>1. /\ UNCHANGED <<journal, newest>> /\ at' = "journal" /\ since' = WindowStart
      /\ tracker'.lastSync = tracker.lastSync
      /\ gap' = gap \/ gap' = TRUE
  BY DEF PollService, GateInv, Syncs
<1>2. gap' \in BOOLEAN
  BY <1>1, Zenon DEF SeenInv
<1>3. ASSUME ~gap, newest # None, newest > WindowStart, newest <= MaxLag PROVE Known
  <2>1. newest \in Nat
    BY <1>3 DEF GateInv, Syncs
  <2>2. CASE lastPoll = None
    BY <1>3, <2>1, <2>2, ReadinessAssumption DEF WindowStart, InitialLookback
  <2>3. CASE lastPoll # None
    <3>1. at = "wait" /\ WindowStart = lastPoll
      BY <2>3 DEF PollService, WindowStart, GateInv, Polling
    <3> QED
      BY <1>3, <3>1 DEF SeenInv
  <2> QED
    BY <2>2, <2>3
<1>4. Known' <=> Known
  BY <1>1 DEF Known
<1> QED
  BY <1>1, <1>2, <1>3, <1>4 DEF SeenInv

\* journalctl returns the lines from the start of the window to some time
\* after the poll began.
LEMMA SeenPollJournal ==
  ASSUME GateInv, SeenInv, PollJournal \/ PollJournalFails
  PROVE  SeenInv'
<1>1. UNCHANGED <<journal, newest, lastPoll>> /\ at = "journal" /\ at' = "wait"
  BY DEF PollJournal, PollJournalFails, PollReturns
<1>2. CASE PollJournalFails
  BY <1>1, <1>2 DEF PollJournalFails, SeenInv
<1>3. CASE PollJournal
  <2>1. PICK upTo \in 0..lastPoll :
          tracker' = IF \E l \in journal : l.age \in upTo..since /\ IsSync(l)
                     THEN RecordSync ELSE tracker
    BY <1>3 DEF PollJournal
  <2>2. gap' = gap
    BY <1>3 DEF PollJournal
  <2>3. RecordSync.lastSync = 0
    BY DEF RecordSync, GateInv, Syncs
  <2>4. ASSUME ~gap, newest # None, newest > lastPoll, newest <= MaxLag PROVE Known'
    <3>1. newest \in Nat /\ lastPoll \in Nat /\ since \in Nat
      BY <1>1, <2>4, ReadinessAssumption DEF GateInv, Polling, Syncs
    <3>2. tracker' = RecordSync => Known'
      BY <1>1, <2>3, <2>4, <3>1, ReadinessAssumption DEF Known
    <3>3. CASE newest > since
      <4>1. Known
        BY <1>1, <2>4, <3>3 DEF SeenInv
      <4> QED
        BY <1>1, <2>1, <3>2, <4>1 DEF Known
    <3>4. CASE newest <= since
      <4>1. [kind |-> "sync", age |-> newest] \in journal
        BY <2>4, <3>1, Bounds, ReadinessAssumption DEF SeenInv
      <4>2. newest \in upTo..since
        BY <2>1, <2>4, <3>1, <3>4
      <4>3. \E l \in journal : l.age \in upTo..since /\ IsSync(l)
        BY <4>1, <4>2 DEF IsSync
      <4> QED
        BY <2>1, <3>2, <4>3
    <3> QED
      BY <3>1, <3>3, <3>4
  <2> QED
    BY <1>1, <2>2, <2>4 DEF SeenInv
<1> QED
  BY <1>2, <1>3

\* A second passes for the line, the window and the Tracker alike.
LEMMA SeenTick ==
  ASSUME GateInv, SeenInv, Tick
  PROVE  SeenInv'
<1>1. /\ UNCHANGED <<at, gap>>
      /\ at \in {"down", "wait"} \/ (at = "journal" /\ lastPoll < Delay)
  BY DEF Tick
<1>2. Horizon \in Nat /\ Bound + 1 \in Nat /\ MaxLag + 1 \in Nat /\ Horizon < Bound + 1 /\ MaxLag < Horizon
  BY Bounds, ReadinessAssumption
<1>3. /\ newest = None => newest' = None
      /\ newest # None => newest \in Nat /\ newest' \in Nat /\ newest' # None
      /\ newest # None /\ newest' <= Horizon => newest' = newest + 1
  <2>1. newest' = Older(newest, Bound + 1) /\ newest \in Nat \cup {None}
    BY DEF Tick, GateInv, Syncs
  <2>2. CASE newest = None
    BY <2>1, <2>2 DEF Older
  <2>3. CASE newest # None
    BY <1>2, <2>1, <2>3, ReadinessAssumption DEF Older
  <2> QED
    BY <2>2, <2>3
<1>4. at = "wait" => lastPoll \in Nat /\ lastPoll' = lastPoll + 1
  <2>1. ASSUME at = "wait" PROVE lastPoll \in Nat /\ lastPoll < Horizon
    BY <2>1, Bounds, ReadinessAssumption DEF GateInv, Polling
  <2>2. lastPoll' = Older(lastPoll, Horizon)
    BY DEF Tick
  <2> QED
    BY <1>2, <2>1, <2>2, OlderFact
<1>5. at = "journal" => since \in Nat /\ since' = since + 1
  <2>1. ASSUME at = "journal" PROVE since \in Nat /\ since < Horizon
    BY <2>1, Bounds, ReadinessAssumption DEF GateInv, Polling
  <2>2. at = "journal" => since' = Older(since, Horizon)
    BY DEF Tick
  <2> QED
    BY <1>2, <2>1, <2>2, OlderFact
<1>6. Known /\ newest # None /\ newest' = newest + 1 => Known'
  <2> SUFFICES ASSUME Known, newest # None, newest' = newest + 1 PROVE Known'
    OBVIOUS
  <2>1. tracker.lastSync \in Nat /\ tracker'.lastSync = Older(tracker.lastSync, MaxLag + 1)
    BY DEF Known, Tick, GateInv, Syncs
  <2>2. tracker'.lastSync \in Nat /\ tracker'.lastSync <= tracker.lastSync + 1
    BY <1>2, <2>1, OlderFact
  <2> QED
    BY <1>3, <2>1, <2>2, ReadinessAssumption DEF Known
<1>7. ASSUME newest' # None, newest' <= Horizon
      PROVE  [kind |-> "sync", age |-> newest'] \in journal'
  <2>1. newest # None /\ newest \in Nat /\ newest' = newest + 1 /\ newest < Horizon
    BY <1>2, <1>3, <1>7
  <2>2. [kind |-> "sync", age |-> newest] \in journal
    BY <1>2, <2>1 DEF SeenInv
  <2>3. [[kind |-> "sync", age |-> newest] EXCEPT !.age = @ + 1] \in journal'
    BY <2>1, <2>2 DEF Tick
  <2>4. [[kind |-> "sync", age |-> newest] EXCEPT !.age = @ + 1] = [kind |-> "sync", age |-> newest + 1]
    OBVIOUS
  <2> QED
    BY <2>1, <2>3, <2>4
<1>8. ASSUME newest' # None, newest' <= MaxLag
      PROVE  newest # None /\ newest \in Nat /\ newest' = newest + 1 /\ newest <= MaxLag
  BY <1>2, <1>3, <1>8, ReadinessAssumption
<1>9. ASSUME at = "wait", ~gap, newest' # None, newest' > lastPoll', newest' <= MaxLag PROVE Known'
  <2>1. newest # None /\ newest > lastPoll /\ newest <= MaxLag /\ newest' = newest + 1
    BY <1>4, <1>8, <1>9
  <2> QED
    BY <1>6, <1>9, <2>1 DEF SeenInv
<1>10. ASSUME at = "journal", ~gap, newest' # None, newest' > since', newest' <= MaxLag PROVE Known'
  <2>1. newest # None /\ newest > since /\ newest <= MaxLag /\ newest' = newest + 1
    BY <1>5, <1>8, <1>10
  <2> QED
    BY <1>6, <1>10, <2>1 DEF SeenInv
<1> QED
  BY <1>1, <1>7, <1>9, <1>10 DEF SeenInv

\* SeenInv is inductive, given GateInv.
LEMMA SeenNext ==
  ASSUME GateInv, SeenInv, [Next]_readyVars
  PROVE  SeenInv'
<1>1. CASE UNCHANGED readyVars \/ Switch \/ AskChrony \/ Reply
  <2>1. UNCHANGED <<journal, newest, at, lastPoll, since, tracker, gap>>
    BY <1>1 DEF readyVars, Switch, AskChrony, Reply, watcherVars
  <2> QED
    BY <2>1 DEF SeenInv, Known
<1>2. CASE Crash \/ Start
  BY <1>2 DEF Crash, Start, SeenInv
<1> QED
  BY <1>1, <1>2, SeenLog, SeenPollService, SeenPollJournal, SeenTick DEF Next, WatcherStep

\* A sync that is old enough to have been polled and young enough to count
\* keeps the gate open, for every lag and interval, whenever the controller
\* restarts, as long as no query failed since.
THEOREM NoFalseAlarm == Spec => []RecentSyncIsSeen
<1> DEFINE Inv == GateInv /\ SeenInv
<1>1. Init => Inv
  BY GateInvInit DEF Init, SeenInv
<1>2. Inv /\ [Next]_readyVars => Inv'
  BY GateInvNext, SeenNext
<1>3. Inv => RecentSyncIsSeen
  <2> SUFFICES ASSUME GateInv, SeenInv, newest # None, newest > Interval + Delay, newest <= MaxLag,
                      at = "wait", ~gap
               PROVE  tracker.lastSync # None /\ tracker.lastSync <= MaxLag
    BY DEF RecentSyncIsSeen
  <2>1. newest \in Nat /\ lastPoll \in Nat /\ lastPoll <= Interval + Delay
    BY ReadinessAssumption DEF GateInv, Polling, Syncs
  <2>2. newest > lastPoll
    BY <2>1, ReadinessAssumption
  <2>3. Known
    BY <2>2 DEF SeenInv
  <2>4. tracker.lastSync \in Nat
    BY <2>3 DEF Known, GateInv, Syncs
  <2> QED
    BY <2>1, <2>3, <2>4, ReadinessAssumption DEF Known
<1> QED
  BY <1>1, <1>2, <1>3, PTL DEF Spec

------------------------------------------------------------------------------

\* Every age stays within the cap that the model gives it, so the caps hide
\* no comparison; and the other variables keep their types.
THEOREM ReadinessTypeCorrect == Spec => []ReadinessTypeOK
<1> DEFINE Inv == GateInv /\ ReadinessTypeOK
<1>0. /\ Horizon \in Nat /\ Bound + 1 \in Nat /\ Interval + Delay + 1 \in Nat
      /\ MaxLag < Horizon /\ MaxLag \in Nat /\ MaxRestarts \in Nat
  BY Bounds, ReadinessAssumption
<1>1. Init => Inv
  <2> SUFFICES ASSUME Init PROVE ReadinessTypeOK
    BY GateInvInit
  <2>1. Polling /\ Activity /\ Syncs
    BY GateInvInit DEF GateInv
  <2>2. /\ newest = None /\ downFor = 0 /\ lastPoll = None /\ since = 0
        /\ probe = "none" /\ restarts = 0
    BY DEF Init
  <2>3. gap \in BOOLEAN
    BY Zenon DEF Init
  <2> QED
    BY <1>0, <2>1, <2>2, <2>3 DEF Polling, Activity, Syncs, ReadinessTypeOK
<1>2. Inv /\ [Next]_readyVars => Inv'
  <2> SUFFICES ASSUME GateInv, ReadinessTypeOK, [Next]_readyVars PROVE ReadinessTypeOK'
    BY GateInvNext
  <2> DEFINE Ages == /\ newest' \in 0..(Bound + 1) \cup {None}
                     /\ downFor' \in 0..(Interval + Delay + 1)
                     /\ lastPoll' \in 0..Horizon \cup {None}
                     /\ since' \in 0..Horizon
             Marks == /\ gap' \in BOOLEAN
                      /\ probe' \in {"none", "passed", "failed"}
                      /\ restarts' \in 0..MaxRestarts
  <2>1. ASSUME \/ UNCHANGED readyVars \/ Switch \/ AskChrony \/ Reply \/ Start
               \/ \E kind \in {"sync", "failed"} : Log(kind)
        PROVE  Ages /\ Marks
    <3>1. UNCHANGED <<lastPoll, since, restarts>>
      BY <2>1 DEF readyVars, Switch, AskChrony, Reply, Start, Log, watcherVars
    <3>2. newest' \in {newest, 0} /\ downFor' \in {downFor, 0}
      BY <2>1 DEF readyVars, Switch, AskChrony, Reply, Start, Log, watcherVars
    <3>3. gap' \in {gap, FALSE} /\ probe' \in {probe, "none", "passed", "failed"}
      BY <2>1 DEF readyVars, Switch, AskChrony, Reply, Start, Log, watcherVars
    <3>4. Ages
      BY <1>0, <3>1, <3>2 DEF ReadinessTypeOK
    <3>5. Marks
      BY <3>1, <3>3, Zenon DEF ReadinessTypeOK
    <3> QED
      BY <3>4, <3>5
  <2>2. ASSUME PollService PROVE Ages /\ Marks
    <3>1. WindowStart \in 0..Horizon
      BY <1>0 DEF WindowStart, InitialLookback, ReadinessTypeOK
    <3>2. UNCHANGED <<newest, downFor, probe, restarts>> /\ since' = WindowStart /\ lastPoll' = 0
      BY <2>2 DEF PollService
    <3>3. gap' \in {gap, TRUE}
      BY <2>2 DEF PollService
    <3>4. Ages
      BY <1>0, <3>1, <3>2 DEF ReadinessTypeOK
    <3>5. Marks
      BY <3>2, <3>3, Zenon DEF ReadinessTypeOK
    <3> QED
      BY <3>4, <3>5
  <2>3. ASSUME PollJournal \/ PollJournalFails PROVE Ages /\ Marks
    <3>1. UNCHANGED <<newest, downFor, lastPoll, probe, restarts>> /\ since' = 0
      BY <2>3 DEF PollJournal, PollJournalFails, PollReturns
    <3>2. gap' \in {gap, TRUE}
      BY <2>3 DEF PollJournal, PollJournalFails
    <3>3. Ages
      BY <1>0, <3>1 DEF ReadinessTypeOK
    <3>4. Marks
      BY <3>1, <3>2, Zenon DEF ReadinessTypeOK
    <3> QED
      BY <3>3, <3>4
  <2>4. ASSUME Crash PROVE Ages /\ Marks
    <3>1. UNCHANGED <<newest, downFor>> /\ since' = 0 /\ lastPoll' = None
      BY <2>4 DEF Crash
    <3>2. restarts < MaxRestarts /\ restarts' = restarts + 1 /\ probe' = "none"
      BY <2>4 DEF Crash
    <3>3. gap' \in BOOLEAN
      BY <2>4, Zenon DEF Crash
    <3> QED
      BY <1>0, <3>1, <3>2, <3>3 DEF ReadinessTypeOK
  <2>5. ASSUME Tick PROVE Ages /\ Marks
    <3> DEFINE Within(age, cap) == Older(age, cap) \in 0..cap \cup {None}
    <3>1. ASSUME NEW cap \in Nat, NEW age \in 0..cap \cup {None} PROVE Within(age, cap)
      BY <3>1, OlderFact DEF Older
    <3>2. ASSUME NEW cap \in Nat, NEW age \in 0..cap PROVE Older(age, cap) \in 0..cap
      BY <3>2, OlderFact
    <3>3. /\ newest' = Older(newest, Bound + 1)
          /\ downFor' = IF up THEN 0 ELSE Older(downFor, Interval + Delay + 1)
          /\ lastPoll' = Older(lastPoll, Horizon)
          /\ since' = IF at = "journal" THEN Older(since, Horizon) ELSE 0
      BY <2>5 DEF Tick
    <3>4. UNCHANGED <<gap, probe, restarts>>
      BY <2>5 DEF Tick
    <3>5. Within(newest, Bound + 1) /\ Within(lastPoll, Horizon)
      BY <1>0, <3>1 DEF ReadinessTypeOK
    <3>6. Older(downFor, Interval + Delay + 1) \in 0..(Interval + Delay + 1) /\ Older(since, Horizon) \in 0..Horizon
      BY <1>0, <3>2 DEF ReadinessTypeOK
    <3>7. Ages
      <4>1. newest' \in 0..(Bound + 1) \cup {None} /\ lastPoll' \in 0..Horizon \cup {None}
        BY <3>3, <3>5, Zenon
      <4>2. 0 \in 0..(Interval + Delay + 1) /\ 0 \in 0..Horizon
        BY <1>0
      <4>3. downFor' \in 0..(Interval + Delay + 1) /\ since' \in 0..Horizon
        BY <3>3, <3>6, <4>2, Zenon
      <4> QED
        BY <4>1, <4>3, Zenon
    <3>8. Marks
      BY <3>4, Zenon DEF ReadinessTypeOK
    <3> QED
      BY <3>7, <3>8
  <2>6. Ages /\ Marks
    BY <2>1, <2>2, <2>3, <2>4, <2>5 DEF Next, WatcherStep
  <2>7. Polling' /\ Activity' /\ Syncs'
    BY GateInvNext DEF GateInv
  <2> QED
    BY <2>6, <2>7 DEF Polling, Activity, Syncs, ReadinessTypeOK
<1>3. Inv => ReadinessTypeOK
  OBVIOUS
<1> QED
  BY <1>1, <1>2, <1>3, PTL DEF Spec
==============================================================================
