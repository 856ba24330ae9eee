-------------------------------- MODULE Spool --------------------------------
(***************************************************************************)
(* The agent: Spoke.Run (internal/agent/spoke.go) on top of the SQLite     *)
(* spool (internal/spool/spool.go).  Procs are the processes that share    *)
(* one spool file: one in a single-mode deployment, two where the hub      *)
(* daemon and the spoke timer run side by side.                            *)
(*                                                                         *)
(* SQLite serialises statements, so an action is one statement, with the   *)
(* Go code up to the next one.  A run stands for a probe cycle and is      *)
(* named by the AUTOINCREMENT id its row gets (probe_run_id is a fresh     *)
(* UUIDv7).  The clock does not step back, hence ORDER BY enqueued_at,     *)
(* whose ties idx_spool_enqueued lists by rowid, is the order of runs.     *)
(* A timestamp is represented by its age in ticks, capped where no         *)
(* comparison can tell larger ages apart.                                  *)
(***************************************************************************)
EXTENDS Backoff, FiniteSets, ProbeRuns

CONSTANTS
  Procs,         \* processes that share the spool file
  DrainRows,     \* NLM_SPOOL_DRAIN_ROWS
  MaxAge,        \* NLM_SPOOL_MAX_AGE_HOURS, in ticks
  MaxSize,       \* NLM_SPOOL_MAX_SIZE_MB, in rows
  BackoffBase,   \* NLM_SPOOL_BACKOFF_BASE_SECONDS, in ticks
  BackoffMax,    \* NLM_SPOOL_BACKOFF_MAX_SECONDS, in ticks
  AttemptCap,    \* bound on attempts: the window no longer grows there
  Second         \* ticks in a second, the resolution of CURRENT_TIMESTAMP

\* The settings that LoadSpool accepts.
LoadSpool ==
  /\ DrainRows \in Nat \ {0} /\ MaxAge \in Nat \ {0} /\ MaxSize \in Nat \ {0}
  /\ BackoffBase \in Nat \ {0} /\ BackoffMax \in Nat /\ BackoffMax >= BackoffBase

ASSUME SpoolAssumption ==
  /\ LoadSpool
  /\ BackoffMax <= MaxInt
  /\ Second \in Nat \ {0}
  /\ AttemptCap \in Nat \ {0}
  /\ IsFiniteSet(Procs)
  /\ NULL \notin Nat \cup Procs

\* The cap on attempts changes no window.
ASSUME AttemptCapAssumption == Backoff(AttemptCap, BackoffBase, BackoffMax) = BackoffMax

VARIABLES
  spool,       \* table spool: the rows present, by run
  payload,     \* the SpoolMetadata encoded in the payload of each run ever enqueued
  dropsTotal,  \* spool_meta.drops_total
  saved,       \* spool_meta.last_depth and last_drops_total
  pages,       \* size of the database file, in rows
  phase,       \* ticks since the last full second
  pc, batch, snap,     \* each process: where it is, rows to send, values read
  dropped, uncounted   \* history: runs deleted by retention; bumps never made

tables    == <<spool, payload, dropsTotal, saved, pages>>
locals    == <<batch, snap>>
history   == <<dropped, uncounted>>
spoolVars == <<spool, payload, dropsTotal, saved, pages, phase, pc, batch, snap,
               dropped, uncounted>>

Snapshot == [depth : Nat, drops : Nat]
ZeroSnapshot == [depth |-> 0, drops |-> 0]
Row == [age : Nat, attempts : Nat, idle : Nat \cup {NULL}]
Label == {"idle", "enqueue", "select", "drain", "wait", "delete", "mark", "retain",
          "drop", "bump", "measure", "saveDepth", "saveDrops"}

spooled  == DOMAIN spool
produced == DOMAIN payload

SpoolTypeOK ==
  /\ produced \subseteq Runs
  /\ payload \in [produced -> Snapshot]
  /\ spooled \subseteq produced
  /\ spool \in [spooled -> Row]
  /\ dropsTotal \in Nat
  /\ saved \in Snapshot
  /\ pages \in Nat
  /\ phase \in Nat
  /\ pc \in [Procs -> Label]
  /\ batch \in [Procs -> SUBSET produced]
  /\ snap \in [Procs -> Snapshot]
  /\ dropped \subseteq produced
  /\ uncounted \in Nat

SpoolInit ==
  /\ spool = [r \in {} |-> NULL]
  /\ payload = [r \in {} |-> NULL]
  /\ dropsTotal = 0
  /\ saved = ZeroSnapshot
  /\ pages = 0
  /\ phase = 0
  /\ pc = [p \in Procs |-> "idle"]
  /\ batch = [p \in Procs |-> {}]
  /\ snap = [p \in Procs |-> ZeroSnapshot]
  /\ dropped = {}
  /\ uncounted = 0

Goto(p, from, to) == pc[p] = from /\ pc' = [pc EXCEPT ![p] = to]

First(S, r) == r \in S /\ \A s \in S : r <= s

------------------------------------------------------------------------------
(* Enqueueing.                                                             *)

\* What LastDrainSnapshot can return: with an error, zeros for the keys not read before it.
LastDrainSnapshot ==
  {saved} \cup {s \in [depth : {saved.depth, 0}, drops : {saved.drops, 0}] : "readerr" \in Faults}

\* Spoke.Run ignores the error.  A cycle without targets returns before this
\* and changes nothing.
BeginCycle(p) ==
  /\ Goto(p, "idle", "enqueue")
  /\ \E s \in LastDrainSnapshot : snap' = [snap EXCEPT ![p] = s]
  /\ UNCHANGED <<tables, phase, batch, history>>

\* SQLite reuses the pages of deleted rows and never gives one back: neither
\* auto_vacuum nor VACUUM is used, so the file keeps its largest size.
Footprint(n) == IF n > pages THEN n ELSE pages

\* Mutant: the first attempt is counted from the wrong start.
RowMinusOne == [age |-> phase, attempts |-> -1, idle |-> NULL]

\* The defaults of table spool; enqueued_at is truncated to the second.
NewRow == [age |-> phase, attempts |-> 0, idle |-> NULL]

\* INSERT INTO spool.  Runs bounds the model: later cycles go on as cycles
\* whose row is already dealt with.
Enqueue(p) ==
  /\ Goto(p, "enqueue", "select")
  /\ \/ \E r \in Runs \ produced :
          /\ First(Runs \ produced, r)
          /\ payload' = [s \in produced \cup {r} |-> IF s = r THEN snap[p] ELSE payload[s]]
          /\ spool' = [s \in spooled \cup {r} |-> IF s = r THEN NewRow ELSE spool[s]]
          /\ pages' = Footprint(Cardinality(spooled \cup {r}))
     \/ Runs \subseteq produced /\ UNCHANGED <<payload, spool, pages>>
  /\ snap' = [snap EXCEPT ![p] = ZeroSnapshot]
  /\ UNCHANGED <<dropsTotal, saved, phase, batch, history>>

------------------------------------------------------------------------------
(* Draining.                                                               *)

\* The backoff test of Drain: never tried, or last_attempt_at + window <= now.
Due(r) == \/ spool[r].idle = NULL
          \/ spool[r].idle >= Backoff(spool[r].attempts, BackoffBase, BackoffMax)

\* The first DrainRows rows by age.
InLimit(r) == Cardinality({s \in spooled : s < r}) < DrainRows

\* Mutant: rows still inside their window are sent as well.
CandidatesIgnoringBackoff == {r \in spooled : InLimit(r)}

\* LIMIT DrainRows counts the rows in backoff, which the loop then skips.
Candidates == {r \in spooled : InLimit(r) /\ Due(r)}

\* The SELECT of Drain and the reading of `now`: nothing but the batch
\* remembers what was read.
Select(p) ==
  /\ Goto(p, "select", "drain")
  /\ batch' = [batch EXCEPT ![p] = Candidates]
  /\ UNCHANGED <<tables, phase, snap, history>>

\* send.Send is called with the oldest row left in the batch.
StartSend(p) ==
  /\ batch[p] # {}
  /\ Goto(p, "drain", "wait")
  /\ UNCHANGED <<tables, phase, locals, history>>

\* Send returns: Accepted, or one of the two failures, handled alike.
SendReturn(p, accepted) ==
  /\ Goto(p, "wait", IF accepted THEN "delete" ELSE "mark")
  /\ UNCHANGED <<tables, phase, locals, history>>

\* The table after deleting the row of run r.
Without(r) == [s \in spooled \ {r} |-> spool[s]]

\* DELETE FROM spool WHERE id = ?, no error when the row is gone.
DeleteRow(p) ==
  /\ Goto(p, "delete", "drain")
  /\ \E r \in batch[p] :
       /\ First(batch[p], r)
       /\ batch' = [batch EXCEPT ![p] = @ \ {r}]
       /\ spool' = Without(r)
  /\ UNCHANGED <<payload, dropsTotal, saved, pages, phase, snap, history>>

\* markFailure: attempts + 1 and last_attempt_at = CURRENT_TIMESTAMP.
MarkFailure(p) ==
  /\ Goto(p, "mark", "drain")
  /\ \E r \in batch[p] :
       /\ First(batch[p], r)
       /\ batch' = [batch EXCEPT ![p] = @ \ {r}]
       /\ spool' = [s \in spooled |->
            IF s = r THEN [age |-> spool[s].age,
                           attempts |-> IF spool[s].attempts < AttemptCap
                                        THEN spool[s].attempts + 1 ELSE AttemptCap,
                           idle |-> phase]
                     ELSE spool[s]]
  /\ UNCHANGED <<payload, dropsTotal, saved, pages, phase, snap, history>>

EndBatch(p) ==
  /\ batch[p] = {}
  /\ Goto(p, "drain", "retain")
  /\ UNCHANGED <<tables, phase, locals, history>>

------------------------------------------------------------------------------
(* enforceRetention.                                                       *)

\* FootprintBytes exceeds MaxSize; OldestAge exceeds MaxAge.
TooLarge == pages > MaxSize
TooOld   == \E r \in spooled : First(spooled, r) /\ spool[r].age > MaxAge

\* Mutant: only the size bound is looked at.
ExcessOfSize == spooled # {} /\ TooLarge

\* There is a row, and a bound is exceeded.
Excess == spooled # {} /\ (TooLarge \/ TooOld)

RetentionCheck(p) ==
  /\ Goto(p, "retain", IF Excess THEN "drop" ELSE "measure")
  /\ UNCHANGED <<tables, phase, locals, history>>

\* Mutant: the number of rows affected is not looked at.
NoRowBumps(p) ==
  /\ spooled = {}
  /\ Goto(p, "drop", "bump")
  /\ UNCHANGED <<tables, phase, locals, history>>

\* The DELETE affects no row, another process was faster: the loop ends.
NoRowLeft(p) ==
  /\ spooled = {}
  /\ Goto(p, "drop", "measure")
  /\ UNCHANGED <<tables, phase, locals, history>>

\* The DELETE of the oldest row.
DropOldest(p) ==
  /\ Goto(p, "drop", "bump")
  /\ \E r \in spooled :
       /\ First(spooled, r)
       /\ spool' = Without(r)
       /\ dropped' = dropped \cup {r}
  /\ UNCHANGED <<payload, dropsTotal, saved, pages, phase, locals, uncounted>>

\* Mutant: the bounds are not read again before the next DELETE.
BumpDropsWithoutRecheck(p) ==
  /\ Goto(p, "bump", "drop")
  /\ dropsTotal' = dropsTotal + 1
  /\ UNCHANGED <<spool, payload, saved, pages, phase, locals, history>>

\* The UPDATE of drops_total, a statement of its own.
BumpDrops(p) ==
  /\ Goto(p, "bump", "retain")
  /\ dropsTotal' = dropsTotal + 1
  /\ UNCHANGED <<spool, payload, saved, pages, phase, locals, history>>

------------------------------------------------------------------------------
(* The post-drain snapshot.                                                *)

\* What Depth and DropsTotal can return: zero with an error.
Depth      == {Cardinality(spooled)} \cup {n \in {0} : "readerr" \in Faults}
DropsTotal == {dropsTotal} \cup {n \in {0} : "readerr" \in Faults}

\* Spoke.Run ignores the errors.
Measure(p) ==
  /\ Goto(p, "measure", "saveDepth")
  /\ \E d \in Depth, n \in DropsTotal :
       snap' = [snap EXCEPT ![p] = [depth |-> d, drops |-> n]]
  /\ UNCHANGED <<tables, phase, batch, history>>

\* SaveDrainSnapshot is one UPDATE per key.  The update between these two,
\* of last_oldest_age_secs, is left out with the value it carries.
SaveDepth(p) ==
  /\ Goto(p, "saveDepth", "saveDrops")
  /\ saved' = [depth |-> snap[p].depth, drops |-> saved.drops]
  /\ UNCHANGED <<spool, payload, dropsTotal, pages, phase, locals, history>>

\* Mutant: the arguments of SaveDrainSnapshot are swapped.
SaveDropsSwapped(p) ==
  /\ Goto(p, "saveDrops", "idle")
  /\ saved' = [depth |-> saved.depth, drops |-> snap[p].depth]
  /\ snap' = [snap EXCEPT ![p] = ZeroSnapshot]
  /\ UNCHANGED <<spool, payload, dropsTotal, pages, phase, batch, history>>

SaveDrops(p) ==
  /\ Goto(p, "saveDrops", "idle")
  /\ saved' = [depth |-> saved.depth, drops |-> snap[p].drops]
  /\ snap' = [snap EXCEPT ![p] = ZeroSnapshot]
  /\ UNCHANGED <<spool, payload, dropsTotal, pages, phase, batch, history>>

------------------------------------------------------------------------------
(* Failure, time, and the component on its own.                            *)

\* The cycle ends early: the process is killed, its context expires, or a
\* statement fails.  Everything after the statement is skipped.
Stop(p) ==
  /\ "stop" \in Faults
  /\ pc[p] # "idle"
  /\ pc' = [pc EXCEPT ![p] = "idle"]
  /\ batch' = [batch EXCEPT ![p] = {}]
  /\ snap' = [snap EXCEPT ![p] = ZeroSnapshot]
  /\ uncounted' = IF pc[p] = "bump" THEN uncounted + 1 ELSE uncounted
  /\ UNCHANGED <<tables, phase, dropped>>

Later(n, cap) == IF n < cap THEN n + 1 ELSE cap

\* A row, a tick later.
Aged(row) == [age |-> Later(row.age, MaxAge + 1),
              attempts |-> row.attempts,
              idle |-> IF row.idle = NULL THEN NULL ELSE Later(row.idle, BackoffMax)]

Tick ==
  /\ phase' = (phase + 1) % Second
  /\ spool' = [r \in spooled |-> Aged(spool[r])]
  /\ UNCHANGED <<payload, dropsTotal, saved, pages, pc, locals, history>>

\* The steps of a cycle other than the exchange with the controller.
LocalStep(p) ==
  \/ BeginCycle(p) \/ Enqueue(p) \/ Select(p)
  \/ DeleteRow(p) \/ MarkFailure(p) \/ EndBatch(p)
  \/ RetentionCheck(p) \/ NoRowLeft(p) \/ DropOldest(p) \/ BumpDrops(p)
  \/ Measure(p) \/ SaveDepth(p) \/ SaveDrops(p)

\* The spool with a Sender that may return anything.
CycleStep(p) == LocalStep(p) \/ StartSend(p) \/ \E accepted \in BOOLEAN : SendReturn(p, accepted)

SpoolNext == (\E p \in Procs : CycleStep(p) \/ Stop(p)) \/ Tick

SpoolSpec == SpoolInit /\ [][SpoolNext]_spoolVars

\* The timer or the ticker starts every cycle and a cycle's statements
\* return; HTTPTimeout bounds the wait for an answer.
SpoolFairness == WF_spoolVars(Tick) /\ \A p \in Procs : WF_spoolVars(CycleStep(p))

SpoolFairSpec == SpoolSpec /\ SpoolFairness

------------------------------------------------------------------------------
(* Properties.                                                             *)

\* Backoff returns min(2^attempts * base, max), the formula of its comment
\* (backoff.go:6), for every configuration config.go accepts in this word, past
\* the point where the doubling overflows and with a negative count read as
\* zero.  It is about Backoff alone: the initial state is enough to evaluate it.
WindowIsCappedPower == SpoolInit => \A n \in -1 .. 10 : IsCappedPower(n)

\* A row is sent only while it is spooled and its backoff window, counted
\* from the last failure on record, has passed.  Drain tests this once, before
\* the first send of the batch (spool.go:289-304).  With two processes it
\* fails: the batch outlives a failure that the other one records.
BackoffHonoured ==
  [][\A p \in Procs, r \in Runs :
       pc[p] = "drain" /\ pc'[p] = "wait" /\ First(batch[p], r)
         => r \in spooled /\ Due(r)]_spoolVars

\* Retention deletes a row only while a bound is exceeded, the oldest row
\* first, although the bounds are read some statements before the DELETE
\* (spool.go:361-384).  With two processes both can act on the same excess.
RetentionDropsOnlyExcess ==
  [][\A r \in dropped' \ dropped : Excess /\ First(spooled, r)]_spoolVars

\* spool.go:353-354 "deletes oldest rows until BOTH age and size bounds are
\* satisfied": when enforceRetention returns, no row is older than MaxAge,
\* although it looks at the age of one row only, and the rows left would fit
\* into MaxSize, although it looks at the file and not at the rows.  The size,
\* the age and the number of rows are read in one step here; for the one
\* process on the file nothing but time passes between the three reads.
RetentionSuffices ==
  [][\A p \in Procs :
       pc[p] \in {"retain", "drop"} /\ pc'[p] = "measure"
         => /\ Cardinality(spooled) <= MaxSize
            /\ \A r \in spooled : spool[r].age <= MaxAge]_spoolVars

\* Every row retention deleted is in drops_total, is about to be added to it,
\* or was lost with a cycle that stopped between the two statements
\* (spool.go:382-398), whatever the processes that share the file do.
DropsAccounted ==
  dropsTotal + Cardinality({p \in Procs : pc[p] = "bump"}) + uncounted = Cardinality(dropped)

\* The drops_total that successive payloads report never decreases and never
\* exceeds the counter: what handleResults relies on to add differences.  The
\* value travels through DropsTotal, SaveDrainSnapshot and the next cycle's
\* LastDrainSnapshot (spoke.go:99-115, 142-146).
ReportsNeverRegress ==
  \A r \in produced :
    /\ payload[r].drops <= saved.drops
    /\ saved.drops <= dropsTotal
    /\ \A s \in produced : r <= s => payload[r].drops <= payload[s].drops

\* As long as drains of some process come to their end again and again, every
\* spooled row leaves the spool, accepted or dropped by age: even one that is
\* refused for ever or hidden behind DrainRows rows in backoff, and however
\* many other cycles are stopped half-way (spool.go:289-328, 355-400).
EveryRowLeaves ==
  \A p \in Procs : []<>(pc[p] = "measure") => \A r \in Runs : []<>(r \notin spooled)

\* spool.go:359 "footprint shrinks as we delete, and we must stop as soon as
\* both are satisfied": a row is condemned only if one is too old or the rows
\* present are more than fit.
StopsWhenRestFits ==
  [][\A p \in Procs :
       pc[p] = "retain" /\ pc'[p] = "drop"
         => \/ \E r \in spooled : spool[r].age > MaxAge
            \/ Cardinality(spooled) > MaxSize]_spoolVars
==============================================================================
