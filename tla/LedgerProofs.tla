---------------------------- MODULE LedgerProofs -----------------------------
(***************************************************************************)
(* Delivery implements RunLedger, for every set of runs, processes,        *)
(* requests and faults.                                                    *)
(***************************************************************************)
EXTENDS DeliveryProofs

\* The controller only ever sees runs that some process has enqueued.
RequestsProduced == \A c \in Conns : conn[c].at # "free" => conn[c].req.run \in produced

LedgerInv == AnswerInv /\ RequestsProduced

\* No request is in progress at first.
LEMMA RequestsInit == Init => LedgerInv
<1>1. Init => RequestsProduced
  BY DEF Init, IngestInit, RequestsProduced, Free
<1> QED
  BY <1>1, AnswerInit DEF LedgerInv

\* Runs are never forgotten, and of all steps only the INSERT of Enqueue makes
\* a new one.
LEMMA ProducedGrows ==
  ASSUME TypeInv, [Next]_vars
  PROVE  produced \subseteq produced'
<1> SpoolTypeOK
  BY DEF TypeInv, DeliveryTypeOK
<1>1. ASSUME NEW p \in Procs, LocalStep(p) PROVE produced \subseteq produced'
  <2>1. CASE Enqueue(p)
    BY <2>1, ZenonT(40) DEF Enqueue, produced
  <2>2. CASE ~Enqueue(p)
    <3>1. payload' = payload
      BY <1>1, <2>2, ZenonT(40)
      DEF LocalStep, BeginCycle, Select, DeleteRow, MarkFailure, EndBatch, RetentionCheck,
          NoRowLeft, DropOldest, BumpDrops, Measure, SaveDepth, SaveDrops, tables
    <3> QED
      BY <3>1 DEF produced
  <2> QED
    BY <2>1, <2>2
<1>2. ASSUME NEW p \in Procs,
             \/ \E c \in Conns : Post(p, c) \/ Answer(p, c)
             \/ GiveUp(p) \/ StopCycle(p)
      PROVE  payload' = payload
  BY <1>2, ZenonT(40) DEF Post, Answer, GiveUp, StopCycle, StartSend, SendReturn, Stop, tables
<1>3. ASSUME NEW c \in Conns, ServerStep(c) PROVE payload' = payload
  BY <1>3, ZenonT(40) DEF ServerStep, Vanish, spoolVars
<1>4. ASSUME Tick \/ UNCHANGED spoolVars \/ UNCHANGED vars PROVE payload' = payload
  BY <1>4 DEF Tick, vars, spoolVars
<1> QED
  BY <1>1, <1>2, <1>3, <1>4, ZenonT(40) DEF Next, AgentStep, produced

\* A request is made from the payload of a run, and keeps what it carries.
LEMMA RequestsCarryOn ==
  ASSUME TypeInv, [Next]_vars
  PROVE  \A c \in Conns : conn'[c].at # "free" =>
           \/ conn[c].at # "free" /\ conn'[c].req = conn[c].req
           \/ \E r \in produced :
                conn'[c].req = [run |-> r, depth |-> payload[r].depth, drops |-> payload[r].drops]
<1> SpoolTypeOK /\ IngestTypeOK
  BY DEF TypeInv, DeliveryTypeOK
<1> DEFINE Fresh(c) ==
      \E r \in produced :
        conn'[c].req = [run |-> r, depth |-> payload[r].depth, drops |-> payload[r].drops]
<1>1. ASSUME NEW p \in Procs, NEW c \in Conns, Post(p, c)
      PROVE  Fresh(c) /\ \A d \in Conns : d # c => conn'[d] = conn[d]
  <2>1. PICK r \in batch[p] :
          Arrive(c, [run |-> r, depth |-> payload[r].depth, drops |-> payload[r].drops])
    BY <1>1, ZenonT(40) DEF Post
  <2>2. r \in produced
    BY DEF SpoolTypeOK
  <2> QED
    BY <2>1, <2>2 DEF Arrive, IngestTypeOK
<1>2. ASSUME NEW c \in Conns,
             Release(c) \/ BearerAuth(c) \/ PersistResults(c) \/ UpdateSpoolStats(c) \/ CountMetrics(c)
      PROVE  \A d \in Conns : conn'[d].at # "free" =>
               conn[d].at # "free" /\ conn'[d].req = conn[d].req
  <2>1. CASE Release(c)
    BY <2>1 DEF Release, Free, IngestTypeOK
  <2>2. CASE ~Release(c)
    <3>1. conn[c].at # "free" /\ \E at, status : Advance(c, at, status)
      BY <1>2, <2>2, ZenonT(40) DEF BearerAuth, PersistResults, UpdateSpoolStats, CountMetrics
    <3>2. PICK at, status : Advance(c, at, status)
      BY <3>1
    <3> QED
      BY <3>1, <3>2 DEF Advance, IngestTypeOK
  <2> QED
    BY <2>1, <2>2
<1>3. \/ conn' = conn
      \/ ControllerCrash
      \/ \E c \in Conns : \/ \E p \in Procs : Post(p, c)
                          \/ Release(c) \/ BearerAuth(c) \/ PersistResults(c)
                          \/ UpdateSpoolStats(c) \/ CountMetrics(c)
  BY ZenonT(60) DEF Next, AgentStep, ServerStep, StopCycle, Answer, GiveUp, Vanish, ChangeCredential,
                    vars, ingestVars
<1> HIDE DEF Fresh
<1> DEFINE Same(d) == conn[d].at # "free" /\ conn'[d].req = conn[d].req
<1>4. ASSUME NEW d \in Conns, conn'[d].at # "free" PROVE Same(d) \/ Fresh(d)
  <2>1. CASE conn' = conn
    BY <1>4, <2>1
  <2>2. CASE ControllerCrash
    BY <1>4, <2>2 DEF ControllerCrash, Free
  <2>3. ASSUME NEW c \in Conns, NEW p \in Procs, Post(p, c) PROVE Same(d) \/ Fresh(d)
    <3>1. Fresh(c) /\ (d # c => conn'[d] = conn[d])
      BY <1>1, <2>3, Zenon
    <3> QED
      BY <1>4, <3>1
  <2>4. ASSUME NEW c \in Conns,
               Release(c) \/ BearerAuth(c) \/ PersistResults(c) \/ UpdateSpoolStats(c) \/ CountMetrics(c)
        PROVE  Same(d)
    BY <1>2, <1>4, <2>4, Zenon
  <2> HIDE DEF Same
  <2> QED
    BY <1>3, <2>1, <2>2, <2>3, <2>4, Zenon
<1> QED
  BY <1>4 DEF Fresh

\* A request carries a run that was enqueued.
LEMMA RequestsNext == LedgerInv /\ [Next]_vars => LedgerInv'
<1> SUFFICES ASSUME LedgerInv, [Next]_vars PROVE LedgerInv'
  OBVIOUS
<1> TypeInv /\ RequestsProduced
  BY DEF LedgerInv, AnswerInv
<1>1. produced \subseteq produced'
  BY ProducedGrows
<1>2. ASSUME NEW c \in Conns, conn'[c].at # "free" PROVE conn'[c].req.run \in produced
  <2>1. CASE conn[c].at # "free" /\ conn'[c].req = conn[c].req
    BY <2>1 DEF RequestsProduced
  <2>2. CASE \E r \in produced :
               conn'[c].req = [run |-> r, depth |-> payload[r].depth, drops |-> payload[r].drops]
    BY <2>2
  <2> QED
    BY <1>2, <2>1, <2>2, RequestsCarryOn
<1>3. RequestsProduced'
  BY <1>1, <1>2 DEF RequestsProduced
<1> QED
  BY <1>3, AnswerNext DEF LedgerInv

------------------------------------------------------------------------------
(* The refinement.                                                         *)

\* The runs that RunLedger calls stored.
StoredRuns == {r \in Runs : Stored(r)}

\* An empty spool and an empty table are RunLedger's initial state.
LEMMA InitRefines == Init => Ledger!Init
<1> SUFFICES ASSUME Init PROVE Ledger!Init
  OBVIOUS
<1>1. produced = {} /\ spooled = {} /\ dropped = {}
  BY DEF Init, SpoolInit, produced, spooled
<1>2. \A r : ~Stored(r)
  BY IngestAssumption DEF Init, IngestInit, Stored
<1> QED
  BY <1>1, <1>2 DEF Ledger!Init

\* What a step that touches neither rows nor observations is to RunLedger.
LEMMA Stutters ==
  ASSUME UNCHANGED <<produced, spooled, results, dropped>>
  PROVE  UNCHANGED Ledger!ledger
BY DEF Ledger!ledger, Stored

\* The cycle's own steps: the INSERT produces a run, the DELETE after an
\* answer settles one, retention drops one, and nothing else moves a run.
LEMMA LocalRefines ==
  ASSUME LedgerInv, NEW p \in Procs, LocalStep(p), UNCHANGED <<ingestVars, caller>>
  PROVE  [Ledger!Next]_Ledger!ledger
<1> SpoolTypeOK /\ AcceptedMeansStored
  BY DEF LedgerInv, AnswerInv, TypeInv, DeliveryTypeOK
<1>0. results' = results /\ StoredRuns' = StoredRuns
  BY DEF ingestVars, StoredRuns, Stored
<1>1. CASE Enqueue(p)
  <2>1. CASE UNCHANGED <<payload, spool, pages>>
    BY <1>0, <1>1, <2>1, Stutters DEF Enqueue, history, produced, spooled
  <2>2. ASSUME NEW r \in Runs \ produced,
               payload' = [s \in produced \cup {r} |-> IF s = r THEN snap[p] ELSE payload[s]],
               spool' = [s \in spooled \cup {r} |-> IF s = r THEN NewRow ELSE spool[s]]
        PROVE  Ledger!Next
    <3>1. produced' = produced \cup {r} /\ spooled' = spooled \cup {r} /\ dropped' = dropped
      BY <1>1, <2>2 DEF Enqueue, history, produced, spooled
    <3>2. Ledger!Produce(r)
      BY <1>0, <3>1 DEF Ledger!Produce, StoredRuns
    <3> QED
      BY <3>2 DEF Ledger!Next
  <2> QED
    BY <1>1, <2>1, <2>2, ZenonT(40) DEF Enqueue
<1>2. CASE DeleteRow(p)
  <2>1. PICK r \in batch[p] : First(batch[p], r) /\ spool' = Without(r)
    BY <1>2, ZenonT(40) DEF DeleteRow
  <2>2. r \in Runs /\ Stored(r)
    BY <1>2, <2>1 DEF DeleteRow, Goto, SpoolTypeOK, AcceptedMeansStored
  <2>3. produced' = produced /\ spooled' = spooled \ {r} /\ dropped' = dropped
    BY <1>2, <2>1 DEF DeleteRow, Without, history, produced, spooled
  <2>4. CASE r \in spooled
    <3>1. Ledger!Settle(r)
      BY <1>0, <2>2, <2>3, <2>4 DEF Ledger!Settle, StoredRuns
    <3> QED
      BY <2>2, <3>1 DEF Ledger!Next
  <2>5. CASE r \notin spooled
    BY <1>0, <2>3, <2>5, Stutters
  <2> QED
    BY <2>4, <2>5
<1>3. CASE DropOldest(p)
  <2>1. PICK r \in spooled : spool' = Without(r) /\ dropped' = dropped \cup {r}
    BY <1>3, ZenonT(40) DEF DropOldest
  <2>2. produced' = produced /\ spooled' = spooled \ {r} /\ r \in Runs
    BY <1>3, <2>1 DEF DropOldest, Without, produced, spooled, SpoolTypeOK
  <2>3. Ledger!Drop(r)
    BY <1>0, <2>1, <2>2 DEF Ledger!Drop, StoredRuns
  <2> QED
    BY <2>2, <2>3 DEF Ledger!Next
<1>4. CASE MarkFailure(p)
  <2>1. UNCHANGED <<produced, spooled, dropped>>
    BY <1>4 DEF MarkFailure, history, produced, spooled
  <2> QED
    BY <1>0, <2>1, Stutters
<1>5. CASE \/ BeginCycle(p) \/ Select(p) \/ EndBatch(p) \/ RetentionCheck(p) \/ NoRowLeft(p)
           \/ BumpDrops(p) \/ Measure(p) \/ SaveDepth(p) \/ SaveDrops(p)
  <2>1. UNCHANGED <<spool, payload, dropped>>
    BY <1>5 DEF BeginCycle, Select, EndBatch, RetentionCheck, NoRowLeft, BumpDrops, Measure,
                SaveDepth, SaveDrops, tables, history
  <2> QED
    BY <1>0, <2>1, Stutters DEF produced, spooled
<1> QED
  BY <1>1, <1>2, <1>3, <1>4, <1>5 DEF LocalStep

\* The transaction of persistResults stores one run, whole and for the first
\* time; a replay or a failure stores nothing.
LEMMA PersistRefines ==
  ASSUME LedgerInv, NEW c \in Conns, PersistResults(c), UNCHANGED spoolVars
  PROVE  [Ledger!Next]_Ledger!ledger
<1> IngestTypeOK /\ RequestsProduced /\ AllOrNothing
  BY DEF LedgerInv, AnswerInv, TypeInv, DeliveryTypeOK
<1>0. PICK run : run = conn[c].req.run
  OBVIOUS
<1>1. run \in Runs /\ run \in produced
  BY <1>0 DEF PersistResults, RequestsProduced, IngestTypeOK, Conn, Free, Request
<1>2. UNCHANGED <<produced, spooled, dropped>>
  BY DEF spoolVars, produced, spooled
<1>3. CASE results' = results
  BY <1>2, <1>3, Stutters
<1>4. CASE /\ results' = results \cup ({run} \X Targets)
           /\ \A t \in Targets : <<run, t>> \notin results
  <2>1. ~Stored(run)
    BY <1>4, IngestAssumption DEF Stored
  <2>2. \A r \in Runs : Stored(r)' <=> Stored(r) \/ r = run
    BY <1>4 DEF Stored
  <2>3. StoredRuns' = StoredRuns \cup {run} /\ run \notin StoredRuns
    BY <1>1, <2>1, <2>2 DEF StoredRuns
  <2>4. Ledger!Store(run)
    BY <1>1, <1>2, <2>3 DEF Ledger!Store, StoredRuns
  <2> QED
    BY <1>1, <2>4 DEF Ledger!Next
<1> QED
  BY <1>0, <1>3, <1>4, ZenonT(40) DEF PersistResults, RolledBack

\* Every step of Delivery is a step of RunLedger or leaves it alone.
LEMMA NextRefines == LedgerInv /\ [Next]_vars => [Ledger!Next]_Ledger!ledger
<1> SUFFICES ASSUME LedgerInv, [Next]_vars PROVE [Ledger!Next]_Ledger!ledger
  OBVIOUS
<1>1. ASSUME NEW p \in Procs,
             \/ \E c \in Conns : Post(p, c) \/ Answer(p, c)
             \/ GiveUp(p) \/ StopCycle(p)
      PROVE  UNCHANGED Ledger!ledger
  <2>1. UNCHANGED <<results, spool, payload, dropped>>
    BY <1>1, ZenonT(40) DEF Post, Answer, GiveUp, StopCycle, StartSend, SendReturn, Stop, Arrive,
                            Release, ingestVars, tables, history
  <2> QED
    BY <2>1, Stutters DEF produced, spooled
<1>2. ASSUME NEW c \in Conns, ServerStep(c), ~PersistResults(c) PROVE UNCHANGED Ledger!ledger
  <2>1. UNCHANGED <<results, spool, payload, dropped>>
    BY <1>2, ZenonT(40) DEF ServerStep, Vanish, Release, BearerAuth, UpdateSpoolStats, CountMetrics,
                            spoolVars
  <2> QED
    BY <2>1, Stutters DEF produced, spooled
<1>3. ASSUME NEW c \in Conns, ServerStep(c), PersistResults(c) PROVE [Ledger!Next]_Ledger!ledger
  <2>1. CASE UNCHANGED spoolVars
    BY <1>3, <2>1, PersistRefines
  <2> QED
    BY <1>3, <2>1, ZenonT(40) DEF ServerStep, Vanish
<1>4. ASSUME \/ Tick /\ UNCHANGED <<ingestVars, caller>>
             \/ ChangeCredential /\ UNCHANGED <<spoolVars, caller>>
             \/ ControllerCrash /\ UNCHANGED spoolVars
             \/ UNCHANGED vars
      PROVE  UNCHANGED Ledger!ledger
  <2>1. UNCHANGED <<results, payload, dropped>> /\ spooled' = spooled
    BY <1>4 DEF Tick, ChangeCredential, ControllerCrash, vars, ingestVars, spoolVars, locals,
                history, spooled
  <2> QED
    BY <2>1, Stutters DEF produced
<1> QED
  BY <1>1, <1>2, <1>3, <1>4, LocalRefines, ZenonT(60) DEF Next, AgentStep

\* Spool and ingest together keep RunLedger's promise whatever fails: a run is
\* stored at most once, whole and for good, and leaves the spool unstored only
\* through retention.
THEOREM LedgerImplemented == Spec => ImplementsLedger
<1> QED
  BY InitRefines, RequestsInit, RequestsNext, NextRefines, PTL
  DEF Spec, ImplementsLedger, Ledger!Spec

------------------------------------------------------------------------------
(* No run is lost in silence: a consequence of the refinement.             *)

\* A run is accounted for.
Kept(r) == r \in spooled \/ Stored(r) \/ r \in dropped

\* RunLedger keeps account of every run: one that is new is pending, and one
\* that stops being pending is stored or dropped.
LEMMA KeptForGood ==
  ASSUME [Ledger!Next]_Ledger!ledger, NEW r \in Runs, Kept(r) \/ r \in produced' \ produced
  PROVE  Kept(r)'
<1> r \in StoredRuns <=> Stored(r)
  BY DEF StoredRuns
<1> r \in StoredRuns' <=> Stored(r)'
  BY DEF StoredRuns
<1>1. CASE UNCHANGED Ledger!ledger
  BY <1>1 DEF Ledger!ledger, Kept, StoredRuns
<1>2. CASE Ledger!Next
  BY <1>2 DEF Ledger!Next, Ledger!Produce, Ledger!Store, Ledger!Settle, Ledger!Drop, Kept, StoredRuns
<1> QED
  BY <1>1, <1>2

\* No probe run is ever lost in silence, for any number of processes sharing
\* the spool, requests in progress and runs, and under every fault modelled.
THEOREM NothingLost == Spec => []NoSilentLoss
<1> DEFINE Inv == LedgerInv /\ NoSilentLoss
<1>1. Init => Inv
  BY RequestsInit DEF Init, SpoolInit, NoSilentLoss, produced
<1>2. Inv /\ [Next]_vars => Inv'
  <2> SUFFICES ASSUME Inv, [Next]_vars PROVE NoSilentLoss'
    BY RequestsNext
  <2>1. \A r \in produced' : r \in Runs
    BY RequestsNext DEF LedgerInv, AnswerInv, TypeInv, DeliveryTypeOK, SpoolTypeOK
  <2>2. \A r \in produced' : Kept(r) \/ r \in produced' \ produced
    BY DEF NoSilentLoss, Kept
  <2>3. \A r \in produced' : Kept(r)'
    BY <2>1, <2>2, NextRefines, KeptForGood
  <2> QED
    BY <2>3 DEF NoSilentLoss, Kept
<1> QED
  BY <1>1, <1>2, PTL DEF Spec

------------------------------------------------------------------------------
(* The counter of new results.  A handler that has committed counts its    *)
(* observations later, so the counter is compared with the observations of *)
(* runs that no handler is still to count.                                 *)

\* Between the commit of a first write and the counter.
ToCount(c) == conn[c].at \in {"stored", "booked"} /\ conn[c].status = "201"

\* The observations that no request in progress will still count.
Settled == {o \in results : \A c \in Conns : ToCount(c) => conn[c].req.run # o[1]}

\* One request commits a run; the observations that have been counted are
\* among those that are settled.
CountInv ==
  /\ IsFiniteSet(results)
  /\ \A c, d \in Conns : ToCount(c) /\ ToCount(d) /\ conn[c].req.run = conn[d].req.run => c = d
  /\ resultsMetric <= Cardinality(Settled)

\* Nothing is stored or counted at first.
LEMMA CountInit == Init => CountInv
<1> SUFFICES ASSUME Init PROVE CountInv
  OBVIOUS
<1>1. results = {} /\ Settled = {} /\ resultsMetric = 0 /\ \A c \in Conns : ~ToCount(c)
  BY DEF Init, IngestInit, Settled, ToCount, Free
<1> QED
  BY <1>1, FS_EmptySet DEF CountInv

\* What CountInv says of the metric: it does not exceed the table.
LEMMA CountedWithin == IngestTypeOK /\ CountInv => ResultsCountedOnce
<1> SUFFICES ASSUME IngestTypeOK, CountInv PROVE resultsMetric <= Cardinality(results)
  BY DEF ResultsCountedOnce
<1>1. Settled \in SUBSET results /\ IsFiniteSet(results)
  BY DEF Settled, CountInv
<1>2. IsFiniteSet(Settled) /\ Cardinality(Settled) <= Cardinality(results)
  BY <1>1, FS_Subset
<1> QED
  BY <1>1, <1>2, FS_CardinalityType DEF CountInv, IngestTypeOK

\* Requests that come, go or move before the commit or after the count leave
\* the counter and the settled observations alone.
LEMMA CountKept ==
  ASSUME CountInv, UNCHANGED <<results, resultsMetric>>,
         \A c \in Conns : /\ ToCount(c)' <=> ToCount(c)
                          /\ ToCount(c) => conn'[c].req = conn[c].req
  PROVE  CountInv'
<1>1. Settled' = Settled
  BY DEF Settled
<1> QED
  BY <1>1 DEF CountInv

\* The transaction of a first write adds observations of a run that was not
\* there, which this request alone is to count.
LEMMA CountPersist ==
  ASSUME AnswerInv, CountInv, NEW c \in Conns, PersistResults(c)
  PROVE  CountInv'
<1> IngestTypeOK /\ AcceptedMeansStored
  BY DEF AnswerInv, TypeInv, DeliveryTypeOK
<1>0. PICK run : run = conn[c].req.run
  OBVIOUS
<1>1. /\ conn[c].at = "authed" /\ ~ToCount(c) /\ UNCHANGED resultsMetric
      /\ \A d \in Conns : d # c => conn'[d] = conn[d]
      /\ conn'[c].req = conn[c].req
  BY DEF PersistResults, Advance, IngestTypeOK, ToCount, metrics
<1>2. CASE results' = results /\ ~ToCount(c)'
  BY <1>1, <1>2, CountKept DEF ToCount
<1>3. CASE /\ results' = results \cup ({run} \X Targets)
           /\ \A t \in Targets : <<run, t>> \notin results
           /\ ToCount(c)'
  <2>1. \A d \in Conns : ToCount(d) => conn[d].req.run # run
    BY <1>3, IngestAssumption DEF ToCount, AcceptedMeansStored, Accepted, Stored
  <2>2. \A o \in results : o[1] # run
    BY <1>3 DEF IngestTypeOK
  <2>3. Settled' = Settled
    <3>1. \A d \in Conns : (ToCount(d)' <=> ToCount(d) \/ d = c) /\ conn'[d].req = conn[d].req
      BY <1>1, <1>3 DEF ToCount
    <3> QED
      BY <1>0, <1>3, <2>2, <3>1 DEF Settled
  <2>4. IsFiniteSet({run} \X Targets)
    BY IngestAssumption, FS_Singleton, FS_Product
  <2>5. IsFiniteSet(results')
    BY <1>3, <2>4, FS_Union DEF CountInv
  <2> QED
    BY <1>0, <1>1, <2>1, <2>3, <2>5 DEF CountInv, ToCount
<1> QED
  <2>1. \/ results' = results /\ conn'[c].status # "201"
        \/ /\ results' = results \cup ({run} \X Targets)
           /\ \A t \in Targets : <<run, t>> \notin results
           /\ conn'[c].at = "stored" /\ conn'[c].status = "201"
    BY <1>0 DEF PersistResults, RolledBack, Advance, IngestTypeOK
  <2> QED
    BY <1>2, <1>3, <2>1 DEF ToCount

\* The counter moves by the observations of the run, which are settled now and
\* were not before.
LEMMA CountMoves ==
  ASSUME AnswerInv, CountInv, NEW c \in Conns, CountMetrics(c)
  PROVE  CountInv'
<1> IngestTypeOK /\ AcceptedMeansStored
  BY DEF AnswerInv, TypeInv, DeliveryTypeOK
<1>0. PICK run : run = conn[c].req.run
  OBVIOUS
<1>1. /\ conn[c].at = "booked" /\ ~ToCount(c)' /\ UNCHANGED results
      /\ \A d \in Conns : d # c => conn'[d] = conn[d]
      /\ resultsMetric' = resultsMetric + NewObservations(conn[c].status)
  BY DEF CountMetrics, Advance, IngestTypeOK, ToCount
<1>2. CASE conn[c].status # "201"
  <2>1. resultsMetric' = resultsMetric /\ ~ToCount(c)
    BY <1>1, <1>2 DEF NewObservations, ToCount, IngestTypeOK
  <2> QED
    BY <1>1, <2>1, CountKept DEF ToCount
<1>3. CASE conn[c].status = "201"
  <2>1. ToCount(c) /\ Stored(run)
    BY <1>0, <1>1, <1>3 DEF ToCount, AcceptedMeansStored, Accepted
  <2>2. Settled' = Settled \cup ({run} \X Targets) /\ Settled \cap ({run} \X Targets) = {}
    <3>1. \A d \in Conns : /\ ToCount(d)' <=> ToCount(d) /\ d # c
                           /\ ToCount(d)' => conn'[d].req.run = conn[d].req.run /\ conn[d].req.run # run
      BY <1>0, <1>1, <2>1 DEF CountInv, ToCount
    <3>2. \A o \in results : o[1] = run <=> o \in {run} \X Targets
      BY DEF IngestTypeOK
    <3>3. {run} \X Targets \subseteq results
      BY <2>1 DEF Stored
    <3>4. \A o \in results : o \in Settled' <=> (o \in Settled \/ o[1] = run)
      BY <1>0, <1>1, <2>1, <3>1 DEF Settled
    <3>5. \A o \in Settled : o \in results /\ o[1] # run
      BY <1>0, <2>1 DEF Settled
    <3>6. Settled' \subseteq results
      BY <1>1 DEF Settled
    <3> QED
      BY <3>2, <3>3, <3>4, <3>5, <3>6
  <2>3. /\ IsFiniteSet({run} \X Targets)
        /\ Cardinality({run} \X Targets) = Cardinality(Targets)
        /\ Cardinality(Targets) \in Nat
    <3>1. IsFiniteSet({run}) /\ Cardinality({run}) = 1
      BY FS_Singleton
    <3>2. Cardinality({run} \X Targets) = 1 * Cardinality(Targets) /\ IsFiniteSet({run} \X Targets)
      BY <3>1, IngestAssumption, FS_Product
    <3>3. Cardinality(Targets) \in Nat
      BY IngestAssumption, FS_CardinalityType
    <3> QED
      BY <3>2, <3>3
  <2>4. IsFiniteSet(Settled) /\ Cardinality(Settled) \in Nat
    <3>1. Settled \in SUBSET results /\ IsFiniteSet(results)
      BY DEF Settled, CountInv
    <3> QED
      BY <3>1, FS_Subset, FS_CardinalityType
  <2>5. Cardinality(Settled') = Cardinality(Settled) + Cardinality(Targets)
    <3>1. Cardinality(Settled') = Cardinality(Settled) + Cardinality({run} \X Targets)
                                    - Cardinality(Settled \cap ({run} \X Targets))
      BY <2>2, <2>3, <2>4, FS_Union
    <3>2. Cardinality(Settled \cap ({run} \X Targets)) = 0
      BY <2>2, FS_EmptySet
    <3> QED
      BY <2>3, <2>4, <3>1, <3>2
  <2>6. resultsMetric' <= Cardinality(Settled')
    BY <1>1, <1>3, <2>3, <2>4, <2>5 DEF NewObservations, CountInv, IngestTypeOK
  <2> QED
    BY <1>1, <2>6 DEF CountInv, ToCount
<1> QED
  BY <1>2, <1>3

\* Every step of agent and controller keeps the account.
LEMMA CountNext ==
  ASSUME AnswerInv, CountInv, [Next]_vars
  PROVE  CountInv'
<1> IngestTypeOK
  BY DEF AnswerInv, TypeInv, DeliveryTypeOK
<1>1. CASE UNCHANGED ingestVars \/ ChangeCredential
  <2>1. UNCHANGED <<results, resultsMetric, conn>>
    BY <1>1 DEF ingestVars, ChangeCredential, metrics
  <2> QED
    BY <2>1, CountKept DEF ToCount
<1>2. ASSUME NEW c \in Conns, NEW p \in Procs, Post(p, c) PROVE CountInv'
  <2>1. /\ UNCHANGED <<results, resultsMetric>> /\ ~ToCount(c) /\ ~ToCount(c)'
        /\ \A d \in Conns : d # c => conn'[d] = conn[d]
    <3>1. PICK req : Arrive(c, req)
      BY <1>2, ZenonT(40) DEF Post
    <3> QED
      BY <3>1 DEF Arrive, ToCount, IngestTypeOK, metrics
  <2> QED
    BY <2>1, CountKept DEF ToCount
<1>3. ASSUME NEW c \in Conns, Release(c), conn[c].at \in {"sent", "reply"} PROVE CountInv'
  <2>1. /\ UNCHANGED <<results, resultsMetric>> /\ ~ToCount(c) /\ ~ToCount(c)'
        /\ \A d \in Conns : d # c => conn'[d] = conn[d]
    BY <1>3 DEF Release, Free, ToCount, IngestTypeOK, metrics
  <2> QED
    BY <2>1, CountKept DEF ToCount
<1>4. ASSUME NEW c \in Conns, BearerAuth(c) \/ UpdateSpoolStats(c) PROVE CountInv'
  <2>1. /\ UNCHANGED <<results, resultsMetric>> /\ conn'[c].req = conn[c].req
        /\ ToCount(c)' <=> ToCount(c)
        /\ \A d \in Conns : d # c => conn'[d] = conn[d]
    BY <1>4 DEF BearerAuth, UpdateSpoolStats, Advance, ToCount, IngestTypeOK, metrics
  <2> QED
    BY <2>1, CountKept DEF ToCount
<1>5. ASSUME NEW c \in Conns, PersistResults(c) \/ CountMetrics(c) PROVE CountInv'
  BY <1>5, CountPersist, CountMoves
<1>6. CASE ControllerCrash
  <2>1. results' = results /\ resultsMetric' = 0 /\ \A c \in Conns : ~ToCount(c)'
    BY <1>6 DEF ControllerCrash, ToCount, Free
  <2>2. Settled' = results
    BY <2>1 DEF Settled
  <2> QED
    BY <2>1, <2>2, FS_CardinalityType DEF CountInv
<1>7. \/ UNCHANGED ingestVars \/ ChangeCredential \/ ControllerCrash
      \/ \E c \in Conns : \/ \E p \in Procs : Post(p, c)
                          \/ Release(c) /\ conn[c].at \in {"sent", "reply"}
                          \/ BearerAuth(c) \/ UpdateSpoolStats(c)
                          \/ PersistResults(c) \/ CountMetrics(c)
  BY ZenonT(60) DEF Next, AgentStep, ServerStep, StopCycle, Answer, GiveUp, Vanish, vars, ingestVars
<1> QED
  BY <1>1, <1>2, <1>3, <1>4, <1>5, <1>6, <1>7, ZenonT(60)

\* No observation is counted twice, however often a run is posted, whichever
\* requests overlap, and whatever the controller's restarts reset.
THEOREM CountedOnce == Spec => []ResultsCountedOnce
<1> DEFINE Inv == AnswerInv /\ CountInv
<1>1. Init => Inv
  BY AnswerInit, CountInit
<1>2. Inv /\ [Next]_vars => Inv'
  BY AnswerNext, CountNext
<1>3. Inv => ResultsCountedOnce
  BY CountedWithin DEF AnswerInv, TypeInv, DeliveryTypeOK
<1> QED
  BY <1>1, <1>2, <1>3, PTL DEF Spec

------------------------------------------------------------------------------
(* What the controller shows of the agent's spool.                         *)

\* A report that came from the payload of a run.
Genuine(report) ==
  /\ report.run \in produced
  /\ report.depth = payload[report.run].depth
  /\ report.drops = payload[report.run].drops

\* What is on its way to the columns is genuine as well, and so is the
\* baseline of the counter of drops.
GenuineInv ==
  /\ LedgerInv
  /\ ReportsBounded
  /\ \A c \in Conns : conn[c].at # "free" => Genuine(conn[c].req)
  /\ stats # NULL => Genuine(stats) /\ Stored(stats.run)
  /\ lastDrops <= dropsTotal
  /\ lastDrops <= dropsMetric

\* The columns take over the report of a run that is stored, or stay.
LEMMA StatsNext ==
  ASSUME GenuineInv, [Next]_vars
  PROVE  \/ stats' = stats
         \/ /\ lastDrops' = lastDrops /\ dropsMetric' = dropsMetric
            /\ Genuine(stats') /\ Stored(stats'.run)
<1> SpoolTypeOK /\ IngestTypeOK /\ AcceptedMeansStored
  BY DEF GenuineInv, LedgerInv, AnswerInv, TypeInv, DeliveryTypeOK
<1>1. ASSUME NEW c \in Conns, UpdateSpoolStats(c), stats' # stats
      PROVE  /\ lastDrops' = lastDrops /\ dropsMetric' = dropsMetric
             /\ Genuine(stats') /\ Stored(stats'.run)
  <2>1. /\ conn[c].at = "stored" /\ stats' = conn[c].req
        /\ lastDrops' = lastDrops /\ dropsMetric' = dropsMetric
    BY <1>1 DEF UpdateSpoolStats, metrics
  <2>2. conn[c].status \in {"201", "409"}
    BY <2>1 DEF IngestTypeOK, Conn, Free
  <2>3. Stored(conn[c].req.run)
    BY <2>1, <2>2 DEF AcceptedMeansStored, Accepted
  <2> QED
    BY <2>1, <2>3 DEF GenuineInv
<1>2. stats' = stats \/ \E c \in Conns : UpdateSpoolStats(c)
  BY ZenonT(60) DEF Next, AgentStep, ServerStep, StopCycle, Post, Answer, GiveUp, Vanish, Arrive,
     Release, BearerAuth, PersistResults, CountMetrics, ChangeCredential, ControllerCrash, vars, ingestVars
<1> QED
  BY <1>1, <1>2

\* The baseline takes over a report, and the counter is raised to it.
LEMMA BaselineNext ==
  ASSUME GenuineInv, [Next]_vars
  PROVE  lastDrops' <= dropsTotal /\ lastDrops' <= dropsMetric'
<1> SpoolTypeOK /\ IngestTypeOK
  BY DEF GenuineInv, LedgerInv, AnswerInv, TypeInv, DeliveryTypeOK
<1>1. ASSUME NEW c \in Conns, CountMetrics(c)
      PROVE  lastDrops' <= dropsTotal /\ lastDrops' <= dropsMetric'
  <2>1. conn[c].at = "booked"
    BY <1>1 DEF CountMetrics
  <2>2. Genuine(conn[c].req) /\ conn[c].req \in Request
    BY <2>1 DEF GenuineInv, IngestTypeOK, Conn, Free
  <2>3. conn[c].req.drops \in Nat /\ conn[c].req.drops <= dropsTotal
    BY <2>2 DEF Genuine, Request, GenuineInv, ReportsBounded
  <2>4. lastDrops \in Nat /\ dropsMetric \in Nat /\ lastDrops <= dropsMetric
    BY DEF IngestTypeOK, GenuineInv
  <2> QED
    BY <1>1, <2>3, <2>4 DEF CountMetrics
<1>2. CASE ControllerCrash
  BY <1>2 DEF ControllerCrash, SpoolTypeOK
<1>3. \/ UNCHANGED <<lastDrops, dropsMetric>> \/ ControllerCrash \/ \E c \in Conns : CountMetrics(c)
  BY ZenonT(60) DEF Next, AgentStep, ServerStep, StopCycle, Post, Answer, GiveUp, Vanish, Arrive,
     Release, BearerAuth, PersistResults, UpdateSpoolStats, ChangeCredential, metrics, vars, ingestVars
<1> QED
  BY <1>1, <1>2, <1>3 DEF GenuineInv

\* GenuineInv is inductive.
LEMMA GenuineNext == GenuineInv /\ [Next]_vars => GenuineInv'
<1> SUFFICES ASSUME GenuineInv, [Next]_vars PROVE GenuineInv'
  OBVIOUS
<1> TypeInv /\ SpoolTypeOK /\ IngestTypeOK /\ SpoolInv
  BY DEF GenuineInv, LedgerInv, AnswerInv, TypeInv, DeliveryTypeOK, SpoolInv
<1>1. LedgerInv'
  BY RequestsNext DEF GenuineInv
<1>2. /\ ReportsBounded' /\ dropsTotal <= dropsTotal'
      /\ \A r \in produced : r \in produced' /\ payload'[r] = payload[r]
  BY SpoolSide, ReportsBoundedNext DEF GenuineInv
<1>3. \A report : Genuine(report) => /\ report.run \in produced'
                                     /\ report.depth = payload'[report.run].depth
                                     /\ report.drops = payload'[report.run].drops
  BY <1>2 DEF Genuine
<1>4. ASSUME NEW c \in Conns, conn'[c].at # "free" PROVE Genuine(conn'[c].req)
  <2>1. CASE conn[c].at # "free" /\ conn'[c].req = conn[c].req
    BY <2>1 DEF GenuineInv
  <2>2. CASE \E r \in produced :
               conn'[c].req = [run |-> r, depth |-> payload[r].depth, drops |-> payload[r].drops]
    BY <2>2 DEF Genuine
  <2> QED
    BY <1>4, <2>1, <2>2, RequestsCarryOn
<1>5. \A c \in Conns : conn'[c].at # "free" => Genuine(conn[c].req)'
  BY <1>3, <1>4 DEF Genuine
<1>6. \A r \in Runs : Stored(r) => Stored(r)'
  <2>1. results \subseteq results'
    BY ZenonT(60) DEF Next, AgentStep, ServerStep, StopCycle, Post, Answer, GiveUp, Vanish, Arrive, Release,
       BearerAuth, PersistResults, RolledBack, UpdateSpoolStats, CountMetrics, ChangeCredential,
       ControllerCrash, vars, ingestVars
  <2> QED
    BY <2>1 DEF Stored
<1>7. stats' # NULL => Genuine(stats') /\ Stored(stats'.run) /\ stats'.run \in Runs
  BY StatsNext DEF GenuineInv, Genuine, SpoolTypeOK
<1>8. stats' # NULL => Genuine(stats)' /\ Stored(stats.run)'
  <2> SUFFICES ASSUME stats' # NULL PROVE Genuine(stats)' /\ Stored(stats.run)'
    OBVIOUS
  <2>1. Genuine(stats)'
    BY <1>3, <1>7 DEF Genuine
  <2>2. Stored(stats'.run) /\ stats'.run \in Runs
    BY <1>7
  <2>3. Stored(stats.run)'
    BY <1>6, <2>2 DEF Stored
  <2> QED
    BY <2>1, <2>3
<1>9. lastDrops' <= dropsTotal' /\ lastDrops' <= dropsMetric'
  <2>1. lastDrops' \in Nat /\ dropsTotal \in Nat /\ dropsTotal' \in Nat
    BY <1>1 DEF LedgerInv, AnswerInv, TypeInv, DeliveryTypeOK, SpoolTypeOK, IngestTypeOK
  <2> QED
    BY <1>2, <2>1, BaselineNext
<1> QED
  BY <1>1, <1>2, <1>5, <1>8, <1>9 DEF GenuineInv

\* The columns of a node and the baseline of its drops counter never say more
\* than the agent's own counter, for any number of processes and requests, in
\* whatever order reports arrive, and although the agent ignores failed reads
\* (results.go:81-107).
THEOREM ReportsGenuine == Spec => []ReportsAreGenuine
<1>1. Init => GenuineInv
  <2> SUFFICES ASSUME Init PROVE GenuineInv
    OBVIOUS
  <2>1. ReportsBounded
    BY DEF Init, SpoolInit, ReportsBounded, produced, ZeroSnapshot
  <2>2. stats = NULL /\ lastDrops = 0 /\ dropsTotal = 0 /\ dropsMetric = 0
        /\ \A c \in Conns : conn[c].at = "free"
    BY DEF Init, SpoolInit, IngestInit, Free
  <2> QED
    BY <2>1, <2>2, RequestsInit DEF GenuineInv
<1>2. GenuineInv => ReportsAreGenuine
  BY DEF GenuineInv, ReportsAreGenuine, Genuine, ReportsBounded
<1> QED
  BY <1>1, <1>2, GenuineNext, PTL DEF Spec
==============================================================================
