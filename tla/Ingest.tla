-------------------------------- MODULE Ingest -------------------------------
(***************************************************************************)
(* The controller's POST /api/v1/results: bearerAuth (auth.go) followed by *)
(* handleResults and persistResults (results.go), for the requests of one  *)
(* node.  Conns are the requests the controller can be serving at a time.  *)
(* The database has one connection (db.go), which a transaction holds, so  *)
(* the handlers interleave between statements and transactions.            *)
(***************************************************************************)
EXTENDS Integers, FiniteSets, ProbeRuns

CONSTANTS
  Targets,    \* the targets observed in each
  Malformed,  \* runs whose payload validateResultsRequest refuses
  Conns       \* slots for requests in progress

ASSUME IngestAssumption == IsFiniteSet(Targets) /\ Targets # {}

VARIABLES
  results,       \* table probe_results: (probe_run_id, target_id)
  credential,    \* the node is registered with the secret the agent sends
  stats,         \* the report the node's spool_* columns hold
  lastDrops,     \* lastDropsByNode[node], in memory
  dropsMetric,   \* the counter NodeSpoolDropsTotal, in memory
  resultsMetric, \* the counter ProbeResultsTotal, in memory
  conn           \* the requests: how far each is, its body, its status

metrics    == <<lastDrops, dropsMetric, resultsMetric>>
ingestVars == <<results, credential, stats, lastDrops, dropsMetric, resultsMetric, conn>>

\* ResultsRequest: a run and the SpoolMetadata of its payload.
Request == [run : Runs, depth : Nat, drops : Nat]
Status  == {"201", "409", "4xx", "5xx"}
Free    == [at |-> "free", req |-> NULL, status |-> NULL]
Conn    == {Free} \cup [at : {"sent", "authed"}, req : Request, status : {NULL}]
                  \cup [at : {"stored", "booked"}, req : Request, status : {"201", "409"}]
                  \cup [at : {"reply"}, req : Request, status : Status]

IngestTypeOK ==
  /\ results \subseteq Runs \X Targets
  /\ credential \in BOOLEAN
  /\ stats \in Request \cup {NULL}
  /\ lastDrops \in Nat
  /\ dropsMetric \in Nat
  /\ resultsMetric \in Nat
  /\ conn \in [Conns -> Conn]

IngestInit ==
  /\ results = {}
  /\ credential = TRUE
  /\ stats = NULL
  /\ lastDrops = 0
  /\ dropsMetric = 0
  /\ resultsMetric = 0
  /\ conn = [c \in Conns |-> Free]

\* All observations of the run are in the table.
Stored(r) == \A t \in Targets : <<r, t>> \in results

Advance(c, at, status) ==
  conn' = [conn EXCEPT ![c] = [at |-> at, req |-> conn[c].req, status |-> status]]

------------------------------------------------------------------------------

\* A request is on its way to the controller.
Arrive(c, req) ==
  /\ conn[c].at = "free"
  /\ conn' = [conn EXCEPT ![c] = [at |-> "sent", req |-> req, status |-> NULL]]
  /\ UNCHANGED <<results, credential, stats, metrics>>

\* Mutant: the handler goes on after writing the 401.
BearerAuthFallsThrough(c) ==
  /\ conn[c].at = "sent"
  /\ Advance(c, "authed", IF credential THEN NULL ELSE "4xx")
  /\ UNCHANGED <<results, credential, stats, metrics>>

\* bearerAuth: one lookup of the node; 401, or 500 when the lookup fails.
BearerAuth(c) ==
  /\ conn[c].at = "sent"
  /\ \/ credential /\ Advance(c, "authed", NULL)
     \/ ~credential /\ Advance(c, "reply", "4xx")
     \/ "dberr" \in Faults /\ Advance(c, "reply", "5xx")
  /\ UNCHANGED <<results, credential, stats, metrics>>

\* Mutant: the inserts are not in one transaction.
KeepsPartOf(r) == \E t \in Targets : results' = results \cup {<<r, t>>}

\* A transaction that fails leaves nothing behind.
RolledBack(r) == UNCHANGED results

\* validateResultsRequest, then the transaction of persistResults: any row
\* that collides rolls it back and answers 409; another error answers 500.
PersistResults(c) ==
  LET r == conn[c].req.run IN
  /\ conn[c].at = "authed"
  /\ \/ r \in Malformed /\ Advance(c, "reply", "4xx") /\ UNCHANGED results
     \/ /\ r \notin Malformed
        /\ \E t \in Targets : <<r, t>> \in results
        /\ Advance(c, "stored", "409") /\ RolledBack(r)
     \/ /\ r \notin Malformed
        /\ \A t \in Targets : <<r, t>> \notin results
        /\ results' = results \cup ({r} \X Targets)
        /\ Advance(c, "stored", "201")
     \/ "dberr" \in Faults /\ Advance(c, "reply", "5xx") /\ RolledBack(r)
  /\ UNCHANGED <<credential, stats, metrics>>

\* UpdateSpoolStats, for a replay too; its error is only logged.
UpdateSpoolStats(c) ==
  /\ conn[c].at = "stored"
  /\ Advance(c, "booked", conn[c].status)
  /\ stats' = conn[c].req \/ ("dberr" \in Faults /\ UNCHANGED stats)
  /\ UNCHANGED <<results, credential, metrics>>

\* Mutant: a replay is counted as well.
ObservationsOfAnyStatus(status) == Cardinality(Targets)

\* What ProbeResultsTotal gains: only a first write counts.
NewObservations(status) == IF status = "201" THEN Cardinality(Targets) ELSE 0

\* The metrics of handleResults and its answer: the drops counter moves by
\* the difference to the last report, under dropsMu.
CountMetrics(c) ==
  LET reported == conn[c].req.drops IN
  /\ conn[c].at = "booked"
  /\ Advance(c, "reply", conn[c].status)
  /\ dropsMetric' = IF reported > lastDrops THEN dropsMetric + (reported - lastDrops)
                                           ELSE dropsMetric
  /\ lastDrops' = reported
  /\ resultsMetric' = resultsMetric + NewObservations(conn[c].status)
  /\ UNCHANGED <<results, credential, stats>>

\* The connection is done with.
Release(c) ==
  /\ conn' = [conn EXCEPT ![c] = Free]
  /\ UNCHANGED <<results, credential, stats, metrics>>

\* An operator replaces the node's secret (handleAdminPatchNode), or puts the old one back.
ChangeCredential ==
  /\ "credential" \in Faults
  /\ credential' = ~credential
  /\ UNCHANGED <<results, stats, metrics, conn>>

\* The controller dies and restarts: handlers and metrics are gone, what was
\* committed is not (synchronous=FULL).
ControllerCrash ==
  /\ "crash" \in Faults
  /\ conn' = [c \in Conns |-> Free]
  /\ lastDrops' = 0
  /\ dropsMetric' = 0
  /\ resultsMetric' = 0
  /\ UNCHANGED <<results, credential, stats>>
==============================================================================
