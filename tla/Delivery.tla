------------------------------ MODULE Delivery -------------------------------
(***************************************************************************)
(* The agent's spool and the controller's ingest joined by HTTP: Client.Send *)
(* (internal/agent/client.go) over a network that can lose a request or an *)
(* answer, with a client timeout after which the handler carries on.       *)
(***************************************************************************)
EXTENDS Spool, Ingest

VARIABLE caller  \* the process waiting for the answer of a request, or NULL

vars == <<spoolVars, ingestVars, caller>>

DeliveryTypeOK ==
  /\ SpoolTypeOK
  /\ IngestTypeOK
  /\ caller \in [Conns -> Procs \cup {NULL}]

Init == SpoolInit /\ IngestInit /\ caller = [c \in Conns |-> NULL]

Hangup(p) == [c \in Conns |-> IF caller[c] = p THEN NULL ELSE caller[c]]

\* Mutant: every answer of the controller lets the row go.
AcceptedUnlessError(status) == status # "5xx"

\* Mutant: the status is not looked at.
AcceptedAlways(status) == TRUE

\* The outcome Client.Send makes of a status.
Accepted(status) == status \in {"201", "409"}

\* Client.Send posts the payload of the row.
Post(p, c) ==
  /\ StartSend(p)
  /\ \E r \in batch[p] :
       /\ First(batch[p], r)
       /\ Arrive(c, [run |-> r, depth |-> payload[r].depth, drops |-> payload[r].drops])
  /\ caller' = [caller EXCEPT ![c] = p]

\* The answer arrives.
Answer(p, c) ==
  /\ caller[c] = p
  /\ conn[c].at = "reply"
  /\ SendReturn(p, Accepted(conn[c].status))
  /\ Release(c)
  /\ caller' = [caller EXCEPT ![c] = NULL]

\* Client.Send returns an error: the timeout, or the connection broke.  The
\* request is not recalled.
GiveUp(p) ==
  /\ "timeout" \in Faults \/ \A c \in Conns : caller[c] # p
  /\ SendReturn(p, FALSE)
  /\ caller' = Hangup(p)
  /\ UNCHANGED ingestVars

\* A request nobody waits for is lost on its way, or its answer is.
Vanish(c) ==
  /\ caller[c] = NULL
  /\ conn[c].at \in {"sent", "reply"}
  /\ Release(c)
  /\ UNCHANGED <<spoolVars, caller>>

StopCycle(p) ==
  /\ Stop(p)
  /\ caller' = Hangup(p)
  /\ UNCHANGED ingestVars

AgentStep(p) == \/ LocalStep(p) /\ UNCHANGED <<ingestVars, caller>>
                \/ \E c \in Conns : Post(p, c) \/ Answer(p, c)
                \/ GiveUp(p)

ServerStep(c) ==
  \/ /\ BearerAuth(c) \/ PersistResults(c) \/ UpdateSpoolStats(c) \/ CountMetrics(c)
     /\ UNCHANGED <<spoolVars, caller>>
  \/ Vanish(c)

Next ==
  \/ \E p \in Procs : AgentStep(p) \/ StopCycle(p)
  \/ \E c \in Conns : ServerStep(c)
  \/ Tick /\ UNCHANGED <<ingestVars, caller>>
  \/ ChangeCredential /\ UNCHANGED <<spoolVars, caller>>
  \/ ControllerCrash /\ caller' = [c \in Conns |-> NULL] /\ UNCHANGED spoolVars

Spec == Init /\ [][Next]_vars

------------------------------------------------------------------------------
(* Properties.                                                             *)

\* No probe cycle is lost in silence: a run that was ever enqueued is still
\* spooled, or all its observations are in probe_results, or retention took
\* it.  A row is deleted only after 201 or 409 (spool.go:307-312,
\* client.go:92-98), and a 409 means an earlier commit (results.go:204-209).
NoSilentLoss == \A r \in produced : r \in spooled \/ Stored(r) \/ r \in dropped

\* An answer that makes the agent forget a row is true: from the commit on, a
\* 201 or a 409 that is still being worked on or on its way, and the DELETE
\* of a row that it leads to, concern a run that is stored in full, even when
\* the answer belongs to a request that overtook or repeated another
\* (results.go:73-79 and 173-217, client.go:92-98, spool.go:307-312).
AcceptedMeansStored ==
  /\ \A c \in Conns : conn[c].at \in {"stored", "booked", "reply"} /\ Accepted(conn[c].status)
                       => Stored(conn[c].req.run)
  /\ \A p \in Procs : \A r \in Runs : pc[p] = "delete" /\ First(batch[p], r) => Stored(r)

\* ProbeResultsTotal never counts an observation twice, however often a run
\* is retried (results.go:114-116); it may miss some when a handler or the
\* controller dies.
ResultsCountedOnce == resultsMetric <= Cardinality(results)

\* What the controller shows of an agent's spool is stale at worst, never made
\* up: the columns of the node hold what one run that is stored reported, and
\* no more drops than the agent has counted, although reports arrive late, out
\* of order and more than once; and the counter of drops is not below the last
\* report, whatever baseline a late one left (results.go:81-107, spoke.go:99-146).
ReportsAreGenuine ==
  /\ stats # NULL => /\ Stored(stats.run)
                     /\ stats.depth = payload[stats.run].depth
                     /\ stats.drops = payload[stats.run].drops
                     /\ stats.drops <= dropsTotal
  /\ lastDrops <= dropsTotal
  /\ lastDrops <= dropsMetric

Ledger == INSTANCE RunLedger
            WITH pending <- spooled, stored <- {r \in Runs : Stored(r)}

\* Spool and ingest implement RunLedger: a run is stored in one step, with
\* all its observations, and stays stored.
ImplementsLedger == Ledger!Spec

\* metrics.go:77 "Cumulative spool drops per node, snapshotted from the
\* agent.": the counter does not exceed the agent's drops_total.
DropsMetricWithinDrops == dropsMetric <= dropsTotal
==============================================================================
