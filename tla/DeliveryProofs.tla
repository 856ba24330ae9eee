--------------------------- MODULE DeliveryProofs ----------------------------
(***************************************************************************)
(* Delivery for every set of runs, processes, requests and faults, and for *)
(* every configuration LoadSpool accepts.                                  *)
(***************************************************************************)
EXTENDS Delivery, SpoolProofs

\* A step of the system is a step of the spool, or leaves the spool alone.
LEMMA SpoolSide == [Next]_vars => [SpoolNext]_spoolVars
<1>1. ASSUME NEW p \in Procs, AgentStep(p) \/ StopCycle(p) PROVE SpoolNext \/ UNCHANGED spoolVars
  <2>1. ASSUME NEW c \in Conns, Answer(p, c) PROVE \E accepted \in BOOLEAN : SendReturn(p, accepted)
    <3>1. Accepted(conn[c].status) \in BOOLEAN
      BY DEF Accepted
    <3> QED
      BY <2>1, <3>1 DEF Answer
  <2> QED
    BY <1>1, <2>1 DEF AgentStep, Post, GiveUp, StopCycle, SpoolNext, CycleStep
<1>2. ASSUME NEW c \in Conns, ServerStep(c) PROVE UNCHANGED spoolVars
  BY <1>2 DEF ServerStep, Vanish
<1> QED
  BY <1>1, <1>2 DEF Next, SpoolNext, vars

\* Whatever the controller, the network and the faults do, the agent's file
\* sees a behaviour of Spool: what holds of the spool with a Sender that may
\* return anything holds in the whole system (spoke.go:131 passes Drain the
\* Client of client.go:70-108).
THEOREM SpoolInside == Spec => SpoolSpec
BY SpoolSide, PTL DEF Spec, Init, SpoolSpec

------------------------------------------------------------------------------
(* Types.                                                                  *)

TypeInv == DeliveryTypeOK /\ FinitelyMany

\* The databases start empty and the processes idle (TypeInv holds at first).
LEMMA TypeInit == Init => TypeInv
<1> SUFFICES ASSUME Init PROVE TypeInv
  OBVIOUS
<1>1. SpoolInv
  BY SpoolInvInit DEF Init
<1>2. IngestTypeOK
  BY DEF Init, IngestInit, IngestTypeOK, Conn
<1> QED
  BY <1>1, <1>2 DEF Init, TypeInv, DeliveryTypeOK, SpoolInv

\* The handler's steps, and the controller's other ones, keep its types.
LEMMA TypeIngestStep ==
  ASSUME IngestTypeOK
  PROVE  /\ \A c \in Conns : \A req \in Request : Arrive(c, req) => IngestTypeOK'
         /\ \A c \in Conns : BearerAuth(c) => IngestTypeOK'
         /\ \A c \in Conns : PersistResults(c) => IngestTypeOK'
         /\ \A c \in Conns : UpdateSpoolStats(c) => IngestTypeOK'
         /\ \A c \in Conns : CountMetrics(c) => IngestTypeOK'
         /\ \A c \in Conns : Release(c) => IngestTypeOK'
         /\ ChangeCredential \/ ControllerCrash => IngestTypeOK'
         /\ UNCHANGED ingestVars => IngestTypeOK'
<1> DEFINE Busy(c) == conn[c].at # "free"
<1>0. \A c \in Conns : Busy(c) => conn[c].req \in Request
  BY DEF IngestTypeOK, Conn, Free
<1>a. \A c \in Conns : conn[c].at \in {"stored", "booked"} => conn[c].status \in {"201", "409"}
  BY DEF IngestTypeOK, Conn, Free
<1>1. ASSUME NEW c \in Conns, NEW req \in Request, Arrive(c, req) PROVE IngestTypeOK'
  BY <1>1 DEF Arrive, IngestTypeOK, Conn, metrics
<1>2. ASSUME NEW c \in Conns, BearerAuth(c) PROVE IngestTypeOK'
  <2>1. conn[c].req \in Request
    BY <1>0, <1>2 DEF BearerAuth
  <2> QED
    BY <1>2, <2>1 DEF BearerAuth, Advance, IngestTypeOK, Conn, Status, metrics
<1>3. ASSUME NEW c \in Conns, PersistResults(c) PROVE IngestTypeOK'
  <2>1. conn[c].req \in Request /\ conn[c].req.run \in Runs
    BY <1>0, <1>3 DEF PersistResults, Request
  <2>2. results' \subseteq Runs \X Targets
    BY <1>3, <2>1 DEF PersistResults, RolledBack, IngestTypeOK
  <2>3. conn' \in [Conns -> Conn]
    BY <1>3, <2>1 DEF PersistResults, Advance, IngestTypeOK, Conn, Status
  <2> QED
    BY <1>3, <2>2, <2>3 DEF PersistResults, IngestTypeOK, metrics
<1>4. ASSUME NEW c \in Conns, UpdateSpoolStats(c) PROVE IngestTypeOK'
  <2>1. conn[c].req \in Request /\ conn[c].status \in {"201", "409"}
    BY <1>0, <1>a, <1>4 DEF UpdateSpoolStats
  <2> QED
    BY <1>4, <2>1 DEF UpdateSpoolStats, Advance, IngestTypeOK, Conn, metrics
<1>5. ASSUME NEW c \in Conns, CountMetrics(c) PROVE IngestTypeOK'
  <2>1. conn[c].req \in Request /\ conn[c].status \in {"201", "409"} /\ conn[c].req.drops \in Nat
    BY <1>0, <1>a, <1>5 DEF CountMetrics, Request
  <2>2. Cardinality(Targets) \in Nat
    BY IngestAssumption, FS_CardinalityType
  <2>3. dropsMetric' \in Nat /\ resultsMetric' \in Nat /\ lastDrops' \in Nat
    BY <1>5, <2>1, <2>2 DEF CountMetrics, NewObservations, IngestTypeOK
  <2>4. conn' \in [Conns -> Conn]
    BY <1>5, <2>1 DEF CountMetrics, Advance, IngestTypeOK, Conn, Status
  <2> QED
    BY <1>5, <2>3, <2>4 DEF CountMetrics, IngestTypeOK, metrics
<1>6. ASSUME NEW c \in Conns, Release(c) PROVE IngestTypeOK'
  BY <1>6 DEF Release, IngestTypeOK, Conn, metrics
<1>7. ASSUME ChangeCredential \/ ControllerCrash PROVE IngestTypeOK'
  <2>1. ASSUME ChangeCredential PROVE IngestTypeOK'
    <3>1. credential' \in BOOLEAN
      BY <2>1, Zenon DEF ChangeCredential
    <3> QED
      BY <2>1, <3>1 DEF ChangeCredential, IngestTypeOK, metrics
  <2>2. ASSUME ControllerCrash PROVE IngestTypeOK'
    BY <2>2 DEF ControllerCrash, IngestTypeOK, Conn
  <2> QED
    BY <1>7, <2>1, <2>2
<1>8. ASSUME UNCHANGED ingestVars PROVE IngestTypeOK'
  BY <1>8 DEF ingestVars, IngestTypeOK
<1> QED
  BY <1>1, <1>2, <1>3, <1>4, <1>5, <1>6, <1>7, <1>8

\* Every step of agent and controller keeps the types: TypeInv is inductive.
LEMMA TypeNext == TypeInv /\ [Next]_vars => TypeInv'
<1> SUFFICES ASSUME TypeInv, [Next]_vars PROVE TypeInv'
  OBVIOUS
<1> SpoolTypeOK /\ IngestTypeOK /\ caller \in [Conns -> Procs \cup {NULL}]
  BY DEF TypeInv, DeliveryTypeOK
<1> DEFINE Kept == IngestTypeOK' /\ caller' \in [Conns -> Procs \cup {NULL}]
<1>1. SpoolTypeOK' /\ FinitelyMany'
  BY SpoolSide, SpoolInvNext DEF TypeInv, DeliveryTypeOK, SpoolInv
<1>2. ASSUME NEW p \in Procs, NEW c \in Conns, Post(p, c) PROVE Kept
  <2>1. PICK r \in batch[p] :
          Arrive(c, [run |-> r, depth |-> payload[r].depth, drops |-> payload[r].drops])
    BY <1>2 DEF Post
  <2>2. [run |-> r, depth |-> payload[r].depth, drops |-> payload[r].drops] \in Request
    BY DEF SpoolTypeOK, Snapshot, Request
  <2>3. IngestTypeOK'
    BY <2>1, <2>2, TypeIngestStep
  <2> QED
    BY <1>2, <2>3 DEF Post
<1>3. ASSUME NEW p \in Procs, NEW c \in Conns, Answer(p, c) PROVE Kept
  BY <1>3, TypeIngestStep DEF Answer
<1>4. ASSUME NEW p \in Procs, GiveUp(p) \/ StopCycle(p) PROVE Kept
  <2>1. caller' \in [Conns -> Procs \cup {NULL}]
    BY <1>4, ZenonT(40) DEF GiveUp, StopCycle, Hangup
  <2> QED
    BY <1>4, <2>1, TypeIngestStep, ZenonT(40) DEF GiveUp, StopCycle
<1>5. ASSUME NEW c \in Conns, ServerStep(c) PROVE Kept
  BY <1>5, TypeIngestStep DEF ServerStep, Vanish
<1>6. ASSUME UNCHANGED <<ingestVars, caller>> PROVE Kept
  BY <1>6, TypeIngestStep
<1>7. ASSUME ChangeCredential, UNCHANGED caller PROVE Kept
  BY <1>7, TypeIngestStep
<1>8. ASSUME ControllerCrash, caller' = [c \in Conns |-> NULL] PROVE Kept
  BY <1>8, TypeIngestStep
<1>9. Kept
  BY <1>2, <1>3, <1>4, <1>5, <1>6, <1>7, <1>8 DEF Next, AgentStep, vars
<1> QED
  BY <1>1, <1>9 DEF TypeInv, DeliveryTypeOK

\* Type correctness of the composed system, whatever the faults and however
\* many runs, processes and requests there are.
THEOREM TypeCorrect == Spec => []DeliveryTypeOK
<1>1. TypeInv => DeliveryTypeOK
  BY DEF TypeInv
<1> QED
  BY TypeInit, TypeNext, <1>1, PTL DEF Spec

------------------------------------------------------------------------------
(* The agent acts on true answers.  AcceptedMeansStored is not inductive:   *)
(* an answer must be known to belong to the row its caller is waiting       *)
(* about, and a 409 to come from a complete commit.                         *)

\* persistResults commits a run's observations together.
AllOrNothing == \A r \in Runs : \A t \in Targets : <<r, t>> \in results => Stored(r)

\* A process waits for at most one request, the one for its oldest row.
CallersWait ==
  \A c \in Conns : caller[c] # NULL =>
    /\ conn[c].at # "free"
    /\ pc[caller[c]] = "wait"
    /\ First(batch[caller[c]], conn[c].req.run)
    /\ \A d \in Conns : caller[d] = caller[c] => d = c

AnswerInv == TypeInv /\ AcceptedMeansStored /\ AllOrNothing /\ CallersWait

\* What CallersWait says of one request that still has its caller.
LEMMA CallerOf ==
  ASSUME AnswerInv, NEW k \in Conns, caller[k] # NULL
  PROVE  /\ caller[k] \in Procs
         /\ conn[k].at # "free"
         /\ pc[caller[k]] = "wait"
         /\ First(batch[caller[k]], conn[k].req.run)
         /\ \A d \in Conns : caller[d] = caller[k] => d = k
<1>1. CallersWait
  BY DEF AnswerInv
<1>2. caller \in [Conns -> Procs \cup {NULL}]
  BY DEF AnswerInv, TypeInv, DeliveryTypeOK
<1> QED
  BY <1>1, <1>2 DEF CallersWait

\* Rows are tried oldest first, and there is one oldest row.
LEMMA FirstIsUnique ==
  ASSUME NEW S \in SUBSET Runs, NEW r, NEW s, First(S, r), First(S, s)
  PROVE  r = s
BY RunsAssumption DEF First

\* The spool and the controller's table are empty at first.
LEMMA AnswerInit == Init => AnswerInv
<1> SUFFICES ASSUME Init PROVE AnswerInv
  OBVIOUS
<1>1. AcceptedMeansStored /\ AllOrNothing /\ CallersWait
  BY DEF Init, SpoolInit, IngestInit, Free, AcceptedMeansStored, AllOrNothing, CallersWait
<1> QED
  BY <1>1, TypeInit DEF AnswerInv

\* The cycle's own steps concern no request, and none of them starts a DELETE
\* of an answered row.
LEMMA AnswerLocalStep ==
  ASSUME AnswerInv, NEW p \in Procs, LocalStep(p), UNCHANGED <<ingestVars, caller>>
  PROVE  AcceptedMeansStored' /\ AllOrNothing' /\ CallersWait'
<1> SpoolTypeOK /\ DeliveryTypeOK
  BY DEF AnswerInv, TypeInv, DeliveryTypeOK
<1>0. results' = results /\ conn' = conn /\ caller' = caller
  BY DEF ingestVars
<1>1. AllOrNothing'
  BY <1>0 DEF AnswerInv, AllOrNothing, Stored
<1>2. /\ pc[p] # "wait" /\ pc'[p] \notin {"wait", "delete"}
      /\ \A q \in Procs : q # p => pc'[q] = pc[q] /\ batch'[q] = batch[q]
  BY ZenonT(40) DEF LocalStep, BeginCycle, Enqueue, Select, DeleteRow, MarkFailure, EndBatch, RetentionCheck,
         DropOldest, NoRowLeft, BumpDrops, Measure, SaveDepth, SaveDrops, Goto, tables, locals,
         SpoolTypeOK
<1>3. AcceptedMeansStored'
  <2>1. \A r : Stored(r)' <=> Stored(r)
    BY <1>0 DEF Stored
  <2> QED
    BY <1>0, <1>2, <2>1, ZenonT(40) DEF AnswerInv, AcceptedMeansStored, First
<1>4. CallersWait'
  <2> SUFFICES ASSUME NEW k \in Conns, caller'[k] # NULL
               PROVE  /\ conn'[k].at # "free"
                      /\ pc'[caller'[k]] = "wait"
                      /\ First(batch'[caller'[k]], conn'[k].req.run)
                      /\ \A d \in Conns : caller'[d] = caller'[k] => d = k
    BY DEF CallersWait, First
  <2>1. caller[k] # NULL
    BY <1>0
  <2>2. caller[k] # p
    BY <1>2, <2>1, CallerOf, ZenonT(40)
  <2> QED
    BY <1>0, <1>2, <2>1, <2>2, CallerOf, ZenonT(40)
<1> QED
  BY <1>1, <1>3, <1>4

\* The steps of the exchange: an answer that is read concerns the row its
\* caller deletes, and one that is not read deletes nothing.
LEMMA AnswerExchange ==
  ASSUME AnswerInv, NEW p \in Procs,
         (\E c \in Conns : Post(p, c) \/ Answer(p, c)) \/ GiveUp(p) \/ StopCycle(p)
  PROVE  AcceptedMeansStored' /\ AllOrNothing' /\ CallersWait'
<1> USE SpoolAssumption
<1> SpoolTypeOK /\ IngestTypeOK /\ DeliveryTypeOK
  BY DEF AnswerInv, TypeInv, DeliveryTypeOK
<1>0. UNCHANGED results
  BY ZenonT(40) DEF Post, Answer, GiveUp, StopCycle, Arrive, Release, ingestVars
<1>1. AllOrNothing'
  BY <1>0 DEF AnswerInv, AllOrNothing, Stored
<1>2. /\ \A r : Stored(r)' <=> Stored(r)
      /\ \A q \in Procs : q # p => pc'[q] = pc[q] /\ batch'[q] = batch[q]
  BY <1>0, ZenonT(40) DEF Stored, Post, Answer, GiveUp, StopCycle, StartSend, SendReturn, Stop, Goto, locals,
              SpoolTypeOK
<1>3. ASSUME NEW c \in Conns, Post(p, c) PROVE AcceptedMeansStored' /\ CallersWait'
  <2>1. PICK r \in batch[p] :
          /\ First(batch[p], r)
          /\ Arrive(c, [run |-> r, depth |-> payload[r].depth, drops |-> payload[r].drops])
    BY <1>3, ZenonT(40) DEF Post
  <2>2. /\ pc[p] = "drain" /\ pc'[p] = "wait" /\ batch' = batch
        /\ caller' = [caller EXCEPT ![c] = p]
    BY <1>3 DEF Post, StartSend, Goto, locals, SpoolTypeOK
  <2>3. /\ conn[c].at = "free" /\ conn'[c].at = "sent" /\ conn'[c].req.run = r
        /\ \A d \in Conns : d # c => conn'[d] = conn[d]
    BY <2>1 DEF Arrive, IngestTypeOK
  <2>4. AcceptedMeansStored'
    BY <1>2, <2>2, <2>3, ZenonT(40) DEF AnswerInv, AcceptedMeansStored, First
  <2>5. CallersWait'
    <3> SUFFICES ASSUME NEW k \in Conns, caller'[k] # NULL
                 PROVE  /\ conn'[k].at # "free"
                        /\ pc'[caller'[k]] = "wait"
                        /\ First(batch'[caller'[k]], conn'[k].req.run)
                        /\ \A d \in Conns : caller'[d] = caller'[k] => d = k
      BY ZenonT(40) DEF CallersWait, First
    <3>1. caller \in [Conns -> Procs \cup {NULL}]
      BY DEF DeliveryTypeOK
    <3>2. \A d \in Conns : caller[d] # p
      BY <2>2, CallerOf
    <3>3. CASE k = c
      BY <2>1, <2>2, <2>3, <3>1, <3>2, <3>3
    <3>4. CASE k # c
      <4>1. caller'[k] = caller[k] /\ caller[k] # NULL /\ conn'[k] = conn[k]
        BY <2>2, <2>3, <3>1, <3>4
      <4>2. pc'[caller[k]] = "wait"
        BY <1>2, <3>2, <4>1, CallerOf, ZenonT(40)
      <4>3. \A d \in Conns : caller'[d] = caller[k] => d = k
        BY <2>2, <3>1, <3>2, <4>1, CallerOf, ZenonT(40)
      <4> QED
        BY <2>2, <4>1, <4>2, <4>3, CallerOf, ZenonT(40)
    <3> QED
      BY <3>3, <3>4
  <2> QED
    BY <2>4, <2>5
<1>4. ASSUME NEW c \in Conns, Answer(p, c) PROVE AcceptedMeansStored' /\ CallersWait'
  <2>1. /\ caller[c] = p /\ conn[c].at = "reply" /\ batch' = batch
        /\ pc[p] = "wait" /\ pc'[p] = IF Accepted(conn[c].status) THEN "delete" ELSE "mark"
        /\ caller' = [caller EXCEPT ![c] = NULL]
        /\ conn' = [conn EXCEPT ![c] = Free]
    BY <1>4 DEF Answer, SendReturn, Release, Goto, locals, SpoolTypeOK
  <2>2. conn'[c].at = "free" /\ \A d \in Conns : d # c => conn'[d] = conn[d]
    BY <2>1 DEF Free, IngestTypeOK
  <2>3. First(batch[p], conn[c].req.run)
    BY <2>1 DEF AnswerInv, CallersWait
  <2>4. Accepted(conn[c].status) => \A r \in Runs : First(batch[p], r) => Stored(r)
    BY <2>1, <2>3, FirstIsUnique, ZenonT(40) DEF AnswerInv, AcceptedMeansStored, SpoolTypeOK
  <2>5. AcceptedMeansStored'
    BY <1>2, <2>1, <2>2, <2>4 DEF AnswerInv, AcceptedMeansStored, First
  <2>6. CallersWait'
    <3> SUFFICES ASSUME NEW k \in Conns, caller'[k] # NULL
                 PROVE  /\ conn'[k].at # "free"
                        /\ pc'[caller'[k]] = "wait"
                        /\ First(batch'[caller'[k]], conn'[k].req.run)
                        /\ \A d \in Conns : caller'[d] = caller'[k] => d = k
      BY ZenonT(40) DEF CallersWait, First
    <3>1. caller \in [Conns -> Procs \cup {NULL}]
      BY DEF DeliveryTypeOK
    <3>2. k # c /\ caller'[k] = caller[k] /\ caller[k] # NULL /\ conn'[k] = conn[k]
      BY <2>1, <2>2, <3>1
    <3>3. caller[k] # p
      BY <2>1, <3>2, CallerOf
    <3>4. \A d \in Conns : caller'[d] = caller[k] => d = k
      BY <2>1, <3>1, <3>2, CallerOf
    <3>5. pc'[caller[k]] = "wait" /\ First(batch'[caller[k]], conn[k].req.run)
      BY <1>2, <3>2, <3>3, CallerOf, ZenonT(40)
    <3> QED
      BY <3>2, <3>4, <3>5, CallerOf, ZenonT(40)
  <2> QED
    BY <2>5, <2>6
<1>5. ASSUME GiveUp(p) \/ StopCycle(p) PROVE AcceptedMeansStored' /\ CallersWait'
  <2>1. /\ conn' = conn /\ pc'[p] \in {"mark", "idle"}
        /\ caller' = Hangup(p)
    BY <1>5 DEF GiveUp, StopCycle, SendReturn, Stop, Goto, ingestVars, SpoolTypeOK
  <2>2. AcceptedMeansStored'
    BY <1>2, <2>1, ZenonT(40) DEF AnswerInv, AcceptedMeansStored, First
  <2>3. CallersWait'
    <3> SUFFICES ASSUME NEW k \in Conns, caller'[k] # NULL
                 PROVE  /\ conn'[k].at # "free"
                        /\ pc'[caller'[k]] = "wait"
                        /\ First(batch'[caller'[k]], conn'[k].req.run)
                        /\ \A d \in Conns : caller'[d] = caller'[k] => d = k
      BY ZenonT(40) DEF CallersWait, First
    <3>1. caller \in [Conns -> Procs \cup {NULL}]
      BY DEF DeliveryTypeOK
    <3>2. /\ caller'[k] = caller[k] /\ caller[k] # NULL /\ caller[k] # p
          /\ \A d \in Conns : caller'[d] = caller[k] => caller[d] = caller[k]
      BY <2>1, <3>1 DEF Hangup
    <3>3. pc'[caller[k]] = "wait" /\ First(batch'[caller[k]], conn[k].req.run)
      BY <1>2, <3>2, CallerOf
    <3> QED
      BY <2>1, <3>2, <3>3, CallerOf, ZenonT(40)
  <2> QED
    BY <2>2, <2>3
<1> QED
  BY <1>1, <1>3, <1>4, <1>5

\* The handler's steps: only a complete commit, or finding one, is answered
\* with an accepting status.
LEMMA AnswerServerStep ==
  ASSUME AnswerInv, NEW c \in Conns, ServerStep(c)
  PROVE  AcceptedMeansStored' /\ AllOrNothing' /\ CallersWait'
<1> SpoolTypeOK /\ IngestTypeOK /\ DeliveryTypeOK
  BY DEF AnswerInv, TypeInv, DeliveryTypeOK
<1>0. UNCHANGED <<pc, batch, caller>>
  BY ZenonT(40) DEF ServerStep, Vanish, spoolVars
<1>1. ASSUME PersistResults(c)
      PROVE  AcceptedMeansStored' /\ AllOrNothing' /\ CallersWait'
  <2>0. PICK run : run = conn[c].req.run
    OBVIOUS
  <2>1. run \in Runs /\ conn[c].at = "authed"
    BY <1>1, <2>0 DEF PersistResults, IngestTypeOK, Conn, Free, Request
  <2>2. \/ results' = results
        \/ results' = results \cup ({run} \X Targets)
    BY <1>1, <2>0 DEF PersistResults, RolledBack
  <2>3. \A r : Stored(r) => Stored(r)'
    BY <2>2 DEF Stored
  <2>5. AllOrNothing'
    BY <2>2 DEF AnswerInv, AllOrNothing, Stored
  <2>6. /\ conn'[c].at \in {"reply", "stored"} /\ conn'[c].req = conn[c].req
        /\ Accepted(conn'[c].status) => Stored(run)'
        /\ \A d \in Conns : d # c => conn'[d] = conn[d]
    <3>1. ASSUME \E t \in Targets : <<run, t>> \in results PROVE Stored(run)
      BY <2>1, <3>1 DEF AnswerInv, AllOrNothing
    <3>2. results' = results \cup ({run} \X Targets) => Stored(run)'
      BY DEF Stored
    <3>3. \E at \in {"reply", "stored"} : \E status \in Status :
            /\ Advance(c, at, status)
            /\ Accepted(status) => Stored(run)'
      BY <1>1, <2>0, <2>3, <3>1, <3>2 DEF PersistResults, RolledBack, Accepted, Status
    <3> QED
      BY <3>3 DEF Advance, IngestTypeOK
  <2>7. AcceptedMeansStored'
    BY <1>0, <2>0, <2>3, <2>6, ZenonT(40) DEF AnswerInv, AcceptedMeansStored, First
  <2>8. CallersWait'
    BY <1>0, <2>6, ZenonT(40) DEF AnswerInv, CallersWait, First
  <2> QED
    BY <2>5, <2>7, <2>8
<1>2. ASSUME BearerAuth(c) \/ UpdateSpoolStats(c) \/ CountMetrics(c)
      PROVE  AcceptedMeansStored' /\ AllOrNothing' /\ CallersWait'
  <2>1. results' = results
    BY <1>2 DEF BearerAuth, UpdateSpoolStats, CountMetrics
  <2>2. /\ conn'[c].at # "free" /\ conn'[c].req = conn[c].req
        /\ \/ conn'[c].at = "authed"
           \/ ~Accepted(conn'[c].status)
           \/ conn'[c].status = conn[c].status /\ conn[c].at \in {"stored", "booked"}
        /\ conn[c].at # "free"
        /\ \A d \in Conns : d # c => conn'[d] = conn[d]
    BY <1>2 DEF BearerAuth, UpdateSpoolStats, CountMetrics, Advance, Accepted, IngestTypeOK
  <2>3. \A r : Stored(r)' <=> Stored(r)
    BY <2>1 DEF Stored
  <2>4. AcceptedMeansStored'
    BY <1>0, <2>2, <2>3, ZenonT(40) DEF AnswerInv, AcceptedMeansStored, First
  <2>5. CallersWait'
    BY <1>0, <2>2, ZenonT(40) DEF AnswerInv, CallersWait, First
  <2> QED
    BY <2>3, <2>1, <2>4, <2>5 DEF AnswerInv, AllOrNothing
<1>3. ASSUME Vanish(c)
      PROVE  AcceptedMeansStored' /\ AllOrNothing' /\ CallersWait'
  <2>1. /\ results' = results /\ caller[c] = NULL /\ conn'[c].at = "free"
        /\ \A d \in Conns : d # c => conn'[d] = conn[d]
    BY <1>3 DEF Vanish, Release, Free, IngestTypeOK
  <2>2. \A r : Stored(r)' <=> Stored(r)
    BY <2>1 DEF Stored
  <2>3. AcceptedMeansStored' /\ CallersWait'
    BY <1>0, <2>1, <2>2, ZenonT(40) DEF AnswerInv, AcceptedMeansStored, CallersWait, First
  <2> QED
    BY <2>1, <2>2, <2>3 DEF AnswerInv, AllOrNothing
<1> QED
  BY <1>1, <1>2, <1>3 DEF ServerStep

\* Time, a change of the secret, a controller crash and stuttering touch
\* neither rows nor observations.
LEMMA AnswerElsewhere ==
  ASSUME AnswerInv,
         \/ Tick /\ UNCHANGED <<ingestVars, caller>>
         \/ ChangeCredential /\ UNCHANGED <<spoolVars, caller>>
         \/ ControllerCrash /\ caller' = [c \in Conns |-> NULL] /\ UNCHANGED spoolVars
         \/ UNCHANGED vars
  PROVE  AcceptedMeansStored' /\ AllOrNothing' /\ CallersWait'
<1>1. UNCHANGED <<results, pc, batch>>
  BY DEF Tick, ChangeCredential, ControllerCrash, vars, ingestVars, spoolVars, locals
<1>2. \A r : Stored(r)' <=> Stored(r)
  BY <1>1 DEF Stored
<1>3. AllOrNothing'
  BY <1>1, <1>2 DEF AnswerInv, AllOrNothing
<1>4. CASE conn' = conn /\ caller' = caller
  BY <1>1, <1>2, <1>3, <1>4, ZenonT(40) DEF AnswerInv, AcceptedMeansStored, CallersWait, First
<1>5. CASE ControllerCrash /\ caller' = [c \in Conns |-> NULL]
  <2>1. \A c \in Conns : conn'[c].at = "free" /\ caller'[c] = NULL
    BY <1>5 DEF ControllerCrash, Free
  <2> QED
    BY <1>1, <1>2, <1>3, <2>1 DEF AnswerInv, AcceptedMeansStored, CallersWait, First
<1> QED
  BY <1>4, <1>5 DEF ChangeCredential, vars, ingestVars

\* AnswerInv is inductive.
LEMMA AnswerNext == AnswerInv /\ [Next]_vars => AnswerInv'
<1> SUFFICES ASSUME AnswerInv, [Next]_vars PROVE AnswerInv'
  OBVIOUS
<1>1. TypeInv'
  BY TypeNext DEF AnswerInv
<1>2. AcceptedMeansStored' /\ AllOrNothing' /\ CallersWait'
  BY AnswerLocalStep, AnswerExchange, AnswerServerStep, AnswerElsewhere DEF Next, AgentStep
<1> QED
  BY <1>1, <1>2 DEF AnswerInv

\* The agent forgets a row only on an answer that is true.
THEOREM AnswersAreTrue == Spec => []AcceptedMeansStored
<1>1. AnswerInv => AcceptedMeansStored
  BY DEF AnswerInv
<1> QED
  BY AnswerInit, AnswerNext, <1>1, PTL DEF Spec
==============================================================================
