------------------------------ MODULE PowerLoss ------------------------------
(***************************************************************************)
(* Delivery on a host that can lose power.  The spool is opened with WAL   *)
(* and synchronous(NORMAL) (spool.go:70): a commit does not wait for the   *)
(* disk, so a power failure takes the file back to an earlier commit.  The *)
(* death of a process alone (Stop) does not: the page cache survives it.   *)
(* The controller's database is opened with synchronous(FULL).             *)
(***************************************************************************)
EXTENDS Delivery

CONSTANT MaxFailures  \* bound on power failures

ASSUME PowerAssumption == MaxFailures \in Nat

VARIABLES
  durable,   \* the tables of the spool as they are on the disk
  failures,  \* number of power failures
  undone     \* history: runs whose INSERT a power failure took back

powerVars == <<durable, failures, undone>>
hostVars  == <<vars, powerVars>>

\* What the spool file holds, with the history that belongs to it.
File == [spool |-> spool, dropsTotal |-> dropsTotal, saved |-> saved, pages |-> pages,
         made |-> produced, dropped |-> dropped]

PowerTypeOK ==
  /\ DeliveryTypeOK
  /\ DOMAIN durable.spool \subseteq durable.made
  /\ durable.made \subseteq produced
  /\ durable.dropped \subseteq dropped
  /\ failures \in 0..MaxFailures
  /\ undone \subseteq produced

PowerInit == Init /\ durable = File /\ failures = 0 /\ undone = {}

------------------------------------------------------------------------------

\* Agent and controller go on.  The end of a single process or of the controller,
\* and a change of the credential, are part of Delivery and not repeated here.
Online ==
  /\ (\E p \in Procs : AgentStep(p)) \/ (\E c \in Conns : ServerStep(c))
  /\ UNCHANGED powerVars

\* Time also passes for the rows on the disk.
HostTick ==
  /\ Tick
  /\ durable' = [durable EXCEPT !.spool = [r \in DOMAIN @ |-> Aged(@[r])]]
  /\ UNCHANGED <<ingestVars, caller, failures, undone>>

\* The disk has what has been committed so far: a checkpoint, the last
\* process to close the file, or the operating system writing back.
Flush ==
  /\ durable' = File
  /\ UNCHANGED <<vars, failures, undone>>

\* The host goes down and comes up with what the disk has.  No process
\* remembers anything; a request that was sent is still at the controller.
PowerFailure ==
  /\ failures < MaxFailures
  /\ failures' = failures + 1
  /\ spool' = durable.spool
  /\ dropsTotal' = durable.dropsTotal
  /\ saved' = durable.saved
  /\ pages' = durable.pages
  /\ dropped' = durable.dropped
  /\ undone' = undone \cup (produced \ durable.made)
  /\ pc' = [p \in Procs |-> "idle"]
  /\ batch' = [p \in Procs |-> {}]
  /\ snap' = [p \in Procs |-> ZeroSnapshot]
  /\ caller' = [c \in Conns |-> NULL]
  /\ UNCHANGED <<payload, phase, uncounted, ingestVars, durable>>

HostNext == Online \/ HostTick \/ Flush \/ PowerFailure

HostSpec == PowerInit /\ [][HostNext]_hostVars

------------------------------------------------------------------------------
(* Properties.                                                             *)

\* A power failure loses no more than the runs whose INSERT had not come to
\* the disk: a row is not deleted before the controller has the run for good,
\* and a DELETE that is taken back brings the row back (spool.go:70, 307-312,
\* results.go:204-213).
OnlyUnflushedLost ==
  \A r \in produced : r \in spooled \/ Stored(r) \/ r \in dropped \/ r \in undone

Host == INSTANCE HostLedger
          WITH pending <- spooled, stored <- {r \in Runs : Stored(r)},
               disk <- [made |-> durable.made, pending |-> DOMAIN durable.spool,
                        dropped |-> durable.dropped]

\* Spool and ingest on a host that loses power implement HostLedger: a failure
\* changes nothing but the agent's side, that side goes back to one state of
\* the past and not to a mixture of several, and from there RunLedger goes on,
\* with rows that are settled a second time (spool.go:70, 307-312,
\* results.go:204-213).
ImplementsHostLedger == Host!HostSpec
==============================================================================
