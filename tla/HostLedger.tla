----------------------------- MODULE HostLedger ------------------------------
(***************************************************************************)
(* What is left of RunLedger's promise on a host that can lose power: the  *)
(* agent's side may go back to what its disk had, the controller's side    *)
(* never does, and what went back is exactly what the disk did not have.   *)
(***************************************************************************)
EXTENDS RunLedger

VARIABLES
  disk,   \* the agent's side as it was when the disk last got it
  undone  \* the runs of which a power failure left no trace with the agent

hostLedger == <<produced, pending, stored, dropped, disk, undone>>

\* The agent's side now.
Current == [made |-> produced, pending |-> pending, dropped |-> dropped]

HostInit == Init /\ disk = Current /\ undone = {}

Online == Next /\ UNCHANGED <<disk, undone>>

Flush == disk' = Current /\ UNCHANGED <<produced, pending, stored, dropped, undone>>

PowerFailure ==
  /\ pending' = disk.pending
  /\ dropped' = disk.dropped
  /\ undone' = undone \cup (produced \ disk.made)
  /\ UNCHANGED <<produced, stored, disk>>

HostNext == Online \/ Flush \/ PowerFailure

HostSpec == HostInit /\ [][HostNext]_hostLedger
==============================================================================
