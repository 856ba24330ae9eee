------------------------------ MODULE RunLedger ------------------------------
(***************************************************************************)
(* What spool and controller promise together about probe runs: a run that *)
(* was produced stays pending until the controller holds it, is stored at  *)
(* most once and for good, and leaves unstored only through retention.     *)
(***************************************************************************)
CONSTANT Runs

VARIABLES produced, pending, stored, dropped

ledger == <<produced, pending, stored, dropped>>

Init == produced = {} /\ pending = {} /\ stored = {} /\ dropped = {}

Produce(r) ==
  /\ r \notin produced
  /\ produced' = produced \cup {r}
  /\ pending' = pending \cup {r}
  /\ UNCHANGED <<stored, dropped>>

\* A request that outlives its row may still be stored: retention does not
\* recall it.
Store(r) ==
  /\ r \in produced \ stored
  /\ stored' = stored \cup {r}
  /\ UNCHANGED <<produced, pending, dropped>>

Settle(r) ==
  /\ r \in pending \cap stored
  /\ pending' = pending \ {r}
  /\ UNCHANGED <<produced, stored, dropped>>

Drop(r) ==
  /\ r \in pending
  /\ pending' = pending \ {r}
  /\ dropped' = dropped \cup {r}
  /\ UNCHANGED <<produced, stored>>

Next == \E r \in Runs : Produce(r) \/ Store(r) \/ Settle(r) \/ Drop(r)

Spec == Init /\ [][Next]_ledger
==============================================================================
