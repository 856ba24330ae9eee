------------------------------ MODULE ProbeRuns ------------------------------
(* The parameters that the agent and the controller have in common.        *)
EXTENDS Naturals

CONSTANTS
  Runs,    \* the probe cycles of a node, numbered by the row each is spooled in
  Faults,  \* what may go wrong: see the actions that name a fault
  NULL

ASSUME RunsAssumption == Runs \subseteq Nat
==============================================================================
