------------------------------- MODULE MCSpool -------------------------------
(* Instances of Spool alone, its Sender free to return any outcome.        *)
EXTENDS Spool

CONSTANT MaxRuns

MCRuns == 1 .. MaxRuns
==============================================================================
