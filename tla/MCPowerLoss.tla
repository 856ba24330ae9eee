----------------------------- MODULE MCPowerLoss -----------------------------
(* PowerLoss with one agent and one power failure.                         *)
EXTENDS PowerLoss, TLC

CONSTANT MaxRuns

MCRuns == 1 .. MaxRuns

\* Requests in progress are interchangeable.
MCSymmetry == Permutations(Conns)
==============================================================================
