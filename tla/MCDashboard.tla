----------------------------- MODULE MCDashboard -----------------------------
(* Dashboard on a small instance.                                          *)
EXTENDS Dashboard, TLC

CONSTANT MaxRuns

MCRuns == 1 .. MaxRuns
==============================================================================
