----------------------------- MODULE MCDelivery ------------------------------
(* Instances of Delivery: a few runs, two targets, two requests at a time. *)
EXTENDS Delivery, TLC

CONSTANT MaxRuns

MCRuns == 1 .. MaxRuns

\* Requests in progress are interchangeable, and so are targets.
MCSymmetry == Permutations(Conns) \cup Permutations(Targets) \cup Permutations(Procs)
==============================================================================
