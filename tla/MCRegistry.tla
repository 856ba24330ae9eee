------------------------------ MODULE MCRegistry -----------------------------
(* NodeRegistry on small instances.                                        *)
EXTENDS NodeRegistry, TLC

MCSymmetry == Permutations(Admins) \cup Permutations(Addresses) \cup Permutations(Secrets)
==============================================================================
