----------------------------- MODULE MCWSTickets -----------------------------
(* WSTickets on a small instance.                                          *)
EXTENDS WSTickets, TLC

MCSymmetry == Permutations(Tickets) \cup Permutations(Handlers) \cup Permutations(IPs)
==============================================================================
