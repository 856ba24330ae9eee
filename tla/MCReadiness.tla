----------------------------- MODULE MCReadiness -----------------------------
(* Readiness on a small instance.                                          *)
EXTENDS Readiness

\* A clock that is slow beyond the limit, and one that is fast within it.
MCOffsets == {-2, 1}
==============================================================================
