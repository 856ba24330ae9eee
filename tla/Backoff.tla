------------------------------- MODULE Backoff -------------------------------
(***************************************************************************)
(* The wait window of a spool row that has failed some number of times:    *)
(* internal/spool/backoff.go.  A time.Duration is a signed 64-bit integer, *)
(* so doubling can wrap; MaxInt is the largest value of that type, left as *)
(* a parameter so that a small word shows every overflow.                  *)
(***************************************************************************)
EXTENDS Integers

CONSTANT MaxInt

ASSUME MaxIntAssumption == MaxInt \in Nat \ {0}

\* Two's complement value of x, for the sums 0 .. 2 * MaxInt the loop forms.
Wrap(x) == IF x > MaxInt THEN x - 2 * (MaxInt + 1) ELSE x

\* A mutant: the overflow test `w <= 0` is forgotten.
BackoffWithoutOverflowTest(attempts, base, max) ==
  LET n == IF attempts < 0 THEN 0 ELSE attempts
      w[i \in 0 .. n] == IF i = 0 THEN base
                         ELSE LET d == Wrap(2 * w[i - 1]) IN IF d >= max THEN max ELSE d
  IN  IF w[n] > max THEN max ELSE w[n]

\* A round of the loop.  The early `return max` is the value max itself:
\* doubling max again gives max or an overflow, hence max.
Doubled(w, max) == LET d == Wrap(2 * w) IN IF d >= max \/ d <= 0 THEN max ELSE d

\* w[i] is the loop variable after i rounds.
Backoff(attempts, base, max) ==
  LET n == IF attempts < 0 THEN 0 ELSE attempts
      w[i \in 0 .. n] == IF i = 0 THEN base ELSE Doubled(w[i - 1], max)
  IN  IF w[n] > max THEN max ELSE w[n]

\* The n-th power of two.
PowerOf2(n) == LET pow[i \in 0 .. n] == IF i = 0 THEN 1 ELSE 2 * pow[i - 1] IN pow[n]

\* The formula of Backoff's comment (backoff.go:6), min(2^n * base, max), for
\* every base and max config.go accepts in this word; a negative n counts as 0.
IsCappedPower(n) ==
  \A base \in 1 .. MaxInt : \A max \in base .. MaxInt :
    LET exact == PowerOf2(IF n < 0 THEN 0 ELSE n) * base
    IN  Backoff(n, base, max) = IF exact < max THEN exact ELSE max
==============================================================================
