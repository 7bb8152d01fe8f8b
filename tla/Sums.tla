------------------------------- MODULE Sums -------------------------------
(* Finite sums, as the conservation properties of the control link use them. *)
EXTENDS Integers

\* v[1] + ... + v[n].  A recursive function, so that the provers can unfold it.
SumUpTo(v, n) ==
  LET s[k \in 0 .. n] == IF k = 0 THEN 0 ELSE s[k - 1] + v[k] IN s[n]
=============================================================================
