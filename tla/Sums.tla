-------------------------------- MODULE Sums --------------------------------
(***************************************************************************)
(* Sums over numbered things, by a recursive function, for definitions     *)
(* that proofs are to unfold.                                              *)
(***************************************************************************)
EXTENDS Integers

\* The sum of f over those of the numbers 1..n that are in its domain.
SumTo(f, n) ==
  LET sum[k \in 0..n] ==
        IF k = 0 THEN 0
        ELSE sum[k - 1] + (IF k \in DOMAIN f THEN f[k] ELSE 0)
  IN sum[n]
=============================================================================
