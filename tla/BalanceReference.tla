-------------------------- MODULE BalanceReference --------------------------
(***************************************************************************)
(* What the replay of reconcile computes, said without a replay: a balance *)
(* that is set back to zero whenever it falls below is the largest sum of  *)
(* a run of movements that ends now.                                       *)
(***************************************************************************)
EXTENDS TransferMatching, FiniteSetsExt, Sums

\* The movements of coin a among rows i+1 .. n, in a history h.
Moved(h, rows, a, i, n) ==
  SumTo([k \in {m \in (i + 1)..n : h[rows[m]].asset = a} |-> Signed(h[rows[k]])], n)
BalanceAfter(h, rows, a, n) == Max({Moved(h, rows, a, i, n) : i \in 0..n})
FallsShort(h, rows, n) ==
  BalanceAfter(h, rows, h[rows[n]].asset, n - 1) + Signed(h[rows[n]]) < 0

BalanceExact ==
  \A p \in Ingests :
    pc[p] = "replay" =>
      \A a \in Assets : job[p].balance[a] = BalanceAfter(book, job[p].rows, a, job[p].at - 1)

NegativesFlagged ==
  \A p \in Ingests :
    pc[p] = "replay" =>
      \A n \in 1..(job[p].at - 1) : FallsShort(book, job[p].rows, n) => flags[job[p].rows[n]] > 0

\* Between rows, the balance of every coin is the reference balance: reconcile
\* neither carries a deficit on nor forgets an inflow.  And every row behind it
\* that disposes of more than there was carries a flag, however many
\* reconciliations run at once; a row is flagged twice only by reconciliations
\* that overlap.
ReplayExact == BalanceExact /\ NegativesFlagged /\ FlaggedOnce
=============================================================================
