----------------------------- MODULE MCTaxLots -----------------------------
(***************************************************************************)
(* Small instances of TaxLots: every history of a few trades over one coin *)
(* (and lira, and a trade of another coin) for a single calculation, a few *)
(* histories for two that overlap.                                         *)
(***************************************************************************)
EXTENDS FifoReference, TLC

CONSTANTS coin, alt, try, c1, c2

MCYears == {1, 2}
T(type, asset, quantity, unit) ==
  [type |-> type, asset |-> asset, quantity |-> quantity, unit |-> unit]

\* The last trade falls in the second year.
Dated(s) == [i \in DOMAIN s |->
  s[i] @@ [year |-> IF i = Len(s) THEN 2 ELSE 1]]

Kinds ==
  {T("BUY", coin, 2, 1), T("BUY", coin, 1, 4), T("BUY", coin, 1, Nil),
   T("AIRDROP", coin, 1, 2), T("SELL", coin, 1, 3), T("SELL", coin, 2, 1),
   T("SELL", coin, 3, Nil), T("WITHDRAWAL", coin, 1, 2)}
Others == {T("BUY", try, 2, 1), T("SWAP", coin, 1, 1), T("SELL", alt, 1, 1),
           T("MINING_REWARD", alt, 1, 2)}

AllHistories ==
  {Dated(s) : s \in [1..4 -> Kinds]}
    \cup {Dated(<<a, b, c>>) : a \in Kinds, b \in Others, c \in Kinds \cup Others}

FewHistories ==
  {Dated(<<T("BUY", coin, 1, 1), T("DEPOSIT", coin, 1, Nil),
           T("WITHDRAWAL", coin, 1, 2), T("SELL", coin, 2, 4)>>),
   Dated(<<T("BUY", coin, 2, 2), T("AIRDROP", coin, 1, Nil),
           T("SELL", coin, 1, Nil), T("SELL", coin, 1, 1)>>)}

MCCapital == [y \in Years |-> 2]
MCOccasional == [y \in Years |-> 1]
=============================================================================
