------------------------- MODULE MCTransferMatching -------------------------
(***************************************************************************)
(* Small histories for TransferMatching: two withdrawals that one deposit  *)
(* fits, rows without a source, a quantity of zero, the turn of the year.  *)
(***************************************************************************)
EXTENDS BalanceReference, TLC

CONSTANTS w1, w2, d1, d2, coin, alt, exchange, wallet, i1, i2

E(type, asset, quantity, hour, origin) ==
  [type |-> type, asset |-> asset, quantity |-> quantity, hour |-> hour, origin |-> origin]
B(a, b, c, d) == (w1 :> a) @@ (w2 :> b) @@ (d1 :> c) @@ (d2 :> d)

\* One deposit, two withdrawals that fit it, and one that fits both.
TwoForOne ==
  B(E("WITHDRAWAL", coin, 100, 0, exchange), E("TRANSFER_OUT", coin, 101, 40, exchange),
    E("DEPOSIT", coin, 100, 48, wallet), E("DEPOSIT", coin, 99, 49, wallet))
\* Both sides in one file, both sides in one exchange, at the turn of the year.
OneSource ==
  B(E("WITHDRAWAL", coin, 100, 96, Nil), E("WITHDRAWAL", coin, 200, 98, exchange),
    E("DEPOSIT", coin, 100, 95, Nil), E("TRANSFER_IN", coin, 199, 99, exchange))
\* A purchase spent twice; zero amounts and a spam coin.
Deficit ==
  B(E("BUY", coin, 100, 0, exchange), E("SELL", coin, 150, 1, exchange),
    E("STAKING_REWARD", coin, 30, 2, exchange), E("FEE", coin, 40, 3, wallet))
Zero ==
  B(E("TRANSFER_OUT", coin, 0, 0, wallet), E("SELL", alt, 5, 1, wallet),
    E("TRANSFER_IN", coin, 0, 0, exchange), E("SELL", coin, 5, 99, exchange))

InterchangeableIngests == Permutations({i1, i2})
MCBooks == {TwoForOne, OneSource, Deficit, Zero}
=============================================================================
