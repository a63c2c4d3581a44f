--------------------------- MODULE FifoReference ---------------------------
(***************************************************************************)
(* What first in, first out means, without a queue: number the coins of an *)
(* asset in the order they were acquired; the coins a sale or withdrawal   *)
(* takes are those that follow the ones taken before it, as far as there   *)
(* are any.  A lot is an interval of coins, a sale is another, and the     *)
(* cost of the sale is what their overlaps cost.  The properties compare   *)
(* the engine of TaxLots with this definition.                             *)
(***************************************************************************)
EXTENDS TaxLots, Sums

SumOver(h, f) == SumTo(f, Len(h))

Lots(h, S, a) == {i \in S : Acquires(h[i]) /\ h[i].asset = a}
Before(S, i) == {j \in S : j < i}

\* Coins of asset a acquired by the trades S of a history h.
Acquired(h, S, a) == SumOver(h, [i \in Lots(h, S, a) |-> h[i].quantity])

\* Coins of asset a taken by the trades of S up to position n.
Gone(h, S, a, n) ==
  LET gone[k \in 0..n] ==
        IF k = 0 THEN 0
        ELSE IF k \in S /\ Consumes(h[k]) /\ h[k].asset = a
          THEN Smaller(gone[k - 1] + h[k].quantity, Acquired(h, Before(S, k), a))
          ELSE gone[k - 1]
  IN gone[n]

\* How many coins with a number in (from, to] lot i has.
CoinsOfLot(h, S, i, from, to) ==
  LET first == Acquired(h, Before(S, i), h[i].asset)
      last  == first + h[i].quantity
  IN Positive(Smaller(last, to) - (IF first >= from THEN first ELSE from))

\* What the coins of asset a with a number in (from, to] cost.
CostBetween(h, S, a, from, to) ==
  SumOver(h, [i \in Lots(h, S, a) |-> CoinsOfLot(h, S, i, from, to) * UnitCost(h[i])])

CostOf(h, S, n) ==
  LET a == h[n].asset
  IN CostBetween(h, Before(S, n), a, Gone(h, S, a, n - 1), Gone(h, S, a, n))

\* What is left of lot i when g coins of its asset are gone.
LeftWhen(h, S, i, g) == h[i].quantity - CoinsOfLot(h, S, i, 0, g)
LeftOf(h, S, i) == LeftWhen(h, S, i, Gone(h, S, h[i].asset, Len(h)))

PricedSales(h, S, y) ==
  {n \in S : /\ h[n].type = "SELL" /\ Consumes(h[n])
             /\ h[n].year = y /\ h[n].unit # Nil}
OccasionalIncome(h, S, y) ==
  {i \in S : /\ Acquires(h[i]) /\ h[i].type \in OCCASIONAL_INCOME_TYPES
             /\ h[i].year = y /\ h[i].unit # Nil}
Result(h, S, n) == h[n].quantity * h[n].unit - CostOf(h, S, n)
GainOf(h, S, y) == SumOver(h, [n \in PricedSales(h, S, y) |-> Positive(Result(h, S, n))])
LossOf(h, S, y) == SumOver(h, [n \in PricedSales(h, S, y) |-> Positive(- Result(h, S, n))])
IncomeOf(h, S, y) ==
  SumOver(h, [i \in OccasionalIncome(h, S, y) |-> h[i].quantity * h[i].unit])

----------------------------------------------------------------------------
\* Between two trades the totals of a calculation and the queue of each asset
\* are what first in, first out says of the trades behind it, however the
\* calculation was interleaved with others.
FifoExact ==
  \A r \in Calcs : pc[r] = "next" =>
    LET S == Behind(r) IN
    /\ \A y \in Years : /\ calc[r].gain[y] = GainOf(trades, S, y)
                        /\ calc[r].loss[y] = LossOf(trades, S, y)
                        /\ calc[r].income[y] = IncomeOf(trades, S, y)
    /\ \A a \in Assets :
         LET queue == calc[r].book[a]
             open  == {i \in Lots(trades, S, a) : LeftOf(trades, S, i) > 0}
         IN /\ Len(queue) = Cardinality(open)
            /\ \A k \in DOMAIN queue :
                 /\ queue[k].trade \in open
                 /\ queue[k].left = LeftOf(trades, S, queue[k].trade)
                 /\ k > 1 => queue[k - 1].trade < queue[k].trade

\* A stored summary is the one the snapshot of the request that stores it
\* implies: gains and losses of the year set off against each other, occasional
\* income taxed apart, each under its own exemption.
SummaryExact ==
  [][\A y \in Years : summary'[y] # summary[y] =>
       \E r \in Calcs :
         /\ pc[r] = "next" /\ calc[r].at > Len(calc[r].snapshot) /\ calc[r].year = y
         /\ LET S == Behind(r)
                net == GainOf(trades, S, y) - LossOf(trades, S, y)
            IN /\ summary'[y].net = net /\ summary'[y].income = IncomeOf(trades, S, y)
               /\ summary'[y].taxable = Positive(net - CapitalExemption[y])
                    + Positive(IncomeOf(trades, S, y) - OccasionalExemption[y])]_vars

\* The lots of the trades behind the calculation, with what is left of each.
LotsComplete ==
  \A r \in Calcs : (pc[r] = "next" /\ calc[r].alone) =>
    lots = [id \in {[run |-> calc[r].run, trade |-> i] :
                      i \in {j \in Behind(r) : Acquires(trades[j])}} |->
             [original |-> trades[id.trade].quantity,
              remaining |-> LeftOf(trades, Behind(r), id.trade),
              fullyConsumed |-> LeftOf(trades, Behind(r), id.trade) = 0]]

Unpriced(t) == t.unit = Nil /\ (Acquires(t) \/ (t.type = "SELL" /\ Consumes(t)))
UnpricedFlagged ==
  /\ \A r \in Calcs : pc[r] = "next" =>
       \A i \in Behind(r) : Unpriced(trades[i]) => flags[i] > 0
  /\ \A i \in Indices : flags[i] > 0 => Unpriced(trades[i])

\* A calculation that nothing overlapped leaves exactly the lots of the trades
\* behind it: the rebuild is complete and repeats nothing of an earlier run,
\* finished or not.  What any calculation has behind it is flagged when its
\* price is unknown, and only then: an unpriced sale left out of the result is
\* never silent.
RebuildSound == LotsComplete /\ UnpricedFlagged

----------------------------------------------------------------------------
\* Claims of the source that overlapping calculations break.

\* "a consistent, idempotent full rebuild": when nothing is being calculated,
\* no trade has two lots.
OneLotPerTrade == Running = {} =>
  \A id, other \in DOMAIN lots : id.trade = other.trade => id = other
=============================================================================
