--------------------------- MODULE TaxLots_proofs ---------------------------
(***************************************************************************)
(* Proofs about TaxLots and FifoReference for every set of histories, any  *)
(* number of overlapping calculations and every bound: type correctness,   *)
(* the agreement of rows and books, and that the totals, queues, lots and  *)
(* summaries are those that first in, first out gives.                     *)
(***************************************************************************)
EXTENDS FifoReference, FiniteSetTheorems, Sums_proofs, TLAPS

\* The awaits at which a calculation is inside the loop body of one trade.
InTrade == {"flag:find", "flag:create", "lot:create", "take"}

InLoop(c) == c.at <= Len(c.snapshot)

TypeInv ==
  /\ TypeOK
  /\ \A r \in Calcs : pc[r] \in InTrade => InLoop(calc[r])

\* The trade a calculation works on is a trade of the history.
LEMMA CurrentTrade ==
  ASSUME TypeInv, NEW r \in Calcs, pc[r] \in InTrade \/ AtTrade(r)
  PROVE  /\ calc[r] \in Calculation /\ InLoop(calc[r])
         /\ Current(r) \in Indices /\ Tx(r) \in Trade
  <1>1. calc[r] \in Calculation /\ InLoop(calc[r])
    BY DEF TypeInv, TypeOK, AtTrade, InTrade, InLoop, Running
  <1>2. Current(r) \in Indices
    BY <1>1 DEF Calculation, InLoop, Current
  <1>3. Tx(r) \in Trade
    BY <1>2, HistoryAssumption DEF Tx, TypeInv, TypeOK, Indices
  <1> QED BY <1>1, <1>2, <1>3

\* The order in which the trades are read is a sequence of positions.
LEMMA OrderedIsSeq ==
  ASSUME NEW S \in SUBSET Indices, trades \in Seq(Trade), NEW s \in Ordered(S)
  PROVE  s \in Seq(Indices)
  <1>1. IsFiniteSet(Indices)
    BY FS_Interval DEF Indices
  <1>2. Cardinality(S) \in Nat
    BY <1>1, FS_Subset, FS_CardinalityType
  <1> QED BY <1>2 DEF Ordered

----------------------------------------------------------------------------
\* Type correctness

\* One calculation moves to another await with other locals.
LEMMA MoveType ==
  ASSUME TypeInv, NEW r \in Calcs, NEW s \in Steps \ {"idle"}, NEW c \in Calculation,
         s \in InTrade => InLoop(c),
         Goto(r, s, c), UNCHANGED <<world, runs, aborts>>,
         DOMAIN lots' \subseteq LotId, \A id \in DOMAIN lots' : lots'[id] \in LotRow,
         flags' \in [Indices -> Nat], summary' = summary
  PROVE  TypeInv'
  <1>1. pc' \in [Calcs -> Steps]
    BY DEF Goto, TypeInv, TypeOK
  <1>2. calc' \in [Calcs -> Calculation \cup {Nil}]
    BY DEF Goto, TypeInv, TypeOK
  <1>3. ASSUME NEW q \in Calcs, pc'[q] # "idle"
        PROVE  calc'[q] \in Calculation /\ (pc'[q] \in InTrade => InLoop(calc'[q]))
    BY <1>3 DEF Goto, TypeInv, TypeOK, Running
  <1>4. Indices' = Indices /\ LotId' = LotId /\ Calculation' = Calculation
    BY DEF world, Indices, LotId, Calculation, WorkingLot
  <1>5. "idle" \notin InTrade
    BY DEF InTrade
  <1> QED BY <1>1, <1>2, <1>3, <1>4, <1>5 DEF TypeInv, TypeOK, world, Running, InLoop

\* One calculation ends.
LEMMA FinishType ==
  ASSUME TypeInv, NEW r \in Calcs, Finish(r), UNCHANGED <<world, lots, flags, runs>>,
         aborts' \in 0..MaxAborts, summary' \in [Years -> Summary \cup {Nil}]
  PROVE  TypeInv'
  <1>1. pc' \in [Calcs -> Steps] /\ calc' \in [Calcs -> Calculation \cup {Nil}]
    BY DEF Finish, Goto, TypeInv, TypeOK, Steps
  <1>2. ASSUME NEW q \in Calcs, pc'[q] # "idle"
        PROVE  calc'[q] \in Calculation /\ (pc'[q] \in InTrade => InLoop(calc'[q]))
    BY <1>2 DEF Finish, Goto, TypeInv, TypeOK, Running
  <1>3. Indices' = Indices /\ LotId' = LotId /\ Calculation' = Calculation
    BY DEF world, Indices, LotId, Calculation, WorkingLot
  <1>4. "idle" \notin InTrade
    BY DEF InTrade
  <1> QED BY <1>1, <1>2, <1>3, <1>4 DEF TypeInv, TypeOK, world, Running, InLoop

\* The loop counter moves on.
LEMMA AdvanceType ==
  ASSUME TypeInv, NEW r \in Calcs, NEW c \in Calculation, NextTrade(r, c),
         UNCHANGED <<world, runs, aborts, summary>>,
         DOMAIN lots' \subseteq LotId, \A id \in DOMAIN lots' : lots'[id] \in LotRow,
         flags' \in [Indices -> Nat]
  PROVE  TypeInv'
  <1>1. [c EXCEPT !.at = @ + 1] \in Calculation
    <2>1. PICK n \in Nat \ {0} : n = c.at + 1
      BY DEF Calculation
    <2>2. [c EXCEPT !.at = n] \in Calculation
      BY DEF Calculation
    <2> QED BY <2>1, <2>2
  <1>2. "next" \in Steps \ {"idle"} /\ "next" \notin InTrade
    BY DEF Steps, InTrade
  <1> QED BY <1>1, <1>2, MoveType DEF NextTrade

LEMMA SameTables ==
  ASSUME TypeInv, UNCHANGED <<lots, flags>>
  PROVE  /\ DOMAIN lots' \subseteq LotId /\ \A id \in DOMAIN lots' : lots'[id] \in LotRow
         /\ flags' \in [Indices -> Nat]
  BY DEF TypeInv, TypeOK

LEMMA BeginType ==
  ASSUME TypeInv, NEW r \in Calcs, NEW y \in Years, BeginCalculation(r, y)
  PROVE  TypeInv'
  <1>1. PICK order \in Ordered(Counted) :
          calc' = [q \in Calcs |->
            IF q = r THEN NewCalculation(y, order)
            ELSE IF q \in Running THEN [calc[q] EXCEPT !.alone = FALSE]
            ELSE calc[q]]
    BY DEF BeginCalculation
  <1>2. order \in Seq(Indices)
    BY OrderedIsSeq, HistoryAssumption DEF Counted, TypeInv, TypeOK
  <1>3. NewCalculation(y, order) \in Calculation
    <2>1. [a \in Assets |-> <<>>] \in [Assets -> Seq(WorkingLot)]
      OBVIOUS
    <2>2. NoTotals \in Totals
      BY DEF NoTotals, Totals
    <2>3. runs + 1 \in 1..MaxRuns
      BY BoundAssumption DEF BeginCalculation, TypeInv, TypeOK
    <2> QED BY <1>2, <2>1, <2>2, <2>3 DEF NewCalculation, Calculation
  <1>4. \A q \in Running : [calc[q] EXCEPT !.alone = FALSE] \in Calculation
    BY DEF TypeInv, TypeOK, Calculation
  <1>5. calc' \in [Calcs -> Calculation \cup {Nil}]
    BY <1>1, <1>3, <1>4 DEF TypeInv, TypeOK
  <1>6. pc' = [pc EXCEPT ![r] = "delete"] /\ pc' \in [Calcs -> Steps]
    BY DEF BeginCalculation, TypeInv, TypeOK, Steps
  <1>7. ASSUME NEW q \in Calcs, pc'[q] # "idle"
        PROVE  calc'[q] \in Calculation /\ (pc'[q] \in InTrade => InLoop(calc'[q]))
    <2>1. CASE q = r
      BY <1>1, <1>3, <1>6, <2>1 DEF InTrade, TypeInv, TypeOK
    <2>2. CASE q # r
      <3>1. q \in Running /\ pc'[q] = pc[q] /\ calc'[q] = [calc[q] EXCEPT !.alone = FALSE]
        BY <1>1, <1>6, <1>7, <2>2 DEF Running, TypeInv, TypeOK
      <3>2. calc[q] \in Calculation /\ (pc[q] \in InTrade => InLoop(calc[q]))
        BY <3>1 DEF TypeInv, TypeOK
      <3> QED BY <1>4, <3>1, <3>2 DEF InLoop, Calculation
    <2> QED BY <2>1, <2>2
  <1>8. Indices' = Indices /\ LotId' = LotId /\ Calculation' = Calculation
    BY DEF BeginCalculation, world, Indices, LotId, Calculation, WorkingLot
  <1>9. runs' \in 0..MaxRuns
    BY BoundAssumption DEF BeginCalculation, TypeInv, TypeOK
  <1>10. "idle" \notin InTrade
    BY DEF InTrade
  <1> QED BY <1>5, <1>6, <1>7, <1>8, <1>9, <1>10
          DEF BeginCalculation, TypeInv, TypeOK, world, Running, InLoop

LEMMA ProductIsNat ==
  ASSUME NEW a \in Nat, NEW b \in Nat
  PROVE  a * b \in Nat
  OBVIOUS

LEMMA UnitCostIsNat ==
  ASSUME NEW t \in Trade
  PROVE  UnitCost(t) \in Nat
  BY DEF Trade, UnitCost

\* Adding to the total of one year.
LEMMA TotalType ==
  ASSUME NEW t \in Totals, NEW y \in Years, NEW n \in Nat
  PROVE  [t EXCEPT ![y] = @ + n] \in Totals
  BY DEF Totals

LEMMA IncomeType ==
  ASSUME NEW c \in Calculation, NEW t \in Trade
  PROVE  /\ WithIncome(c, t) \in Calculation
         /\ WithIncome(c, t).snapshot = c.snapshot /\ WithIncome(c, t).at = c.at
         /\ WithIncome(c, t).book = c.book /\ WithIncome(c, t).run = c.run
         /\ WithIncome(c, t).alone = c.alone
  <1>1. CASE t.type \in OCCASIONAL_INCOME_TYPES /\ t.unit # Nil
    <2>1. PICK n \in Nat : n = t.quantity * t.unit
      BY <1>1, ProductIsNat DEF Trade
    <2>2. PICK total \in Totals : total = [c.income EXCEPT ![t.year] = @ + n]
      BY TotalType DEF Calculation, Trade
    <2>3. WithIncome(c, t) = [c EXCEPT !.income = total]
      BY <1>1, <2>1, <2>2 DEF WithIncome
    <2> QED BY <2>3 DEF Calculation
  <1>2. CASE ~ (t.type \in OCCASIONAL_INCOME_TYPES /\ t.unit # Nil)
    BY <1>2 DEF WithIncome
  <1> QED BY <1>1, <1>2

LEMMA ResultType ==
  ASSUME NEW c \in Calculation, NEW t \in Trade, t.unit # Nil
  PROVE  /\ WithResult(c, t) \in Calculation
         /\ WithResult(c, t).snapshot = c.snapshot /\ WithResult(c, t).at = c.at
         /\ WithResult(c, t).book = c.book /\ WithResult(c, t).run = c.run
         /\ WithResult(c, t).alone = c.alone
  <1>1. PICK n \in Nat : n = t.quantity * t.unit
    BY ProductIsNat DEF Trade
  <1>2. CASE n - c.cost >= 0
    <2>1. PICK k \in Nat : k = n - c.cost
      BY <1>2 DEF Calculation
    <2>2. PICK gain \in Totals : gain = [c.gain EXCEPT ![t.year] = @ + k]
      BY TotalType DEF Calculation, Trade
    <2>3. WithResult(c, t) = [c EXCEPT !.gain = gain]
      BY <1>1, <1>2, <2>1, <2>2 DEF WithResult
    <2> QED BY <2>3 DEF Calculation
  <1>3. CASE ~ (n - c.cost >= 0)
    <2>1. PICK k \in Nat : k = c.cost - n
      BY <1>3 DEF Calculation
    <2>2. PICK loss \in Totals : loss = [c.loss EXCEPT ![t.year] = @ + k]
      BY TotalType DEF Calculation, Trade
    <2>3. [c.loss EXCEPT ![t.year] = @ - (n - c.cost)] = loss
      <3>1. c.loss \in Totals /\ c.loss[t.year] \in Nat /\ c.cost \in Nat
        BY DEF Calculation, Totals, Trade
      <3>2. c.loss[t.year] - (n - c.cost) = c.loss[t.year] + k
        BY <2>1, <3>1
      <3> QED BY <2>2, <3>2
    <2>4. WithResult(c, t) = [c EXCEPT !.loss = loss]
      BY <1>1, <1>3, <2>3 DEF WithResult
    <2> QED BY <2>4 DEF Calculation
  <1> QED BY <1>2, <1>3

LEMMA QueueType ==
  ASSUME NEW c \in Calculation, NEW a \in Assets, NEW q \in Seq(WorkingLot)
  PROVE  [c EXCEPT !.book[a] = q] \in Calculation
  BY DEF Calculation

LEMMA FlagType ==
  ASSUME TypeInv, NEW r \in Calcs, FindFlag(r) \/ CreateFlag(r)
  PROVE  TypeInv'
  <1>1. calc[r] \in Calculation /\ InLoop(calc[r]) /\ Current(r) \in Indices
    BY CurrentTrade DEF FindFlag, CreateFlag, InTrade
  <1>2. /\ DOMAIN lots' \subseteq LotId /\ \A id \in DOMAIN lots' : lots'[id] \in LotRow
        /\ flags' \in [Indices -> Nat]
    BY <1>1 DEF FindFlag, CreateFlag, TypeInv, TypeOK
  <1>3. UNCHANGED <<world, runs, aborts, summary>>
    BY DEF FindFlag, CreateFlag
  <1>4. {"lot:create", "flag:create"} \subseteq Steps \ {"idle"}
    BY DEF Steps
  <1>5. ASSUME AfterFlag(r) PROVE TypeInv'
    <2>1. CASE Goto(r, "lot:create", calc[r])
      BY <1>1, <1>2, <1>3, <1>4, <2>1, MoveType
    <2>2. CASE NextTrade(r, calc[r])
      BY <1>1, <1>2, <1>3, <2>2, AdvanceType
    <2> QED BY <1>5, <2>1, <2>2 DEF AfterFlag
  <1>6. CASE Goto(r, "flag:create", calc[r])
    BY <1>1, <1>2, <1>3, <1>4, <1>6, MoveType
  <1> QED BY <1>5, <1>6 DEF FindFlag, CreateFlag

\* The lot that an acquisition appends to the book.
Acquisition(r) == [trade |-> Current(r), left |-> Tx(r).quantity, unit |-> UnitCost(Tx(r))]
WithLot(r) ==
  [calc[r] EXCEPT !.book[Tx(r).asset] = Append(@, Acquisition(r))]

LEMMA CreateLotFacts ==
  ASSUME TypeInv, NEW r \in Calcs, CreateLot(r)
  PROVE  /\ WithIncome(WithLot(r), Tx(r)) \in Calculation
         /\ NextTrade(r, WithIncome(WithLot(r), Tx(r)))
         /\ NewLotId(r) \in LotId
         /\ Acquisition(r) \in WorkingLot
         /\ lots' = Insert(lots, NewLotId(r), [original |-> Tx(r).quantity,
                      remaining |-> Tx(r).quantity, fullyConsumed |-> FALSE])
  <1>1. calc[r] \in Calculation /\ Current(r) \in Indices /\ Tx(r) \in Trade
    BY CurrentTrade DEF CreateLot, InTrade
  <1>2. Acquisition(r) \in WorkingLot
    BY <1>1, UnitCostIsNat DEF Acquisition, WorkingLot, Trade
  <1>3. Append(calc[r].book[Tx(r).asset], Acquisition(r)) \in Seq(WorkingLot)
    BY <1>1, <1>2 DEF Calculation, Trade
  <1>4. WithLot(r) \in Calculation
    <2>1. Tx(r).asset \in Assets
      BY <1>1 DEF Trade
    <2> QED BY <1>1, <1>3, <2>1, QueueType DEF WithLot
  <1>5. NextTrade(r, WithIncome(WithLot(r), Tx(r)))
    BY DEF CreateLot, WithLot, Acquisition
  <1>6. NewLotId(r) \in LotId
    BY <1>1 DEF NewLotId, LotId, Calculation
  <1> QED BY <1>1, <1>2, <1>4, <1>5, <1>6, IncomeType DEF CreateLot

LEMMA CreateLotType ==
  ASSUME TypeInv, NEW r \in Calcs, CreateLot(r)
  PROVE  TypeInv'
  <1> DEFINE c == WithIncome(WithLot(r), Tx(r))
             row == [original |-> Tx(r).quantity, remaining |-> Tx(r).quantity,
                     fullyConsumed |-> FALSE]
  <1>1. row \in LotRow
    BY CurrentTrade DEF CreateLot, InTrade, LotRow, Trade
  <1>2. DOMAIN lots' \subseteq LotId /\ \A id \in DOMAIN lots' : lots'[id] \in LotRow
    <2>1. NewLotId(r) \in LotId /\ lots' = Insert(lots, NewLotId(r), row)
      BY CreateLotFacts
    <2> HIDE DEF row
    <2> QED BY <1>1, <2>1 DEF Insert, TypeInv, TypeOK
  <1>3. c \in Calculation /\ NextTrade(r, c)
    BY CreateLotFacts
  <1>4. flags' \in [Indices -> Nat] /\ UNCHANGED <<world, runs, aborts, summary>>
    BY DEF CreateLot, TypeInv, TypeOK
  <1> HIDE DEF c
  <1> QED BY <1>2, <1>3, <1>4, AdvanceType

\* What one pass of the loop over the lots does to the locals.
LEMMA ConsumeFacts ==
  ASSUME TypeInv, NEW r \in Calcs, CanTake(r)
  PROVE  /\ Queue(r) \in Seq(WorkingLot) /\ Queue(r) # <<>> /\ Head(Queue(r)) \in WorkingLot
         /\ Taken(r) \in Nat /\ Taken(r) <= Head(Queue(r)).left /\ Taken(r) <= calc[r].owed
         /\ Shortened(Queue(r), Taken(r)) \in Seq(WorkingLot)
         /\ [calc[r] EXCEPT
               !.book[Tx(r).asset] = Shortened(@, Taken(r)),
               !.owed = @ - Taken(r),
               !.cost = @ + Taken(r) * Head(Queue(r)).unit] \in Calculation
  <1>1. calc[r] \in Calculation /\ Tx(r) \in Trade
    BY CurrentTrade DEF CanTake, InTrade
  <1>2. Queue(r) \in Seq(WorkingLot) /\ Queue(r) # <<>>
    BY <1>1 DEF Queue, Calculation, Trade, CanTake
  <1>3. Head(Queue(r)) \in WorkingLot /\ Head(Queue(r)) = Queue(r)[1]
    BY <1>2
  <1>4. Taken(r) \in Nat /\ Taken(r) <= Head(Queue(r)).left /\ Taken(r) <= calc[r].owed
    BY <1>1, <1>3 DEF Taken, Smaller, WorkingLot, Calculation
  <1>5. Shortened(Queue(r), Taken(r)) \in Seq(WorkingLot)
    <2>1. CASE Queue(r)[1].left = Taken(r)
      BY <1>2, <2>1 DEF Shortened
    <2>2. CASE Queue(r)[1].left # Taken(r)
      <3>1. PICK k \in Nat : k = Queue(r)[1].left - Taken(r)
        BY <1>3, <1>4 DEF WorkingLot
      <3>2. [Queue(r)[1] EXCEPT !.left = k] \in WorkingLot
        BY <1>3 DEF WorkingLot
      <3>3. Shortened(Queue(r), Taken(r)) = [Queue(r) EXCEPT ![1] = [Queue(r)[1] EXCEPT !.left = k]]
        BY <1>2, <2>2, <3>1 DEF Shortened
      <3> QED BY <1>2, <3>2, <3>3
    <2> QED BY <2>1, <2>2
  <1>6. PICK q \in Seq(WorkingLot) : q = Shortened(Queue(r), Taken(r))
    BY <1>5
  <1>7. PICK owed \in Nat : owed = calc[r].owed - Taken(r)
    BY <1>1, <1>4 DEF Calculation
  <1>8. PICK cost \in Nat : cost = calc[r].cost + Taken(r) * Head(Queue(r)).unit
    <2>1. PICK n \in Nat : n = Taken(r) * Head(Queue(r)).unit
      BY <1>3, <1>4, ProductIsNat DEF WorkingLot
    <2>2. calc[r].cost + n \in Nat
      BY <1>1 DEF Calculation
    <2> QED BY <2>1, <2>2
  <1>9. [calc[r] EXCEPT !.book[Tx(r).asset] = q, !.owed = owed, !.cost = cost]
          \in Calculation
    BY <1>1 DEF Calculation
  <1> QED BY <1>2, <1>3, <1>4, <1>5, <1>6, <1>7, <1>8, <1>9 DEF Queue

LEMMA ConsumeLotType ==
  ASSUME TypeInv, NEW r \in Calcs, ConsumeLot(r)
  PROVE  TypeInv'
  <1> DEFINE c == [calc[r] EXCEPT
               !.book[Tx(r).asset] = Shortened(@, Taken(r)),
               !.owed = @ - Taken(r),
               !.cost = @ + Taken(r) * Head(Queue(r)).unit]
  <1>1. CanTake(r) /\ Oldest(r) \in DOMAIN lots /\ Goto(r, "take", c)
    BY DEF ConsumeLot
  <1>2. c \in Calculation /\ c.at = calc[r].at /\ c.snapshot = calc[r].snapshot
    <2>1. c \in Calculation
      BY <1>1, ConsumeFacts
    <2>2. calc[r] \in Calculation
      BY <1>1, CurrentTrade DEF CanTake, InTrade
    <2> QED BY <2>1, <2>2 DEF Calculation
  <1>3. InLoop(c)
    BY <1>1, <1>2, CurrentTrade DEF CanTake, InTrade, InLoop
  <1>4. PICK k \in Nat : k = Head(Queue(r)).left - Taken(r)
    <2>1. /\ Head(Queue(r)) \in WorkingLot
          /\ Taken(r) \in Nat /\ Taken(r) <= Head(Queue(r)).left
      BY <1>1, ConsumeFacts
    <2>2. Head(Queue(r)).left \in Nat
      BY <2>1 DEF WorkingLot
    <2> QED BY <2>1, <2>2
  <1>5. lots' = [lots EXCEPT ![Oldest(r)] =
                   [@ EXCEPT !.remaining = k, !.fullyConsumed = (k = 0)]]
    BY <1>4 DEF ConsumeLot
  <1>6. DOMAIN lots' \subseteq LotId /\ \A id \in DOMAIN lots' : lots'[id] \in LotRow
    BY <1>1, <1>5 DEF TypeInv, TypeOK, LotRow
  <1>7. "take" \in Steps \ {"idle"} /\ flags' \in [Indices -> Nat]
        /\ UNCHANGED <<world, runs, aborts, summary>>
    BY DEF ConsumeLot, TypeInv, TypeOK, Steps
  <1> HIDE DEF c
  <1> QED BY <1>1, <1>2, <1>3, <1>6, <1>7, MoveType

LEMMA FinishConsumptionType ==
  ASSUME TypeInv, NEW r \in Calcs, FinishConsumption(r)
  PROVE  TypeInv'
  <1>1. calc[r] \in Calculation /\ InLoop(calc[r]) /\ Tx(r) \in Trade
    BY CurrentTrade DEF FinishConsumption, InTrade
  <1>2. /\ DOMAIN lots' \subseteq LotId /\ \A id \in DOMAIN lots' : lots'[id] \in LotRow
        /\ flags' \in [Indices -> Nat]
    BY SameTables DEF FinishConsumption
  <1>3. UNCHANGED <<world, runs, aborts, summary>>
    BY DEF FinishConsumption
  <1>4. CASE NextTrade(r, calc[r])
    BY <1>1, <1>2, <1>3, <1>4, AdvanceType
  <1>5. CASE Goto(r, "flag:find", calc[r])
    BY <1>1, <1>2, <1>3, <1>5, MoveType DEF Steps
  <1>6. CASE Tx(r).unit # Nil /\ NextTrade(r, WithResult(calc[r], Tx(r)))
    BY <1>1, <1>2, <1>3, <1>6, AdvanceType, ResultType
  <1> QED BY <1>4, <1>5, <1>6 DEF FinishConsumption

LEMMA SummaryType ==
  ASSUME NEW y \in Years, NEW gain \in Nat, NEW loss \in Nat, NEW income \in Nat
  PROVE  SummaryOf(y, gain, loss, income) \in Summary
  <1>1. CapitalExemption[y] \in Nat /\ OccasionalExemption[y] \in Nat
    BY ExemptionAssumption
  <1> QED BY <1>1 DEF SummaryOf, Summary, Smaller, Positive

LEMMA PersistType ==
  ASSUME TypeInv, NEW r \in Calcs, PersistSummary(r)
  PROVE  TypeInv'
  <1>1. calc[r] \in Calculation
    BY DEF PersistSummary, TypeInv, TypeOK, Running
  <1>2. /\ calc[r].year \in Years /\ calc[r].gain[calc[r].year] \in Nat
        /\ calc[r].loss[calc[r].year] \in Nat /\ calc[r].income[calc[r].year] \in Nat
    BY <1>1 DEF Calculation, Totals
  <1>3. summary' \in [Years -> Summary \cup {Nil}]
    BY <1>2, SummaryType DEF PersistSummary, TypeInv, TypeOK
  <1>4. aborts' \in 0..MaxAborts
    BY DEF PersistSummary, TypeInv, TypeOK
  <1> QED BY <1>3, <1>4, FinishType DEF PersistSummary

\* The remaining steps of a calculation change no table, or only delete rows.
LEMMA PlainStepType ==
  ASSUME TypeInv, NEW r \in Calcs,
         \/ DeleteLots(r) \/ SkipTrade(r) \/ BeginAcquisition(r)
         \/ BeginConsumption(r) \/ LoseLot(r)
  PROVE  TypeInv'
  <1>1. CASE DeleteLots(r)
    <2>1. calc[r] \in Calculation
      BY <1>1 DEF DeleteLots, TypeInv, TypeOK, Running
    <2>2. DOMAIN lots' = {}
      BY <1>1 DEF DeleteLots
    <2>3. "next" \in Steps \ {"idle"} /\ "next" \notin InTrade
      BY DEF Steps, InTrade
    <2>4. flags' \in [Indices -> Nat]
      BY <1>1 DEF DeleteLots, TypeInv, TypeOK
    <2> QED BY <1>1, <2>1, <2>2, <2>3, <2>4, MoveType DEF DeleteLots
  <1>2. CASE SkipTrade(r)
    BY <1>2, CurrentTrade, SameTables, AdvanceType DEF SkipTrade
  <1>3. CASE BeginAcquisition(r)
    <2>1. calc[r] \in Calculation /\ InLoop(calc[r])
      BY <1>3, CurrentTrade DEF BeginAcquisition
    <2>2. "flag:find" \in Steps \ {"idle"} /\ "lot:create" \in Steps \ {"idle"}
      BY DEF Steps
    <2> QED BY <1>3, <2>1, <2>2, SameTables, MoveType DEF BeginAcquisition
  <1>4. CASE BeginConsumption(r)
    <2>1. calc[r] \in Calculation /\ InLoop(calc[r]) /\ Tx(r).quantity \in Nat
      BY <1>4, CurrentTrade DEF BeginConsumption, Trade
    <2> DEFINE c == [calc[r] EXCEPT !.owed = Tx(r).quantity, !.cost = 0]
    <2>2. c \in Calculation /\ InLoop(c)
      <3>1. PICK n \in Nat : n = Tx(r).quantity
        BY <2>1
      <3>2. /\ [calc[r] EXCEPT !.owed = n, !.cost = 0] \in Calculation
            /\ InLoop([calc[r] EXCEPT !.owed = n, !.cost = 0])
        BY <2>1 DEF Calculation, InLoop
      <3> QED BY <3>1, <3>2
    <2>3. "take" \in Steps \ {"idle"}
      BY DEF Steps
    <2>4. Goto(r, "take", c)
      BY <1>4 DEF BeginConsumption
    <2> HIDE DEF c
    <2> QED BY <1>4, <2>2, <2>3, <2>4, SameTables, MoveType DEF BeginConsumption
  <1>5. CASE LoseLot(r)
    BY <1>5, FinishType DEF LoseLot, TypeInv, TypeOK
  <1> QED BY <1>1, <1>2, <1>3, <1>4, <1>5

LEMMA StepType ==
  ASSUME TypeInv, NEW r \in Calcs, Step(r)
  PROVE  TypeInv'
  BY FlagType, CreateLotType, ConsumeLotType, FinishConsumptionType, PersistType, PlainStepType
     DEF Step, AcquireStep, ConsumeStep

LEMMA AbortType ==
  ASSUME TypeInv, NEW r \in Calcs, Abort(r)
  PROVE  TypeInv'
  <1>1. aborts' \in 0..MaxAborts /\ summary' \in [Years -> Summary \cup {Nil}]
    BY BoundAssumption DEF Abort, TypeInv, TypeOK
  <1> QED BY <1>1, FinishType DEF Abort

\* Other parts of the program only change which trades count.
LEMMA WorldType ==
  ASSUME TypeInv, UNCHANGED <<trades, lots, flags, summary, pc, calc, runs, aborts>>,
         stored' \in [Indices -> {"absent", "counted", "internal"}]
  PROVE  TypeInv'
  <1>1. Indices' = Indices /\ LotId' = LotId /\ Calculation' = Calculation
    BY DEF Indices, LotId, Calculation, WorkingLot
  <1> QED BY <1>1 DEF TypeInv, TypeOK, Running, InLoop

LEMMA IngestType ==
  ASSUME TypeInv, NEW i \in Indices, NEW j \in Indices, Ingest(i) \/ PairTransfer(i, j)
  PROVE  TypeInv'
  BY WorldType DEF Ingest, PairTransfer, TypeInv, TypeOK

LEMMA TypeInit == Init => TypeInv
  BY BoundAssumption DEF Init, TypeInv, TypeOK, Steps, Running, InTrade

LEMMA TypeStep == TypeInv /\ [Next]_vars => TypeInv'
  <1> SUFFICES ASSUME TypeInv, [Next]_vars PROVE TypeInv'
    OBVIOUS
  <1>1. CASE Next
    BY <1>1, BeginType, StepType, AbortType, IngestType DEF Next
  <1>2. CASE UNCHANGED vars
    BY <1>2, WorldType DEF vars, TypeInv, TypeOK
  <1> QED BY <1>1, <1>2

\* Every variable keeps its type: quantities left in lots, gains and losses
\* never go below zero, whatever the histories and however calculations overlap.
THEOREM TypeCorrect == Spec => []TypeOK
  <1>1. TypeInv => TypeOK
    BY DEF TypeInv
  <1> QED BY <1>1, TypeInit, TypeStep, PTL DEF Spec

----------------------------------------------------------------------------
\* The book in memory and the rows in the table

\* The rows and the book c of one calculation: the open lots of an asset are
\* lots of distinct trades of that asset that the loop has passed, each with
\* something left, and the rows of the run agree with them.
LotsOpen(h, c) ==
  \A a \in Assets : \A k \in DOMAIN c.book[a] :
    /\ h[c.book[a][k].trade].asset = a
    /\ c.book[a][k].left > 0
    /\ \A j \in DOMAIN c.book[a] : c.book[a][j].trade = c.book[a][k].trade => j = k
Passed(c, i) == \E k \in 1..(c.at - 1) : k <= Len(c.snapshot) /\ c.snapshot[k] = i
LotsPassed(c) ==
  \A a \in Assets : \A k \in DOMAIN c.book[a] : Passed(c, c.book[a][k].trade)
RowsPassed(c, table) == \A id \in DOMAIN table : id.run = c.run => Passed(c, id.trade)
OpenRows(c, table) ==
  \A id \in DOMAIN table : id.run = c.run =>
    \A a \in Assets : \A k \in DOMAIN c.book[a] :
      c.book[a][k].trade = id.trade => table[id].remaining = c.book[a][k].left
UsedUp(c, table) ==
  \A id \in DOMAIN table : (id.run = c.run /\ table[id].remaining # 0) =>
    \E a \in Assets : \E k \in DOMAIN c.book[a] : c.book[a][k].trade = id.trade
Distinct(c) == \A j, k \in DOMAIN c.snapshot : j < k => c.snapshot[j] < c.snapshot[k]

Mirror(h, c, table) ==
  /\ Distinct(c) /\ LotsOpen(h, c) /\ LotsPassed(c)
  /\ RowsPassed(c, table) /\ OpenRows(c, table) /\ UsedUp(c, table)

\* Runs are numbered apart, and no row is of a run still to come.
RunsApart ==
  /\ \A r \in Running : calc[r].run <= runs
  /\ \A r, q \in Running : calc[r].run = calc[q].run => r = q
  /\ \A id \in DOMAIN lots : id.run <= runs

BookInv == RunsApart /\ \A r \in Running : Mirror(trades, calc[r], lots)

LEMMA BookImplies == TypeInv /\ BookInv => RowsFollowBook
  <1> SUFFICES ASSUME TypeInv, BookInv, NEW r \in Running, NEW id \in RowsOf(r)
               PROVE  IF lots[id].remaining = 0
                        THEN \A a \in Assets : \A k \in DOMAIN calc[r].book[a] :
                               calc[r].book[a][k].trade # id.trade
                        ELSE \E a \in Assets : \E k \in DOMAIN calc[r].book[a] :
                               /\ calc[r].book[a][k].trade = id.trade
                               /\ calc[r].book[a][k].left = lots[id].remaining
    BY DEF RowsFollowBook
  <1>1. id \in DOMAIN lots /\ id.run = calc[r].run
    BY DEF RowsOf
  <1>2. /\ LotsOpen(trades, calc[r]) /\ OpenRows(calc[r], lots) /\ UsedUp(calc[r], lots)
    BY DEF BookInv, Mirror
  <1>3. CASE lots[id].remaining = 0
    BY <1>1, <1>2, <1>3 DEF LotsOpen, OpenRows
  <1>4. CASE lots[id].remaining # 0
    BY <1>1, <1>2, <1>4 DEF UsedUp, OpenRows
  <1> QED BY <1>3, <1>4

\* The loop counter moves on and other locals change: the book still agrees.
LEMMA MirrorAdvance ==
  ASSUME NEW h, NEW c, NEW d, NEW table, Mirror(h, c, table),
         d.book = c.book, d.run = c.run, d.snapshot = c.snapshot,
         c.at \in Nat, d.at \in Nat, c.at <= d.at
  PROVE  Mirror(h, d, table)
  <1>1. \A i : Passed(c, i) => Passed(d, i)
    BY DEF Passed
  <1> QED BY <1>1 DEF Mirror, Distinct, LotsOpen, LotsPassed, RowsPassed, OpenRows, UsedUp

\* A row of another run appears or changes, or all rows disappear.
LEMMA MirrorOther ==
  ASSUME NEW h, NEW c, NEW table, NEW other, Mirror(h, c, table),
         \A id \in DOMAIN other : id.run = c.run => id \in DOMAIN table /\ other[id] = table[id]
  PROVE  Mirror(h, c, other)
  BY DEF Mirror, RowsPassed, OpenRows, UsedUp

\* The trade at hand is none of those passed.
LEMMA CurrentNotPassed ==
  ASSUME NEW c \in Calculation, Distinct(c), InLoop(c)
  PROVE  ~ Passed(c, c.snapshot[c.at])
  <1>1. c.at \in DOMAIN c.snapshot /\ c.at \in Nat /\ Len(c.snapshot) \in Nat
    BY DEF Calculation, InLoop
  <1>2. \A k \in DOMAIN c.snapshot : c.snapshot[k] \in Nat
    BY DEF Calculation, Indices
  <1>3. ASSUME NEW k \in 1..(c.at - 1), k <= Len(c.snapshot) PROVE c.snapshot[k] # c.snapshot[c.at]
    <2>1. k \in DOMAIN c.snapshot /\ k < c.at
      BY <1>1, <1>3 DEF Calculation
    <2> QED BY <1>1, <1>2, <2>1 DEF Distinct
  <1> QED BY <1>3 DEF Passed

\* Two rows of a run for the same trade are the same row.
LEMMA RowName ==
  ASSUME NEW id \in LotId, NEW n, NEW i, id.run = n, id.trade = i
  PROVE  id = [run |-> n, trade |-> i]
  BY DEF LotId

\* A lot is appended to the book and its row inserted.
LEMMA MirrorNewLot ==
  ASSUME NEW h, NEW c \in Calculation, NEW table, Mirror(h, c, table), InLoop(c),
         DOMAIN table \subseteq LotId,
         NEW w \in WorkingLot, w.trade = c.snapshot[c.at], w.left > 0,
         NEW a \in Assets, h[w.trade].asset = a,
         NEW row, row.remaining = w.left,
         NEW d, d.book = [c.book EXCEPT ![a] = Append(@, w)],
         d.run = c.run, d.snapshot = c.snapshot, d.at = c.at + 1
  PROVE  Mirror(h, d, Insert(table, [run |-> c.run, trade |-> w.trade], row))
  <1> DEFINE new == [run |-> c.run, trade |-> w.trade]
             other == Insert(table, new, row)
  <1>1. c.at \in Nat \ {0} /\ c.at <= Len(c.snapshot) /\ c.book[a] \in Seq(WorkingLot)
    BY DEF Calculation, InLoop
  <1>2. ~ Passed(c, w.trade) /\ Passed(d, w.trade) /\ \A i : Passed(c, i) => Passed(d, i)
    <2>1. ~ Passed(c, w.trade)
      BY CurrentNotPassed DEF Mirror
    <2>2. Passed(d, w.trade)
      BY <1>1 DEF Passed
    <2>3. \A i : Passed(c, i) => Passed(d, i)
      BY <1>1 DEF Passed
    <2> QED BY <2>1, <2>2, <2>3
  <1>3. \A b \in Assets : \A k \in DOMAIN d.book[b] :
          \/ k \in DOMAIN c.book[b] /\ d.book[b][k] = c.book[b][k]
          \/ b = a /\ k = Len(c.book[a]) + 1 /\ d.book[b][k] = w
    BY <1>1 DEF Calculation
  <1>4. /\ \A b \in Assets : \A k \in DOMAIN c.book[b] :
             k \in DOMAIN d.book[b] /\ d.book[b][k] = c.book[b][k]
        /\ \E k \in DOMAIN d.book[a] : d.book[a][k] = w
    <2>1. \A b \in Assets : \A k \in DOMAIN c.book[b] :
             k \in DOMAIN d.book[b] /\ d.book[b][k] = c.book[b][k]
      BY <1>1 DEF Calculation
    <2>2. Len(c.book[a]) + 1 \in DOMAIN d.book[a] /\ d.book[a][Len(c.book[a]) + 1] = w
      BY <1>1 DEF Calculation
    <2> QED BY <2>1, <2>2
  <1>5. \A id \in DOMAIN other : IF id = new THEN other[id] = row
                                ELSE id \in DOMAIN table /\ other[id] = table[id]
    BY DEF Insert
  <1>6. \A id \in DOMAIN table : id.run = c.run => id # new /\ id.trade # w.trade
    BY <1>2 DEF Mirror, RowsPassed
  <1>7. \A b \in Assets : \A k \in DOMAIN c.book[b] : c.book[b][k].trade # w.trade
    BY <1>2 DEF Mirror, LotsPassed
  <1>8. Distinct(d)
    BY DEF Mirror, Distinct
  <1>9. LotsOpen(h, d)
    BY <1>3, <1>7 DEF Mirror, LotsOpen
  <1>10. LotsPassed(d)
    BY <1>2, <1>3 DEF Mirror, LotsPassed
  <1>11. RowsPassed(d, other)
    BY <1>2, <1>5 DEF Mirror, RowsPassed
  <1>12. OpenRows(d, other)
    BY <1>3, <1>5, <1>6, <1>7 DEF Mirror, OpenRows
  <1>13. UsedUp(d, other)
    BY <1>4, <1>5 DEF Mirror, UsedUp
  <1> QED BY <1>8, <1>9, <1>10, <1>11, <1>12, <1>13 DEF Mirror

\* Coins are taken from the oldest lot of an asset and its row is updated.
LEMMA MirrorTake ==
  ASSUME NEW h, NEW c \in Calculation, NEW table, Mirror(h, c, table),
         DOMAIN table \subseteq LotId,
         NEW a \in Assets, c.book[a] # <<>>,
         NEW n \in Nat, n <= c.book[a][1].left,
         NEW row, row.remaining = c.book[a][1].left - n,
         NEW d, d.book = [c.book EXCEPT ![a] = Shortened(@, n)],
         d.run = c.run, d.snapshot = c.snapshot, d.at = c.at
  PROVE  Mirror(h, d, [table EXCEPT ![[run |-> c.run, trade |-> c.book[a][1].trade]] = row])
  <1> DEFINE first == c.book[a][1]
             id0 == [run |-> c.run, trade |-> first.trade]
             other == [table EXCEPT ![id0] = row]
  <1>1. c.book[a] \in Seq(WorkingLot) /\ first \in WorkingLot /\ 1 \in DOMAIN c.book[a]
    BY DEF Calculation
  <1>2. \A i : Passed(c, i) <=> Passed(d, i)
    BY DEF Passed
  <1>3. \A id \in DOMAIN other :
          id \in DOMAIN table /\ (IF id = id0 THEN other[id] = row ELSE other[id] = table[id])
    OBVIOUS
  <1>4. \A id \in DOMAIN table : (id.run = c.run /\ id.trade = first.trade) => id = id0
    BY RowName
  <1>5. \A b \in Assets : \A k \in DOMAIN c.book[b] :
          c.book[b][k].trade = first.trade => b = a /\ k = 1
    BY <1>1 DEF Mirror, LotsOpen
  <1>6. CASE first.left = n
    <2>1. \A b \in Assets : \A k \in DOMAIN d.book[b] :
            \E m \in DOMAIN c.book[b] : /\ d.book[b][k] = c.book[b][m]
                                       /\ m = IF b = a THEN k + 1 ELSE k
      BY <1>1, <1>6 DEF Shortened, Calculation
    <2>2. \A b \in Assets : \A m \in DOMAIN c.book[b] :
            \/ b = a /\ m = 1
            \/ \E k \in DOMAIN d.book[b] : d.book[b][k] = c.book[b][m]
      <3> SUFFICES ASSUME NEW b \in Assets, NEW m \in DOMAIN c.book[b], ~ (b = a /\ m = 1)
                   PROVE  \E k \in DOMAIN d.book[b] : d.book[b][k] = c.book[b][m]
        OBVIOUS
      <3>1. CASE b # a
        BY <3>1 DEF Calculation
      <3>2. CASE b = a
        <4>1. m - 1 \in DOMAIN Tail(c.book[a]) /\ Tail(c.book[a])[m - 1] = c.book[a][m]
          BY <1>1, <3>2
        <4>2. d.book[a] = Tail(c.book[a])
          BY <1>6 DEF Shortened, Calculation
        <4> QED BY <3>2, <4>1, <4>2
      <3> QED BY <3>1, <3>2
    <2>3. row.remaining = 0
      BY <1>1, <1>6 DEF WorkingLot
    <2>4. LotsOpen(h, d)
      <3> SUFFICES ASSUME NEW b \in Assets, NEW k \in DOMAIN d.book[b]
                   PROVE  /\ h[d.book[b][k].trade].asset = b
                          /\ d.book[b][k].left > 0
                          /\ \A j \in DOMAIN d.book[b] :
                               d.book[b][j].trade = d.book[b][k].trade => j = k
        BY DEF LotsOpen
      <3>1. \A j \in DOMAIN d.book[b] : j \in Nat
        BY <1>1, <1>6 DEF Shortened, Calculation
      <3>2. PICK m \in DOMAIN c.book[b] : /\ d.book[b][k] = c.book[b][m]
                                         /\ m = IF b = a THEN k + 1 ELSE k
        BY <2>1
      <3>3. h[d.book[b][k].trade].asset = b /\ d.book[b][k].left > 0
        BY <3>2 DEF Mirror, LotsOpen
      <3>4. ASSUME NEW j \in DOMAIN d.book[b], d.book[b][j].trade = d.book[b][k].trade
            PROVE  j = k
        <4>1. PICK l \in DOMAIN c.book[b] : /\ d.book[b][j] = c.book[b][l]
                                           /\ l = IF b = a THEN j + 1 ELSE j
          BY <2>1
        <4>2. l = m
          BY <3>2, <3>4, <4>1 DEF Mirror, LotsOpen
        <4> QED BY <3>1, <3>2, <4>1, <4>2
      <3> QED BY <3>3, <3>4
    <2>5. LotsPassed(d)
      BY <1>2, <2>1 DEF Mirror, LotsPassed
    <2>6. RowsPassed(d, other)
      BY <1>2, <1>3 DEF Mirror, RowsPassed
    <2>7. \A b \in Assets : \A k \in DOMAIN d.book[b] : d.book[b][k].trade # first.trade
      <3> SUFFICES ASSUME NEW b \in Assets, NEW k \in DOMAIN d.book[b],
                          d.book[b][k].trade = first.trade
                   PROVE  FALSE
        OBVIOUS
      <3>1. k \in Nat \ {0}
        BY <1>1, <1>6 DEF Shortened, Calculation
      <3> QED BY <1>5, <2>1, <3>1
    <2>8. OpenRows(d, other)
      BY <1>3, <2>1, <2>7 DEF Mirror, OpenRows
    <2>9. UsedUp(d, other)
      <3> SUFFICES ASSUME NEW id \in DOMAIN other, id.run = d.run, other[id].remaining # 0
                   PROVE  \E b \in Assets : \E k \in DOMAIN d.book[b] : d.book[b][k].trade = id.trade
        BY DEF UsedUp
      <3>1. id # id0 /\ id \in DOMAIN table /\ other[id] = table[id]
        BY <1>3, <2>3
      <3>2. PICK b \in Assets : \E m \in DOMAIN c.book[b] : c.book[b][m].trade = id.trade
        BY <3>1 DEF Mirror, UsedUp
      <3>3. PICK m \in DOMAIN c.book[b] : c.book[b][m].trade = id.trade
        BY <3>2
      <3>4. ~ (b = a /\ m = 1)
        BY <1>4, <3>1, <3>3
      <3> QED BY <2>2, <3>3, <3>4
    <2> QED BY <2>4, <2>5, <2>6, <2>8, <2>9 DEF Mirror, Distinct
  <1>7. CASE first.left # n
    <2>1. PICK rest \in Nat : rest = first.left - n /\ rest > 0
      BY <1>1, <1>7 DEF WorkingLot
    <2>2. PICK e \in WorkingLot : /\ e.trade = first.trade /\ e.left = rest
                                 /\ d.book[a] = [c.book[a] EXCEPT ![1] = e]
      <3>1. [first EXCEPT !.left = rest] \in WorkingLot
        BY <1>1 DEF WorkingLot
      <3>2. d.book[a] = [c.book[a] EXCEPT ![1] = [first EXCEPT !.left = rest]]
        BY <1>1, <1>7, <2>1 DEF Shortened, Calculation
      <3>3. /\ [first EXCEPT !.left = rest].trade = first.trade
            /\ [first EXCEPT !.left = rest].left = rest
        BY <1>1 DEF WorkingLot
      <3> QED BY <3>1, <3>2, <3>3
    <2>3. \A b \in Assets : /\ DOMAIN d.book[b] = DOMAIN c.book[b]
                            /\ \A k \in DOMAIN c.book[b] :
                                 /\ d.book[b][k].trade = c.book[b][k].trade
                                 /\ d.book[b][k].left = IF b = a /\ k = 1 THEN rest
                                                        ELSE c.book[b][k].left
      <3> SUFFICES ASSUME NEW b \in Assets
                   PROVE  /\ DOMAIN d.book[b] = DOMAIN c.book[b]
                          /\ \A k \in DOMAIN c.book[b] :
                               /\ d.book[b][k].trade = c.book[b][k].trade
                               /\ d.book[b][k].left = IF b = a /\ k = 1 THEN rest
                                                      ELSE c.book[b][k].left
        OBVIOUS
      <3>1. CASE b # a
        BY <3>1 DEF Calculation
      <3>2. CASE b = a
        BY <1>1, <2>2, <3>2
      <3> QED BY <3>1, <3>2
    <2>4. LotsOpen(h, d)
      BY <2>1, <2>3 DEF Mirror, LotsOpen
    <2>5. LotsPassed(d)
      BY <1>2, <2>3 DEF Mirror, LotsPassed
    <2>6. RowsPassed(d, other)
      BY <1>2, <1>3 DEF Mirror, RowsPassed
    <2>7. OpenRows(d, other)
      <3> SUFFICES ASSUME NEW id \in DOMAIN other, id.run = d.run, NEW b \in Assets,
                          NEW k \in DOMAIN d.book[b], d.book[b][k].trade = id.trade
                   PROVE  other[id].remaining = d.book[b][k].left
        BY DEF OpenRows
      <3>1. CASE b = a /\ k = 1
        BY <1>3, <1>4, <2>1, <2>3, <3>1
      <3>2. CASE ~ (b = a /\ k = 1)
        <4>1. id.trade # first.trade
          BY <1>5, <2>3, <3>2
        <4> QED BY <1>3, <2>3, <3>2, <4>1 DEF Mirror, OpenRows
      <3> QED BY <3>1, <3>2
    <2>8. UsedUp(d, other)
      <3> SUFFICES ASSUME NEW id \in DOMAIN other, id.run = d.run, other[id].remaining # 0
                   PROVE  \E b \in Assets : \E k \in DOMAIN d.book[b] : d.book[b][k].trade = id.trade
        BY DEF UsedUp
      <3>1. CASE id = id0
        BY <1>1, <2>3, <3>1
      <3>2. CASE id # id0
        BY <1>3, <2>3, <3>2 DEF Mirror, UsedUp
      <3> QED BY <3>1, <3>2
    <2> QED BY <2>4, <2>5, <2>6, <2>7, <2>8 DEF Mirror, Distinct
  <1> QED BY <1>6, <1>7

\* A calculation that goes on: its own book agrees with the rows, and it touches
\* rows of its own run only.
LEMMA MoveBook ==
  ASSUME TypeInv, BookInv, NEW r \in Running, NEW s, s # "idle", NEW c, Goto(r, s, c),
         c.run = calc[r].run, UNCHANGED <<world, runs>>,
         Mirror(trades, c, lots'),
         \A id \in DOMAIN lots' : id.run # c.run => id \in DOMAIN lots /\ lots'[id] = lots[id]
  PROVE  BookInv'
  <1>1. r \in Calcs /\ Running' = Running
    BY DEF Goto, Running, TypeInv, TypeOK
  <1>2. \A q \in Running : calc'[q] = IF q = r THEN c ELSE calc[q]
    BY <1>1 DEF Goto, Running, TypeInv, TypeOK
  <1>3. RunsApart'
    BY <1>1, <1>2 DEF BookInv, RunsApart
  <1>4. ASSUME NEW q \in Running PROVE Mirror(trades, calc'[q], lots')
    <2>1. CASE q = r
      BY <1>2, <2>1
    <2>2. CASE q # r
      <3>1. calc'[q] = calc[q] /\ Mirror(trades, calc[q], lots) /\ calc[q].run # c.run
        BY <1>2, <2>2 DEF BookInv, RunsApart
      <3> QED BY <3>1, MirrorOther
    <2> QED BY <2>1, <2>2
  <1> QED BY <1>1, <1>3, <1>4 DEF BookInv, world

LEMMA FinishBook ==
  ASSUME TypeInv, BookInv, NEW r \in Calcs, Finish(r), UNCHANGED <<world, lots, runs>>
  PROVE  BookInv'
  <1>1. \A q \in Running' : q \in Running /\ calc'[q] = calc[q]
    BY DEF Finish, Goto, Running, TypeInv, TypeOK
  <1> QED BY <1>1 DEF BookInv, RunsApart, world

\* Moving on without touching the table or the book.
LEMMA PlainBook ==
  ASSUME TypeInv, BookInv, NEW r \in Running, NEW s, s # "idle", NEW c, Goto(r, s, c),
         UNCHANGED <<world, lots, runs>>,
         c.book = calc[r].book, c.run = calc[r].run, c.snapshot = calc[r].snapshot,
         c.at \in Nat, calc[r].at <= c.at
  PROVE  BookInv'
  <1>1. calc[r].at \in Nat
    BY DEF TypeInv, TypeOK, Calculation
  <1>2. Mirror(trades, c, lots)
    BY <1>1, MirrorAdvance DEF BookInv
  <1>3. Mirror(trades, c, lots')
    BY <1>2
  <1> QED BY <1>3, MoveBook

LEMMA AdvanceBook ==
  ASSUME TypeInv, BookInv, NEW r \in Running, NEW c \in Calculation, NextTrade(r, c),
         UNCHANGED <<world, lots, runs>>,
         c.book = calc[r].book, c.run = calc[r].run, c.snapshot = calc[r].snapshot,
         c.at = calc[r].at
  PROVE  BookInv'
  <1> DEFINE d == [c EXCEPT !.at = @ + 1]
  <1>1. /\ d.book = c.book /\ d.run = c.run /\ d.snapshot = c.snapshot
        /\ d.at = c.at + 1 /\ c.at \in Nat
    BY DEF Calculation
  <1>2. Goto(r, "next", d)
    BY DEF NextTrade
  <1> HIDE DEF d
  <1> QED BY <1>1, <1>2, PlainBook

LEMMA BeginBook ==
  ASSUME TypeInv, BookInv, NEW r \in Calcs, NEW y \in Years, BeginCalculation(r, y)
  PROVE  BookInv'
  <1>1. PICK order \in Ordered(Counted) :
          calc' = [q \in Calcs |->
            IF q = r THEN NewCalculation(y, order)
            ELSE IF q \in Running THEN [calc[q] EXCEPT !.alone = FALSE]
            ELSE calc[q]]
    BY DEF BeginCalculation
  <1> DEFINE new == NewCalculation(y, order)
  <1>2. /\ r \notin Running /\ Running' = Running \cup {r}
        /\ runs' = runs + 1 /\ runs \in Nat /\ UNCHANGED <<trades, lots>>
    BY BoundAssumption DEF BeginCalculation, Running, TypeInv, TypeOK, world
  <1>3. /\ calc'[r] = new
        /\ \A q \in Running : calc'[q] = [calc[q] EXCEPT !.alone = FALSE]
    BY <1>1, <1>2 DEF Running
  <1>4. \A q \in Running :
          /\ calc'[q].book = calc[q].book /\ calc'[q].run = calc[q].run
          /\ calc'[q].snapshot = calc[q].snapshot /\ calc'[q].at = calc[q].at
          /\ calc[q].at \in Nat
    <2> TAKE q \in Running
    <2>1. calc[q] \in Calculation /\ calc'[q] = [calc[q] EXCEPT !.alone = FALSE]
      BY <1>3 DEF TypeInv, TypeOK
    <2> QED BY <2>1 DEF Calculation
  <1>5. /\ new.run = runs + 1 /\ new.snapshot = order
        /\ \A a \in Assets : DOMAIN new.book[a] = {}
    BY DEF NewCalculation
  <1>6. \A q \in Running : calc[q].run \in Nat
    BY DEF TypeInv, TypeOK, Calculation
  <1>7. RunsApart'
    <2>1. \A q \in Running' : calc'[q].run <= runs'
      BY <1>2, <1>3, <1>4, <1>5, <1>6 DEF BookInv, RunsApart
    <2>2. \A p, q \in Running' : calc'[p].run = calc'[q].run => p = q
      BY <1>2, <1>3, <1>4, <1>5, <1>6 DEF BookInv, RunsApart
    <2>3. \A id \in DOMAIN lots : id.run \in Nat /\ id.run <= runs
      BY DEF BookInv, RunsApart, TypeInv, TypeOK, LotId
    <2> QED BY <1>2, <2>1, <2>2, <2>3 DEF RunsApart
  <1>8. Mirror(trades, new, lots)
    <2>1. Distinct(new)
      BY <1>5 DEF Distinct, Ordered
    <2>2. \A id \in DOMAIN lots : id.run # new.run
      BY <1>2, <1>5 DEF BookInv, RunsApart, TypeInv, TypeOK, LotId
    <2> HIDE DEF new
    <2> QED BY <1>5, <2>1, <2>2 DEF Mirror, LotsOpen, LotsPassed, RowsPassed, OpenRows, UsedUp
  <1>9. \A q \in Running : Mirror(trades, calc'[q], lots)
    BY <1>4, MirrorAdvance DEF BookInv
  <1> HIDE DEF new
  <1> QED BY <1>2, <1>3, <1>7, <1>8, <1>9 DEF BookInv

LEMMA DeleteBook ==
  ASSUME TypeInv, BookInv, NEW r \in Calcs, DeleteLots(r)
  PROVE  BookInv'
  <1>1. r \in Running /\ Goto(r, "next", calc[r]) /\ DOMAIN lots' = {}
        /\ UNCHANGED <<world, runs>>
    BY DEF DeleteLots, Running
  <1>2. Mirror(trades, calc[r], lots')
    BY <1>1, MirrorOther DEF BookInv
  <1> QED BY <1>1, <1>2, MoveBook

LEMMA CreateBook ==
  ASSUME TypeInv, BookInv, NEW r \in Calcs, CreateLot(r)
  PROVE  BookInv'
  <1> DEFINE c == calc[r]
             w == Acquisition(r)
             a == Tx(r).asset
             row == [original |-> Tx(r).quantity, remaining |-> Tx(r).quantity,
                     fullyConsumed |-> FALSE]
             with == WithIncome(WithLot(r), Tx(r))
             d == [with EXCEPT !.at = @ + 1]
  <1>1. /\ c \in Calculation /\ InLoop(c) /\ Current(r) \in Indices /\ Tx(r) \in Trade
        /\ r \in Running
    BY CurrentTrade DEF CreateLot, InTrade, Running
  <1>2. /\ w \in WorkingLot /\ w.trade = c.snapshot[c.at] /\ w.left = Tx(r).quantity
        /\ w.left > 0 /\ a \in Assets /\ trades[w.trade].asset = a
        /\ row.remaining = w.left
    <2>1. w \in WorkingLot
      BY CreateLotFacts
    <2>2. w.trade = Current(r) /\ w.left = Tx(r).quantity /\ row.remaining = Tx(r).quantity
      BY DEF Acquisition
    <2>3. Tx(r).quantity > 0 /\ a \in Assets
      BY <1>1 DEF Trade
    <2> QED BY <2>1, <2>2, <2>3 DEF Current, Tx
  <1>3. WithLot(r) = [c EXCEPT !.book[a] = Append(@, w)] /\ WithLot(r) \in Calculation
    <2>1. Append(c.book[a], w) \in Seq(WorkingLot)
      BY <1>1, <1>2 DEF Calculation
    <2> QED BY <1>1, <1>2, <2>1, QueueType DEF WithLot
  <1>4. /\ WithLot(r).book = [c.book EXCEPT ![a] = Append(@, w)]
        /\ WithLot(r).run = c.run /\ WithLot(r).snapshot = c.snapshot /\ WithLot(r).at = c.at
    BY <1>1, <1>3 DEF Calculation
  <1>5. /\ with \in Calculation /\ with.book = WithLot(r).book /\ with.run = c.run
        /\ with.snapshot = c.snapshot /\ with.at = c.at
    BY <1>1, <1>3, <1>4, IncomeType
  <1>6. /\ d.book = [c.book EXCEPT ![a] = Append(@, w)] /\ d.run = c.run
        /\ d.snapshot = c.snapshot /\ d.at = c.at + 1
    <2> HIDE DEF with, w, c, a
    <2> QED BY <1>4, <1>5 DEF Calculation
  <1>7. /\ lots' = Insert(lots, [run |-> c.run, trade |-> w.trade], row)
        /\ Goto(r, "next", d) /\ UNCHANGED <<world, runs>>
    BY CreateLotFacts DEF NewLotId, Acquisition, NextTrade, CreateLot
  <1>8. DOMAIN lots \subseteq LotId /\ Mirror(trades, c, lots)
    BY <1>1 DEF TypeInv, TypeOK, BookInv
  <1> HIDE DEF c, w, a, row, with, d
  <1>9. Mirror(trades, d, lots')
    BY <1>1, <1>2, <1>6, <1>7, <1>8, MirrorNewLot
  <1>10. \A id \in DOMAIN lots' : id.run # d.run => id \in DOMAIN lots /\ lots'[id] = lots[id]
    BY <1>6, <1>7 DEF Insert
  <1> QED BY <1>1, <1>6, <1>7, <1>9, <1>10, MoveBook DEF c

LEMMA ConsumeBook ==
  ASSUME TypeInv, BookInv, NEW r \in Calcs, ConsumeLot(r)
  PROVE  BookInv'
  <1> DEFINE c == calc[r]
             a == Tx(r).asset
             n == Taken(r)
             left == Head(Queue(r)).left - Taken(r)
             row == [lots[Oldest(r)] EXCEPT !.remaining = left, !.fullyConsumed = (left = 0)]
             d == [calc[r] EXCEPT
               !.book[Tx(r).asset] = Shortened(@, Taken(r)),
               !.owed = @ - Taken(r),
               !.cost = @ + Taken(r) * Head(Queue(r)).unit]
  <1>1. /\ c \in Calculation /\ Tx(r) \in Trade /\ r \in Running /\ CanTake(r)
    BY CurrentTrade DEF ConsumeLot, CanTake, InTrade, Running
  <1>2. /\ a \in Assets /\ c.book[a] \in Seq(WorkingLot) /\ c.book[a] # <<>>
        /\ Head(Queue(r)) = c.book[a][1] /\ Head(Queue(r)) \in WorkingLot
        /\ n \in Nat /\ n <= c.book[a][1].left /\ left = c.book[a][1].left - n
    <2>1. Queue(r) = c.book[a] /\ a \in Assets
      BY <1>1 DEF Queue, Trade
    <2>2. /\ Queue(r) \in Seq(WorkingLot) /\ Queue(r) # <<>> /\ Head(Queue(r)) \in WorkingLot
          /\ Taken(r) \in Nat /\ Taken(r) <= Head(Queue(r)).left
      BY <1>1, ConsumeFacts
    <2>3. Head(Queue(r)) = c.book[a][1]
      BY <2>1, <2>2
    <2> QED BY <2>1, <2>2, <2>3
  <1>3. /\ d.book = [c.book EXCEPT ![a] = Shortened(@, n)] /\ d.run = c.run
        /\ d.snapshot = c.snapshot /\ d.at = c.at
    BY <1>1 DEF Calculation
  <1>4. Oldest(r) = [run |-> c.run, trade |-> c.book[a][1].trade] /\ Oldest(r) \in DOMAIN lots
    BY <1>2 DEF Oldest, ConsumeLot
  <1>5. row.remaining = left
    BY <1>4 DEF TypeInv, TypeOK, LotRow
  <1>6. lots' = [lots EXCEPT ![Oldest(r)] = row] /\ Goto(r, "take", d) /\ UNCHANGED <<world, runs>>
    BY DEF ConsumeLot
  <1>7. DOMAIN lots \subseteq LotId /\ Mirror(trades, c, lots)
    BY <1>1 DEF TypeInv, TypeOK, BookInv
  <1> HIDE DEF c, a, n, left, row, d
  <1>8. Mirror(trades, d, lots')
    <2>1. row.remaining = c.book[a][1].left - n
      BY <1>2, <1>5
    <2>2. Mirror(trades, d, [lots EXCEPT ![[run |-> c.run, trade |-> c.book[a][1].trade]] = row])
      BY <1>1, <1>2, <1>3, <1>7, <2>1, MirrorTake
    <2> QED BY <1>4, <1>6, <2>2
  <1>9. \A id \in DOMAIN lots' : id.run # d.run => id \in DOMAIN lots /\ lots'[id] = lots[id]
    BY <1>3, <1>4, <1>6
  <1> QED BY <1>1, <1>3, <1>6, <1>8, <1>9, MoveBook DEF c

LEMMA FlagBook ==
  ASSUME TypeInv, BookInv, NEW r \in Calcs, FindFlag(r) \/ CreateFlag(r)
  PROVE  BookInv'
  <1>1. calc[r] \in Calculation /\ r \in Running /\ calc[r].at \in Nat
    BY CurrentTrade DEF FindFlag, CreateFlag, InTrade, Running, Calculation
  <1>2. UNCHANGED <<world, lots, runs>>
    BY DEF FindFlag, CreateFlag
  <1>3. CASE Goto(r, "lot:create", calc[r]) \/ Goto(r, "flag:create", calc[r])
    BY <1>1, <1>2, <1>3, PlainBook
  <1>4. CASE NextTrade(r, calc[r])
    BY <1>1, <1>2, <1>4, AdvanceBook
  <1> QED BY <1>3, <1>4 DEF FindFlag, CreateFlag, AfterFlag

LEMMA FinishConsumptionBook ==
  ASSUME TypeInv, BookInv, NEW r \in Calcs, FinishConsumption(r)
  PROVE  BookInv'
  <1>1. /\ calc[r] \in Calculation /\ r \in Running /\ calc[r].at \in Nat /\ Tx(r) \in Trade
    BY CurrentTrade DEF FinishConsumption, InTrade, Running, Calculation
  <1>2. UNCHANGED <<world, lots, runs>>
    BY DEF FinishConsumption
  <1>3. CASE NextTrade(r, calc[r])
    BY <1>1, <1>2, <1>3, AdvanceBook
  <1>4. CASE Goto(r, "flag:find", calc[r])
    BY <1>1, <1>2, <1>4, PlainBook
  <1>5. CASE Tx(r).unit # Nil /\ NextTrade(r, WithResult(calc[r], Tx(r)))
    BY <1>1, <1>2, <1>5, AdvanceBook, ResultType
  <1> QED BY <1>3, <1>4, <1>5 DEF FinishConsumption

LEMMA PlainStepBook ==
  ASSUME TypeInv, BookInv, NEW r \in Calcs,
         SkipTrade(r) \/ BeginAcquisition(r) \/ BeginConsumption(r)
  PROVE  BookInv'
  <1>1. /\ calc[r] \in Calculation /\ r \in Running /\ calc[r].at \in Nat
        /\ Tx(r).quantity \in Nat
    BY CurrentTrade DEF SkipTrade, BeginAcquisition, BeginConsumption, AtTrade, Running,
                        Calculation, Trade
  <1>2. CASE SkipTrade(r)
    BY <1>1, <1>2, AdvanceBook DEF SkipTrade
  <1>3. CASE BeginAcquisition(r)
    BY <1>1, <1>3, PlainBook DEF BeginAcquisition
  <1>4. CASE BeginConsumption(r)
    <2> DEFINE c == [calc[r] EXCEPT !.owed = Tx(r).quantity, !.cost = 0]
    <2>1. /\ c.book = calc[r].book /\ c.run = calc[r].run
          /\ c.snapshot = calc[r].snapshot /\ c.at = calc[r].at
      BY <1>1 DEF Calculation
    <2>2. Goto(r, "take", c) /\ UNCHANGED <<world, lots, runs>>
      BY <1>4 DEF BeginConsumption
    <2> HIDE DEF c
    <2> QED BY <1>1, <2>1, <2>2, PlainBook
  <1> QED BY <1>2, <1>3, <1>4

LEMMA StepBook ==
  ASSUME TypeInv, BookInv, NEW r \in Calcs, Step(r) \/ Abort(r)
  PROVE  BookInv'
  <1>1. CASE PersistSummary(r) \/ LoseLot(r) \/ Abort(r)
    BY <1>1, FinishBook DEF PersistSummary, LoseLot, Abort
  <1>2. CASE Step(r) /\ ~ PersistSummary(r) /\ ~ LoseLot(r)
    BY <1>2, DeleteBook, CreateBook, ConsumeBook, FlagBook, FinishConsumptionBook, PlainStepBook
       DEF Step, AcquireStep, ConsumeStep
  <1> QED BY <1>1, <1>2

LEMMA WorldBook ==
  ASSUME BookInv, UNCHANGED <<trades, lots, pc, calc, runs>>
  PROVE  BookInv'
  BY DEF BookInv, RunsApart, Running

LEMMA BookInit == Init => BookInv
  BY DEF Init, BookInv, RunsApart, Running

LEMMA BookStep == TypeInv /\ BookInv /\ [Next]_vars => BookInv'
  <1> SUFFICES ASSUME TypeInv, BookInv, [Next]_vars PROVE BookInv'
    OBVIOUS
  <1>1. CASE \E r \in Calcs, y \in Years : BeginCalculation(r, y)
    BY <1>1, BeginBook
  <1>2. CASE \E r \in Calcs : Step(r) \/ Abort(r)
    BY <1>2, StepBook
  <1>3. CASE (\E i \in Indices : Ingest(i)) \/ (\E i, j \in Indices : PairTransfer(i, j))
    BY <1>3, WorldBook DEF Ingest, PairTransfer
  <1>4. CASE UNCHANGED vars
    BY <1>4, WorldBook DEF vars
  <1> QED BY <1>1, <1>2, <1>3, <1>4 DEF Next

\* The rows of a calculation and its book in memory never disagree, although any
\* number of other calculations delete, create and update rows of the same table.
THEOREM RowsAlwaysFollowBook == Spec => []RowsFollowBook
  <1>1. Init => TypeInv /\ BookInv
    BY TypeInit, BookInit
  <1>2. (TypeInv /\ BookInv) /\ [Next]_vars => (TypeInv /\ BookInv)'
    BY TypeStep, BookStep
  <1>3. TypeInv /\ BookInv => RowsFollowBook
    BY BookImplies
  <1> QED BY <1>1, <1>2, <1>3, PTL DEF Spec

----------------------------------------------------------------------------
\* Coins acquired

Positions(h) == 1..Len(h)   \* Indices, of a history h

LEMMA TradeTypes ==
  ASSUME NEW h \in Seq(Trade), NEW i \in Positions(h)
  PROVE  /\ h[i] \in Trade /\ h[i].quantity \in Nat /\ h[i].quantity > 0
         /\ UnitCost(h[i]) \in Nat /\ i \in Nat /\ i > 0 /\ Len(h) \in Nat
         /\ h[i].unit # Nil => h[i].unit \in Nat
  <1>1. h[i] \in Trade /\ i \in Nat /\ i > 0 /\ Len(h) \in Nat
    BY DEF Positions
  <1> QED BY <1>1, UnitCostIsNat DEF Trade

Quantities(h, S, a) == [i \in Lots(h, S, a) |-> h[i].quantity]

LEMMA AcquiredType ==
  ASSUME NEW h \in Seq(Trade), NEW S \in SUBSET Positions(h), NEW a
  PROVE  Acquired(h, S, a) \in Nat /\ Summable(Quantities(h, S, a))
  <1>1. Len(h) \in Nat
    OBVIOUS
  <1>2. \A i \in Lots(h, S, a) : h[i].quantity \in Nat
    BY TradeTypes DEF Lots
  <1> QED BY <1>1, <1>2, SumIsNat DEF Acquired, SumOver, Quantities, Summable

\* More trades, more coins.
LEMMA AcquiredGrows ==
  ASSUME NEW h \in Seq(Trade), NEW S \in SUBSET Positions(h), NEW T \in SUBSET S, NEW a
  PROVE  Acquired(h, T, a) <= Acquired(h, S, a)
  <1> DEFINE f == Quantities(h, T, a)
             g == Quantities(h, S, a)
  <1>1. Summable(f) /\ Summable(g)
    BY AcquiredType
  <1>2. \A k \in Positions(h) : At(f, k) <= At(g, k)
    BY TradeTypes DEF Quantities, Lots, At
  <1>3. Len(h) \in Nat
    OBVIOUS
  <1> HIDE DEF f, g
  <1>4. SumTo(f, Len(h)) <= SumTo(g, Len(h))
    BY <1>1, <1>2, <1>3, SumGrows DEF Positions
  <1> QED BY <1>4 DEF Acquired, SumOver, f, g, Quantities

LEMMA AcquiredAdds ==
  ASSUME NEW h \in Seq(Trade), NEW S \in SUBSET Positions(h), NEW n \in Positions(h) \ S, NEW a
  PROVE  Acquired(h, S \cup {n}, a) =
           IF Acquires(h[n]) /\ h[n].asset = a
             THEN Acquired(h, S, a) + h[n].quantity ELSE Acquired(h, S, a)
  <1> DEFINE f == Quantities(h, S, a)
             g == Quantities(h, S \cup {n}, a)
  <1>1. Summable(f) /\ Summable(g)
    <2>1. S \cup {n} \in SUBSET Positions(h)
      OBVIOUS
    <2> QED BY <2>1, AcquiredType
  <1>2. \A k \in Positions(h) : k # n => At(g, k) = At(f, k)
    BY DEF Quantities, Lots, At
  <1>3. /\ At(f, n) = 0
        /\ At(g, n) = IF Acquires(h[n]) /\ h[n].asset = a THEN h[n].quantity ELSE 0
    BY DEF Quantities, Lots, At
  <1>4. Len(h) \in Nat /\ SumTo(f, Len(h)) \in Nat /\ h[n].quantity \in Nat
    BY AcquiredType, TradeTypes DEF Acquired, SumOver, Quantities
  <1> HIDE DEF f, g
  <1>5. SumTo(g, Len(h)) = SumTo(f, Len(h)) + At(g, n) - At(f, n)
    BY <1>1, <1>2, <1>4, SumDiffers DEF Positions
  <1>6. SumTo(g, Len(h)) = Acquired(h, S \cup {n}, a) /\ SumTo(f, Len(h)) = Acquired(h, S, a)
    BY DEF Acquired, SumOver, f, g, Quantities
  <1> QED BY <1>3, <1>4, <1>5, <1>6

\* The coins of lot i are numbered after those of the lots before it.
LEMMA LotEnds ==
  ASSUME NEW h \in Seq(Trade), NEW S \in SUBSET Positions(h), NEW a, NEW i \in Lots(h, S, a)
  PROVE  /\ Acquired(h, Before(S, i), a) + h[i].quantity <= Acquired(h, S, a)
         /\ Acquired(h, Before(S, i) \cup {i}, a) = Acquired(h, Before(S, i), a) + h[i].quantity
  <1>1. /\ Before(S, i) \in SUBSET Positions(h) /\ i \in Positions(h) \ Before(S, i)
        /\ Before(S, i) \cup {i} \subseteq S
        /\ Acquires(h[i]) /\ h[i].asset = a
    BY TradeTypes DEF Before, Lots
  <1>2. Acquired(h, Before(S, i) \cup {i}, a) = Acquired(h, Before(S, i), a) + h[i].quantity
    BY <1>1, AcquiredAdds
  <1> QED BY <1>1, <1>2, AcquiredGrows

LEMMA LotsFollow ==
  ASSUME NEW h \in Seq(Trade), NEW S \in SUBSET Positions(h), NEW a, NEW i \in Lots(h, S, a), NEW j \in Lots(h, S, a), j < i
  PROVE  Acquired(h, Before(S, j), a) + h[j].quantity <= Acquired(h, Before(S, i), a)
  <1>1. /\ Before(S, i) \in SUBSET Positions(h) /\ j \in Lots(h, Before(S, i), a)
        /\ Before(Before(S, i), j) = Before(S, j)
    <2>1. \A k \in S : k \in Nat
      BY TradeTypes
    <2>2. i \in S /\ j \in S
      BY DEF Lots
    <2> QED BY <2>1, <2>2 DEF Before, Lots
  <1> QED BY <1>1, LotEnds

\* The last lot ends with the last coin.
LEMMA LastLot ==
  ASSUME NEW h \in Seq(Trade), NEW S \in SUBSET Positions(h), NEW a
  PROVE  IF Lots(h, S, a) = {} THEN Acquired(h, S, a) = 0
         ELSE \E i \in Lots(h, S, a) :
                Acquired(h, S, a) = Acquired(h, Before(S, i), a) + h[i].quantity
  <1>0. Len(h) \in Nat
    OBVIOUS
  <1>1. CASE Lots(h, S, a) = {}
    <2>1. \A k : At(Quantities(h, S, a), k) = 0
      BY <1>1 DEF Quantities, At
    <2> QED BY <1>0, <1>1, <2>1, AcquiredType, SumEmpty DEF Acquired, SumOver, Quantities
  <1>2. CASE Lots(h, S, a) # {}
    <2> DEFINE T == {Len(h) - i : i \in Lots(h, S, a)}
    <2>1. \A i \in Lots(h, S, a) : i \in Nat /\ i \in S /\ i \in Positions(h) /\ Len(h) - i \in Nat
      BY <1>0, TradeTypes DEF Lots, Positions
    <2>2. T \in SUBSET Nat /\ T # {}
      BY <1>2, <2>1
    <2>3. PICK m \in T : \A k \in T : m <= k
      <3> HIDE DEF T
      <3> QED BY <2>2, LeastNumber
    <2>4. PICK i \in Lots(h, S, a) : m = Len(h) - i
      BY <2>3
    <2>5. \A j \in Lots(h, S, a) : j <= i
      <3> TAKE j \in Lots(h, S, a)
      <3>1. Len(h) - i <= Len(h) - j
        BY <2>3, <2>4
      <3> QED BY <1>0, <2>1, <3>1
    <2>6. Lots(h, Before(S, i) \cup {i}, a) = Lots(h, S, a)
      <3>1. \A j \in Lots(h, S, a) : j = i \/ j < i
        BY <2>1, <2>5
      <3>2. i \in S /\ Before(S, i) \subseteq S
        BY <2>1 DEF Before
      <3>3. \A j \in Lots(h, S, a) : j \in Before(S, i) \cup {i}
        BY <2>1, <3>1 DEF Before
      <3> QED BY <3>2, <3>3 DEF Lots
    <2>7. Acquired(h, Before(S, i) \cup {i}, a) = Acquired(h, S, a)
      BY <2>6 DEF Acquired
    <2> QED BY <1>2, <2>7, LotEnds
  <1> QED BY <1>1, <1>2

----------------------------------------------------------------------------
\* Coins gone

Takes(h, S, a, k) == k \in S /\ Consumes(h[k]) /\ h[k].asset = a
Taking(h, S, a, n) ==
  [k \in 1..n |-> [x \in Int |->
     IF Takes(h, S, a, k) THEN Smaller(x + h[k].quantity, Acquired(h, Before(S, k), a)) ELSE x]]

LEMMA TakingType ==
  ASSUME NEW h \in Seq(Trade), NEW S \in SUBSET Positions(h), NEW a, NEW n \in 0..Len(h)
  PROVE  Taking(h, S, a, n) \in [1..n -> [Int -> Int]]
  <1>1. ASSUME NEW k \in 1..n, NEW x \in Int, Takes(h, S, a, k)
        PROVE  Smaller(x + h[k].quantity, Acquired(h, Before(S, k), a)) \in Int
    <2>1. k \in Positions(h) /\ Before(S, k) \in SUBSET Positions(h)
      BY <1>1 DEF Takes, Before
    <2>2. h[k].quantity \in Nat /\ Acquired(h, Before(S, k), a) \in Nat
      BY <2>1, TradeTypes, AcquiredType
    <2> QED BY <2>2 DEF Smaller
  <1> QED BY <1>1 DEF Taking

LEMMA GoneRuns ==
  ASSUME NEW h \in Seq(Trade), NEW S \in SUBSET Positions(h), NEW a, NEW n \in 0..Len(h)
  PROVE  \E s : Runs(s, Taking(h, S, a, n), n) /\ Gone(h, S, a, n) = s[n]
  <1>0. Len(h) \in Nat /\ n \in Nat
    OBVIOUS
  <1>1. Taking(h, S, a, n) \in [1..n -> [Int -> Int]]
    BY TakingType
  <1> DEFINE Eq(s) ==
               s = [k \in 0..n |->
                      IF k = 0 THEN 0
                      ELSE IF k \in S /\ Consumes(h[k]) /\ h[k].asset = a
                        THEN Smaller(s[k - 1] + h[k].quantity, Acquired(h, Before(S, k), a))
                        ELSE s[k - 1]]
             gone == CHOOSE s : Eq(s)
  <1>2. \A s : Runs(s, Taking(h, S, a, n), n) => Eq(s)
    <2> TAKE s
    <2> HAVE Runs(s, Taking(h, S, a, n), n)
    <2>1. s \in [0..n -> Int] /\ s[0] = 0
      BY DEF Runs
    <2>2. ASSUME NEW k \in 0..n, k # 0
          PROVE  s[k] = IF k \in S /\ Consumes(h[k]) /\ h[k].asset = a
                        THEN Smaller(s[k - 1] + h[k].quantity, Acquired(h, Before(S, k), a))
                        ELSE s[k - 1]
      <3>1. k \in 1..n /\ k - 1 \in 0..n
        BY <1>0, <2>2
      <3>2. s[k - 1] \in Int /\ s[k] = Taking(h, S, a, n)[k][s[k - 1]]
        BY <2>1, <3>1 DEF Runs
      <3> QED BY <3>1, <3>2 DEF Taking, Takes
    <2> QED BY <2>1, <2>2
  <1>3. \E s : Eq(s)
    <2> HIDE DEF Eq
    <2> QED BY <1>0, <1>1, <1>2, RecursionExists
  <1>4. Eq(gone)
    <2> HIDE DEF Eq
    <2> QED BY <1>3
  <1>5. Gone(h, S, a, n) = gone[n]
    BY DEF Gone
  <1>6. /\ gone = [k \in 0..n |-> gone[k]] /\ gone[0] = 0
        /\ \A k \in 1..n : gone[k - 1] \in Int => gone[k] = Taking(h, S, a, n)[k][gone[k - 1]]
    <2> HIDE DEF gone
    <2>1. \A k \in 1..n : k \in 0..n /\ k # 0
      BY <1>0
    <2>2. gone = [k \in 0..n |-> gone[k]] /\ gone[0] = 0
      BY <1>0, <1>4
    <2>3. ASSUME NEW k \in 1..n, gone[k - 1] \in Int
          PROVE  gone[k] = Taking(h, S, a, n)[k][gone[k - 1]]
      BY <1>4, <2>1, <2>3 DEF Taking, Takes
    <2> QED BY <2>2, <2>3
  <1>7. Runs(gone, Taking(h, S, a, n), n)
    <2> HIDE DEF gone
    <2> QED BY <1>0, <1>1, <1>6, RunsChosen
  <1> HIDE DEF gone
  <1> QED BY <1>5, <1>7

\* The recursion, unfolded once.
LEMMA GoneStep ==
  ASSUME NEW h \in Seq(Trade), NEW S \in SUBSET Positions(h), NEW a, NEW n \in 0..Len(h)
  PROVE  /\ Gone(h, S, a, n) \in Int
         /\ Gone(h, S, a, 0) = 0
         /\ n > 0 => Gone(h, S, a, n) =
              IF Takes(h, S, a, n)
                THEN Smaller(Gone(h, S, a, n - 1) + h[n].quantity, Acquired(h, Before(S, n), a))
                ELSE Gone(h, S, a, n - 1)
  <1>0. Len(h) \in Nat /\ n \in Nat
    OBVIOUS
  <1>1. PICK s : Runs(s, Taking(h, S, a, n), n) /\ Gone(h, S, a, n) = s[n]
    BY GoneRuns
  <1>2. Gone(h, S, a, n) \in Int
    BY <1>0, <1>1 DEF Runs
  <1>3. Gone(h, S, a, 0) = 0
    <2>1. 0 \in 0..Len(h)
      BY <1>0
    <2>2. PICK t : Runs(t, Taking(h, S, a, 0), 0) /\ Gone(h, S, a, 0) = t[0]
      BY <2>1, GoneRuns
    <2> QED BY <2>2 DEF Runs
  <1>4. ASSUME n > 0
        PROVE  Gone(h, S, a, n) =
                 IF Takes(h, S, a, n)
                   THEN Smaller(Gone(h, S, a, n - 1) + h[n].quantity, Acquired(h, Before(S, n), a))
                   ELSE Gone(h, S, a, n - 1)
    <2>1. n - 1 \in 0..Len(h) /\ n - 1 \in 0..n /\ n \in 1..n
      BY <1>0, <1>4
    <2>2. PICK t : Runs(t, Taking(h, S, a, n - 1), n - 1) /\ Gone(h, S, a, n - 1) = t[n - 1]
      BY <2>1, GoneRuns
    <2>3. Runs(t, Taking(h, S, a, n), n - 1)
      <3>1. \A k \in 1..(n - 1) : k \in 1..n
        BY <1>0
      <3>2. \A k \in 1..(n - 1) : Taking(h, S, a, n)[k] = Taking(h, S, a, n - 1)[k]
        BY <3>1 DEF Taking
      <3> QED BY <2>2, <3>2 DEF Runs
    <2>4. s[n - 1] = t[n - 1]
      BY <1>0, <1>1, <2>1, <2>3, RunsAgree
    <2>5. s[n - 1] \in Int /\ s[n] = Taking(h, S, a, n)[n][s[n - 1]]
      BY <1>1, <2>1 DEF Runs
    <2> QED BY <1>1, <2>1, <2>2, <2>4, <2>5 DEF Taking
  <1> QED BY <1>2, <1>3, <1>4

\* No more coins go than were acquired before.
LEMMA GoneBounded ==
  ASSUME NEW h \in Seq(Trade), NEW S \in SUBSET Positions(h), NEW a, NEW n \in 0..Len(h)
  PROVE  /\ Gone(h, S, a, n) \in Nat
         /\ Gone(h, S, a, n) <= Acquired(h, Before(S, n + 1), a)
         /\ Gone(h, S, a, n) <= Acquired(h, S, a)
  <1>0. Len(h) \in Nat /\ n \in Nat
    OBVIOUS
  <1>1. \A k \in Nat : /\ Before(S, k) \in SUBSET Positions(h) /\ Before(S, k) \in SUBSET S
                       /\ Before(S, k) \in SUBSET Before(S, k + 1)
    BY TradeTypes DEF Before
  <1>2. \A k \in Nat : /\ Acquired(h, Before(S, k), a) \in Nat
                       /\ Acquired(h, Before(S, k), a) <= Acquired(h, Before(S, k + 1), a)
                       /\ Acquired(h, Before(S, k), a) <= Acquired(h, S, a)
    <2> TAKE k \in Nat
    <2>1. Before(S, k) \in SUBSET Positions(h) /\ Before(S, k + 1) \in SUBSET Positions(h)
      BY <1>1
    <2> QED BY <1>1, <2>1, AcquiredType, AcquiredGrows
  <1> DEFINE T == {k \in 0..Len(h) : /\ Gone(h, S, a, k) \in Nat
                                          /\ Gone(h, S, a, k) <= Acquired(h, Before(S, k + 1), a)}
  <1>3. 0 \in T
    <2>1. Gone(h, S, a, 0) = 0 /\ Acquired(h, Before(S, 0 + 1), a) \in Nat
      BY <1>0, <1>2, GoneStep
    <2> QED BY <1>0, <2>1
  <1>4. ASSUME NEW k \in 1..Len(h), k - 1 \in T PROVE k \in T
    <2>1. k \in Nat /\ k > 0 /\ k \in 0..Len(h) /\ (k - 1) + 1 = k
      BY <1>0
    <2>2. Gone(h, S, a, k - 1) \in Nat /\ Gone(h, S, a, k - 1) <= Acquired(h, Before(S, k), a)
      BY <1>4, <2>1
    <2>3. /\ Acquired(h, Before(S, k), a) \in Nat /\ Acquired(h, Before(S, k + 1), a) \in Nat
          /\ Acquired(h, Before(S, k), a) <= Acquired(h, Before(S, k + 1), a)
      BY <1>1, <1>2, <2>1, AcquiredType
    <2>4. CASE Takes(h, S, a, k)
      <3>1. h[k].quantity \in Nat
        BY <2>4, TradeTypes DEF Takes
      <3>2. Gone(h, S, a, k) = Smaller(Gone(h, S, a, k - 1) + h[k].quantity, Acquired(h, Before(S, k), a))
        BY <2>1, <2>4, GoneStep
      <3> QED BY <2>1, <2>2, <2>3, <3>1, <3>2 DEF Smaller
    <2>5. CASE ~ Takes(h, S, a, k)
      <3>1. Gone(h, S, a, k) = Gone(h, S, a, k - 1)
        BY <2>1, <2>5, GoneStep
      <3> QED BY <2>1, <2>2, <2>3, <3>1
    <2> QED BY <2>4, <2>5
  <1>5. \A k \in 0..Len(h) : k \in T
    <2> HIDE DEF T
    <2> QED BY <1>0, <1>3, <1>4, BoundedInduction
  <1>6. Gone(h, S, a, n) \in Nat /\ Gone(h, S, a, n) <= Acquired(h, Before(S, n + 1), a)
    BY <1>5
  <1>7. /\ Acquired(h, Before(S, n + 1), a) <= Acquired(h, S, a)
        /\ Acquired(h, Before(S, n + 1), a) \in Nat /\ Acquired(h, S, a) \in Nat
    <2>1. n + 1 \in Nat
      BY <1>0
    <2> QED BY <1>2, <2>1, AcquiredType
  <1> QED BY <1>6, <1>7

\* What is gone by position n depends on the trades up to n.
LEMMA GoneLocal ==
  ASSUME NEW h \in Seq(Trade), NEW S \in SUBSET Positions(h), NEW T \in SUBSET Positions(h), NEW a,
         NEW n \in 0..Len(h), \A k \in 1..n : k \in S <=> k \in T
  PROVE  Gone(h, S, a, n) = Gone(h, T, a, n)
  <1>0. Len(h) \in Nat /\ n \in Nat
    OBVIOUS
  <1> DEFINE Q == {k \in 0..n : Gone(h, S, a, k) = Gone(h, T, a, k)}
  <1>1. 0 \in Q
    BY <1>0, GoneStep
  <1>2. ASSUME NEW k \in 1..n, k - 1 \in Q PROVE k \in Q
    <2>1. k \in 0..Len(h) /\ k > 0 /\ k \in 0..n
      BY <1>0
    <2>2. Before(S, k) = Before(T, k)
      <3>1. \A j \in Positions(h) : j < k => j \in 1..n
        BY <1>0 DEF Positions
      <3> QED BY <3>1 DEF Before
    <2>3. Takes(h, S, a, k) <=> Takes(h, T, a, k)
      BY DEF Takes
    <2> QED BY <1>2, <2>1, <2>2, <2>3, GoneStep
  <1>3. \A k \in 0..n : k \in Q
    <2> HIDE DEF Q
    <2> QED BY <1>0, <1>1, <1>2, BoundedInduction
  <1> QED BY <1>0, <1>3

\* It stays where nothing is taken.
LEMMA GoneStays ==
  ASSUME NEW h \in Seq(Trade), NEW S \in SUBSET Positions(h), NEW a, NEW m \in 0..Len(h),
         \A k \in Positions(h) : k > m => ~ Takes(h, S, a, k)
  PROVE  Gone(h, S, a, Len(h)) = Gone(h, S, a, m)
  <1>0. Len(h) \in Nat /\ m \in Nat
    OBVIOUS
  <1> DEFINE Q == {k \in 0..Len(h) : k >= m => Gone(h, S, a, k) = Gone(h, S, a, m)}
  <1>1. 0 \in Q
    BY <1>0
  <1>2. ASSUME NEW k \in 1..Len(h), k - 1 \in Q PROVE k \in Q
    <2>1. k \in 0..Len(h) /\ k > 0 /\ k \in Positions(h) /\ k - 1 \in 0..Len(h)
      BY <1>0 DEF Positions
    <2>2. CASE k > m
      <3>1. k - 1 >= m /\ ~ Takes(h, S, a, k)
        BY <1>0, <2>1, <2>2
      <3> QED BY <1>2, <2>1, <3>1, GoneStep
    <2>3. CASE ~ (k > m)
      BY <1>0, <2>1, <2>3
    <2> QED BY <2>2, <2>3
  <1>3. \A k \in 0..Len(h) : k \in Q
    <2> HIDE DEF Q
    <2> QED BY <1>0, <1>1, <1>2, BoundedInduction
  <1> QED BY <1>0, <1>3

----------------------------------------------------------------------------
\* The queue that a number of coins gone implies

First(h, S, i) == Acquired(h, Before(S, i), h[i].asset)

LEMMA LotType ==
  ASSUME NEW h \in Seq(Trade), NEW S \in SUBSET Positions(h), NEW i \in Positions(h)
  PROVE  First(h, S, i) \in Nat /\ h[i].quantity \in Nat /\ h[i].quantity > 0
  <1>1. Before(S, i) \in SUBSET Positions(h)
    BY DEF Before
  <1> QED BY <1>1, AcquiredType, TradeTypes DEF First

LEMMA LeftIs ==
  ASSUME NEW h \in Seq(Trade), NEW S \in SUBSET Positions(h), NEW i \in Positions(h), NEW g \in Nat
  PROVE  /\ LeftWhen(h, S, i, g) \in Nat
         /\ LeftWhen(h, S, i, g) =
              IF g <= First(h, S, i) THEN h[i].quantity
              ELSE IF g < First(h, S, i) + h[i].quantity
                THEN First(h, S, i) + h[i].quantity - g ELSE 0
  <1>1. PICK f \in Nat : f = First(h, S, i)
    BY LotType
  <1>2. PICK q \in Nat : q = h[i].quantity /\ q > 0
    BY LotType
  <1>3. LeftWhen(h, S, i, g) = q - Positive(Smaller(f + q, g) - (IF f >= 0 THEN f ELSE 0))
    BY <1>1, <1>2 DEF LeftWhen, CoinsOfLot, First
  <1>4. f >= 0
    OBVIOUS
  <1>5. LeftWhen(h, S, i, g) = q - Positive(Smaller(f + q, g) - f)
    BY <1>3, <1>4
  <1> QED BY <1>1, <1>2, <1>5 DEF Positive, Smaller

\* Coins of a lot in a range, and what more coins of the lot add.
MoreCoins(h, S, i, from, g, x) ==
  /\ CoinsOfLot(h, S, i, from, g) \in Nat
  /\ CoinsOfLot(h, S, i, from, g + x) \in Nat
  /\ First(h, S, i) <= g /\ g + x <= First(h, S, i) + h[i].quantity =>
       CoinsOfLot(h, S, i, from, g + x) = CoinsOfLot(h, S, i, from, g) + x
  /\ First(h, S, i) + h[i].quantity <= g \/ g + x <= First(h, S, i) =>
       CoinsOfLot(h, S, i, from, g + x) = CoinsOfLot(h, S, i, from, g)
  /\ g = from => CoinsOfLot(h, S, i, from, g) = 0

LEMMA CoinsAre ==
  ASSUME NEW h \in Seq(Trade), NEW S \in SUBSET Positions(h), NEW i \in Positions(h),
         NEW from \in Nat, NEW g \in Nat, from <= g, NEW x \in Nat
  PROVE  MoreCoins(h, S, i, from, g, x)
  <1>1. PICK f \in Nat : f = First(h, S, i)
    BY LotType
  <1>2. PICK q \in Nat : q = h[i].quantity /\ q > 0
    BY LotType
  <1>3. \A to \in Nat : CoinsOfLot(h, S, i, from, to) =
                          Positive(Smaller(f + q, to) - (IF f >= from THEN f ELSE from))
    BY <1>1, <1>2 DEF CoinsOfLot, First
  <1>4. g + x \in Nat
    OBVIOUS
  <1> DEFINE low == IF f >= from THEN f ELSE from
             one == Positive(Smaller(f + q, g) - low)
             two == Positive(Smaller(f + q, g + x) - low)
  <1>5. /\ one \in Nat /\ two \in Nat
        /\ f <= g /\ g + x <= f + q => two = one + x
        /\ f + q <= g \/ g + x <= f => two = one
        /\ g = from => one = 0
    <2>1. low \in Nat /\ from <= low /\ f <= low /\ (f <= g => low <= g) /\ (low = f \/ low = from)
      BY <1>1
    <2> HIDE DEF low
    <2>2. one \in Nat /\ two \in Nat
      BY <1>1, <1>2, <2>1 DEF Positive, Smaller
    <2>3. f <= g /\ g + x <= f + q => two = one + x
      <3> SUFFICES ASSUME f <= g, g + x <= f + q PROVE two = one + x
        OBVIOUS
      <3>1. g <= f + q
        BY <1>1, <1>2
      <3>2. Smaller(f + q, g) = g /\ Smaller(f + q, g + x) = g + x
        BY <1>1, <1>2, <1>4, <3>1 DEF Smaller
      <3>3. Positive(g - low) = g - low /\ Positive(g + x - low) = g + x - low
        BY <1>1, <1>2, <1>4, <2>1 DEF Positive
      <3> QED BY <2>1, <3>2, <3>3
    <2>4. f + q <= g \/ g + x <= f => two = one
      BY <1>1, <1>2, <2>1 DEF Positive, Smaller
    <2>5. g = from => one = 0
      BY <1>1, <1>2, <2>1 DEF Positive, Smaller
    <2> QED BY <2>2, <2>3, <2>4, <2>5
  <1>6. CoinsOfLot(h, S, i, from, g) = one /\ CoinsOfLot(h, S, i, from, g + x) = two
    BY <1>3, <1>4
  <1> HIDE DEF one, two
  <1> QED BY <1>1, <1>2, <1>5, <1>6 DEF MoreCoins

QueueIs(h, S, a, queue, g) ==
  /\ \A k \in DOMAIN queue :
       /\ queue[k].trade \in Lots(h, S, a)
       /\ queue[k].left = LeftWhen(h, S, queue[k].trade, g) /\ queue[k].left > 0
       /\ queue[k].unit = UnitCost(h[queue[k].trade])
  /\ \A j, k \in DOMAIN queue : j < k => queue[j].trade < queue[k].trade
  /\ \A i \in Lots(h, S, a) : LeftWhen(h, S, i, g) > 0 => \E k \in DOMAIN queue : queue[k].trade = i

\* An empty queue: all coins are gone.
LEMMA QueueEmpty ==
  ASSUME NEW h \in Seq(Trade), NEW S \in SUBSET Positions(h), NEW a, NEW g \in Nat, QueueIs(h, S, a, <<>>, g)
  PROVE  Acquired(h, S, a) <= g
  <1>1. \A i \in Lots(h, S, a) : LeftWhen(h, S, i, g) = 0
    <2> TAKE i \in Lots(h, S, a)
    <2>1. i \in Positions(h)
      BY DEF Lots
    <2>2. LeftWhen(h, S, i, g) \in Nat /\ ~ (LeftWhen(h, S, i, g) > 0)
      BY <2>1, LeftIs DEF QueueIs
    <2> QED BY <2>2
  <1>2. CASE Lots(h, S, a) = {}
    BY <1>2, LastLot
  <1>3. CASE Lots(h, S, a) # {}
    <2>1. PICK i \in Lots(h, S, a) : Acquired(h, S, a) = Acquired(h, Before(S, i), a) + h[i].quantity
      BY <1>3, LastLot
    <2>2. i \in Positions(h) /\ h[i].asset = a
      BY DEF Lots
    <2>3. Acquired(h, S, a) = First(h, S, i) + h[i].quantity
      BY <2>1, <2>2 DEF First
    <2> QED BY <1>1, <2>2, <2>3, LotType, LeftIs
  <1> QED BY <1>2, <1>3

\* The first of the queue is the lot that the next coins are of.
LEMMA QueueHead ==
  ASSUME NEW h \in Seq(Trade), NEW S \in SUBSET Positions(h), NEW a, NEW g \in Nat,
         NEW queue \in Seq(WorkingLot), queue # <<>>, QueueIs(h, S, a, queue, g)
  PROVE  LET i == queue[1].trade
         IN /\ i \in Lots(h, S, a) /\ First(h, S, i) <= g
            /\ queue[1].left = First(h, S, i) + h[i].quantity - g
            /\ \A j \in Lots(h, S, a) :
                 /\ j < i => First(h, S, j) + h[j].quantity <= g
                 /\ j > i => First(h, S, i) + h[i].quantity <= First(h, S, j)
  <1> DEFINE i == queue[1].trade
  <1>1. /\ 1 \in DOMAIN queue /\ i \in Lots(h, S, a) /\ i \in Positions(h) /\ i \in Nat
        /\ h[i].asset = a /\ queue[1].left = LeftWhen(h, S, i, g) /\ queue[1].left > 0
    <2>1. 1 \in DOMAIN queue
      OBVIOUS
    <2>2. i \in Lots(h, S, a) /\ queue[1].left = LeftWhen(h, S, i, g) /\ queue[1].left > 0
      BY <2>1 DEF QueueIs
    <2> QED BY <2>1, <2>2, TradeTypes DEF Lots
  <1>2. \A j \in Lots(h, S, a) : j \in Positions(h) /\ j \in Nat /\ h[j].asset = a
    BY TradeTypes DEF Lots
  <1>3. ASSUME NEW j \in Lots(h, S, a), j < i PROVE First(h, S, j) + h[j].quantity <= g
    <2>1. ~ \E k \in DOMAIN queue : queue[k].trade = j
      <3> SUFFICES ASSUME NEW k \in DOMAIN queue, queue[k].trade = j PROVE FALSE
        OBVIOUS
      <3>1. k = 1 \/ 1 < k
        OBVIOUS
      <3>2. i < j \/ i = j
        BY <1>1, <3>1 DEF QueueIs
      <3> QED BY <1>1, <1>2, <1>3, <3>2
    <2>2. ~ (LeftWhen(h, S, j, g) > 0)
      BY <2>1 DEF QueueIs
    <2> QED BY <1>2, <2>2, LotType, LeftIs
  <1>4. ASSUME NEW j \in Lots(h, S, a), j > i
        PROVE  First(h, S, i) + h[i].quantity <= First(h, S, j)
    <2>1. i < j
      BY <1>1, <1>2, <1>4
    <2>2. Acquired(h, Before(S, i), a) + h[i].quantity <= Acquired(h, Before(S, j), a)
      BY <1>1, <2>1, LotsFollow
    <2> QED BY <1>1, <1>2, <2>2 DEF First
  <1>5. First(h, S, i) <= g
    <2> DEFINE T == Before(S, i)
    <2>1. T \in SUBSET Positions(h) /\ First(h, S, i) = Acquired(h, T, a)
      BY <1>1 DEF Before, First
    <2>2. CASE Lots(h, T, a) = {}
      BY <2>1, <2>2, LastLot
    <2>3. CASE Lots(h, T, a) # {}
      <3>1. PICK j \in Lots(h, T, a) : Acquired(h, T, a) = Acquired(h, Before(T, j), a) + h[j].quantity
        BY <2>1, <2>3, LastLot
      <3>2. j \in Lots(h, S, a) /\ j < i /\ Before(T, j) = Before(S, j)
        <4>1. j \in Lots(h, S, a) /\ j < i
          BY DEF Lots, Before
        <4>2. \A k \in S : k < j => k < i
          BY <1>1, <1>2, <4>1, TradeTypes
        <4> QED BY <4>1, <4>2 DEF Before
      <3>3. First(h, S, j) = Acquired(h, Before(S, j), a)
        BY <1>2, <3>2 DEF First
      <3> HIDE DEF T
      <3> QED BY <1>3, <2>1, <3>1, <3>2, <3>3
    <2> QED BY <2>2, <2>3
  <1>6. queue[1].left = First(h, S, i) + h[i].quantity - g
    <2> HIDE DEF i
    <2> QED BY <1>1, <1>5, LotType, LeftIs
  <1> QED BY <1>1, <1>3, <1>4, <1>5, <1>6

\* Coins leave the lot at the head of the queue.
LEMMA QueueTake ==
  ASSUME NEW h \in Seq(Trade), NEW S \in SUBSET Positions(h), NEW a, NEW g \in Nat,
         NEW queue \in Seq(WorkingLot), queue # <<>>, QueueIs(h, S, a, queue, g),
         NEW x \in Nat, x <= queue[1].left
  PROVE  /\ QueueIs(h, S, a, Shortened(queue, x), g + x)
         /\ g + x <= Acquired(h, S, a)
  <1> DEFINE i == queue[1].trade
             f == First(h, S, i)
             q == h[i].quantity
             rest == Shortened(queue, x)
  <1>1. /\ 1 \in DOMAIN queue /\ i \in Lots(h, S, a) /\ f <= g /\ queue[1].left = f + q - g
        /\ \A j \in Lots(h, S, a) : /\ j < i => First(h, S, j) + h[j].quantity <= g
                                    /\ j > i => f + q <= First(h, S, j)
    <2>1. 1 \in DOMAIN queue
      OBVIOUS
    <2>2. /\ i \in Lots(h, S, a) /\ f <= g /\ queue[1].left = f + q - g
          /\ \A j \in Lots(h, S, a) : /\ j < i => First(h, S, j) + h[j].quantity <= g
                                      /\ j > i => f + q <= First(h, S, j)
      BY QueueHead
    <2> QED BY <2>1, <2>2
  <1>2. \A j \in Lots(h, S, a) : j \in Positions(h) /\ j \in Nat /\ h[j].asset = a
    BY TradeTypes DEF Lots
  <1>3. f \in Nat /\ q \in Nat /\ q > 0 /\ g + x \in Nat /\ g + x <= f + q
    <2>1. f \in Nat /\ q \in Nat /\ q > 0
      BY <1>1, <1>2, LotType
    <2> HIDE DEF f, q
    <2> QED BY <1>1, <2>1
  <1>4. g + x <= Acquired(h, S, a)
    <2>1. f + q <= Acquired(h, S, a)
      BY <1>1, <1>2, LotEnds DEF First
    <2>2. Acquired(h, S, a) \in Nat
      BY AcquiredType
    <2> HIDE DEF f, q
    <2> QED BY <1>3, <2>1, <2>2
  <1>5. LeftWhen(h, S, i, g + x) = queue[1].left - x
    <2>1. LeftWhen(h, S, i, g + x) =
            IF g + x <= f THEN q ELSE IF g + x < f + q THEN f + q - (g + x) ELSE 0
      BY <1>1, <1>2, <1>3, LeftIs
    <2> HIDE DEF f, q, i
    <2> QED BY <1>1, <1>3, <2>1
  <1>6. ASSUME NEW j \in Lots(h, S, a), j # i
        PROVE  LeftWhen(h, S, j, g + x) = LeftWhen(h, S, j, g)
    <2>1. PICK fj \in Nat : fj = First(h, S, j)
      BY <1>2, LotType
    <2>2. PICK qj \in Nat : qj = h[j].quantity /\ qj > 0
      BY <1>2, LotType
    <2>3. /\ LeftWhen(h, S, j, g) =
               IF g <= fj THEN qj ELSE IF g < fj + qj THEN fj + qj - g ELSE 0
          /\ LeftWhen(h, S, j, g + x) =
               IF g + x <= fj THEN qj ELSE IF g + x < fj + qj THEN fj + qj - (g + x) ELSE 0
      BY <1>2, <1>3, <2>1, <2>2, LeftIs
    <2>4. fj + qj <= g \/ f + q <= fj
      <3>1. j < i \/ j > i
        BY <1>1, <1>2, <1>6
      <3> QED BY <1>1, <2>1, <2>2, <3>1
    <2> HIDE DEF f, q
    <2> QED BY <1>3, <2>1, <2>2, <2>3, <2>4
  <1>7. CASE queue[1].left = x
    <2>1. rest = Tail(queue)
      BY <1>7 DEF Shortened
    <2>2. /\ DOMAIN rest = 1..(Len(queue) - 1) /\ Len(queue) \in Nat /\ DOMAIN queue = 1..Len(queue)
          /\ \A k \in DOMAIN rest : k + 1 \in DOMAIN queue /\ rest[k] = queue[k + 1] /\ 1 < k + 1
      BY <2>1
    <2>3. \A k \in DOMAIN rest :
            /\ rest[k].trade \in Lots(h, S, a) /\ rest[k].trade # i
            /\ rest[k].left = LeftWhen(h, S, rest[k].trade, g) /\ rest[k].left > 0
            /\ rest[k].unit = UnitCost(h[rest[k].trade])
      <3> TAKE k \in DOMAIN rest
      <3>1. k + 1 \in DOMAIN queue /\ rest[k] = queue[k + 1] /\ 1 < k + 1
        BY <2>2
      <3>2. /\ queue[k + 1].trade \in Lots(h, S, a) /\ i < queue[k + 1].trade
            /\ queue[k + 1].left = LeftWhen(h, S, queue[k + 1].trade, g) /\ queue[k + 1].left > 0
            /\ queue[k + 1].unit = UnitCost(h[queue[k + 1].trade])
        BY <1>1, <3>1 DEF QueueIs
      <3>3. i \in Nat
        BY <1>1, <1>2
      <3> HIDE DEF i, rest
      <3> QED BY <3>1, <3>2, <3>3
    <2>4. \A j, k \in DOMAIN rest : j < k => rest[j].trade < rest[k].trade
      <3> TAKE j, k \in DOMAIN rest
      <3> HAVE j < k
      <3>1. j + 1 \in DOMAIN queue /\ k + 1 \in DOMAIN queue /\ j + 1 < k + 1
        BY <2>2
      <3>2. queue[j + 1].trade < queue[k + 1].trade
        BY <3>1 DEF QueueIs
      <3> QED BY <2>2, <3>2
    <2>5. ASSUME NEW j \in Lots(h, S, a), LeftWhen(h, S, j, g + x) > 0
          PROVE  \E k \in DOMAIN rest : rest[k].trade = j
      <3>1. j # i
        BY <1>1, <1>2, <1>5, <1>7, <2>5, LeftIs
      <3>2. LeftWhen(h, S, j, g) > 0
        BY <1>6, <2>5, <3>1
      <3>3. PICK k \in DOMAIN queue : queue[k].trade = j
        BY <3>2 DEF QueueIs
      <3>4. k - 1 \in DOMAIN rest /\ k = (k - 1) + 1
        BY <2>2, <3>1, <3>3
      <3>5. rest[k - 1] = queue[k]
        BY <2>2, <3>4
      <3> QED BY <3>3, <3>4, <3>5
    <2> HIDE DEF i, rest
    <2>6. QueueIs(h, S, a, rest, g + x)
      BY <1>6, <2>3, <2>4, <2>5 DEF QueueIs
    <2> QED BY <1>4, <2>6 DEF rest
  <1>8. CASE queue[1].left # x
    <2>1. rest = [queue EXCEPT ![1].left = @ - x]
      BY <1>8 DEF Shortened
    <2>2. PICK left \in Nat : left = queue[1].left - x /\ left > 0
      <3>1. queue[1] \in WorkingLot
        BY <1>1
      <3>2. queue[1].left \in Nat
        BY <3>1 DEF WorkingLot
      <3> QED BY <1>8, <3>2
    <2>3. rest = [queue EXCEPT ![1] = [queue[1] EXCEPT !.left = left]]
      BY <2>1, <2>2
    <2>4. /\ DOMAIN rest = DOMAIN queue
          /\ \A k \in DOMAIN queue : rest[k].trade = queue[k].trade /\ rest[k].unit = queue[k].unit
          /\ \A k \in DOMAIN queue : k # 1 => rest[k].left = queue[k].left
          /\ rest[1].left = left
      <3>1. queue[1] \in WorkingLot /\ 1 \in DOMAIN queue
        BY <1>1
      <3>2. /\ [queue[1] EXCEPT !.left = left].left = left
            /\ [queue[1] EXCEPT !.left = left].trade = queue[1].trade
            /\ [queue[1] EXCEPT !.left = left].unit = queue[1].unit
        BY <3>1 DEF WorkingLot
      <3> QED BY <2>3, <3>1, <3>2
    <2>5. ASSUME NEW k \in DOMAIN queue, k # 1 PROVE queue[k].trade \in Lots(h, S, a) \ {i}
      <3>1. queue[k].trade \in Lots(h, S, a)
        BY DEF QueueIs
      <3>2. 1 < k
        BY <2>5
      <3>3. i < queue[k].trade
        BY <1>1, <3>2 DEF QueueIs
      <3>4. i \in Nat
        BY <1>1, <1>2
      <3> HIDE DEF i
      <3> QED BY <3>1, <3>3, <3>4
    <2>6. \A k \in DOMAIN rest : /\ rest[k].trade \in Lots(h, S, a)
                                 /\ rest[k].left = LeftWhen(h, S, rest[k].trade, g + x)
                                 /\ rest[k].left > 0
                                 /\ rest[k].unit = UnitCost(h[rest[k].trade])
      <3> TAKE k \in DOMAIN rest
      <3>0. /\ k \in DOMAIN queue /\ rest[k].trade = queue[k].trade /\ rest[k].unit = queue[k].unit
            /\ queue[k].trade \in Lots(h, S, a) /\ queue[k].unit = UnitCost(h[queue[k].trade])
            /\ queue[k].left = LeftWhen(h, S, queue[k].trade, g) /\ queue[k].left > 0
        BY <2>4 DEF QueueIs
      <3>1. CASE k = 1
        BY <1>5, <2>2, <2>4, <3>0, <3>1
      <3>2. CASE k # 1
        <4>1. rest[k].left = queue[k].left /\ queue[k].trade # i
          BY <2>4, <2>5, <3>0, <3>2
        <4>2. LeftWhen(h, S, queue[k].trade, g + x) = LeftWhen(h, S, queue[k].trade, g)
          BY <1>6, <3>0, <4>1
        <4> HIDE DEF rest, i
        <4> QED BY <3>0, <4>1, <4>2
      <3> QED BY <3>1, <3>2
    <2>7. ASSUME NEW j \in Lots(h, S, a), LeftWhen(h, S, j, g + x) > 0
          PROVE  \E k \in DOMAIN rest : rest[k].trade = j
      <3>1. LeftWhen(h, S, j, g) > 0 \/ j = i
        BY <1>6, <2>7
      <3>2. \E k \in DOMAIN queue : queue[k].trade = j
        BY <1>1, <3>1 DEF QueueIs
      <3> HIDE DEF rest
      <3> QED BY <2>4, <3>2
    <2>8. \A j, k \in DOMAIN rest : j < k => rest[j].trade < rest[k].trade
      <3> HIDE DEF rest
      <3> QED BY <2>4 DEF QueueIs
    <2> HIDE DEF i, rest
    <2>9. QueueIs(h, S, a, rest, g + x)
      BY <2>6, <2>7, <2>8 DEF QueueIs
    <2> QED BY <1>4, <2>9 DEF rest
  <1> QED BY <1>7, <1>8

----------------------------------------------------------------------------
\* What coins cost

Costs(h, S, a, from, to) ==
  [i \in Lots(h, S, a) |-> CoinsOfLot(h, S, i, from, to) * UnitCost(h[i])]

LEMMA CostType ==
  ASSUME NEW h \in Seq(Trade), NEW S \in SUBSET Positions(h), NEW a,
         NEW from \in Nat, NEW g \in Nat, from <= g
  PROVE  CostBetween(h, S, a, from, g) \in Nat /\ Summable(Costs(h, S, a, from, g))
  <1>1. Len(h) \in Nat
    OBVIOUS
  <1>2. \A i \in Lots(h, S, a) : CoinsOfLot(h, S, i, from, g) * UnitCost(h[i]) \in Nat
    <2> TAKE i \in Lots(h, S, a)
    <2>1. i \in Positions(h)
      BY DEF Lots
    <2>2. CoinsOfLot(h, S, i, from, g) \in Nat
      <3>1. MoreCoins(h, S, i, from, g, 0)
        BY <2>1, CoinsAre
      <3> QED BY <3>1 DEF MoreCoins
    <2>3. UnitCost(h[i]) \in Nat
      BY <2>1, TradeTypes
    <2> QED BY <2>2, <2>3, ProductIsNat
  <1>3. \A i \in DOMAIN Costs(h, S, a, from, g) : Costs(h, S, a, from, g)[i] \in Nat
    BY <1>2 DEF Costs
  <1>4. CostBetween(h, S, a, from, g) = SumTo(Costs(h, S, a, from, g), Len(h))
    BY DEF CostBetween, SumOver, Costs
  <1> QED BY <1>1, <1>3, <1>4, SumIsNat DEF Summable

\* No coins cost nothing.
LEMMA CostNothing ==
  ASSUME NEW h \in Seq(Trade), NEW S \in SUBSET Positions(h), NEW a, NEW g \in Nat
  PROVE  CostBetween(h, S, a, g, g) = 0
  <1>1. Len(h) \in Nat /\ g <= g
    OBVIOUS
  <1>2. \A i \in Lots(h, S, a) : CoinsOfLot(h, S, i, g, g) * UnitCost(h[i]) = 0
    <2> TAKE i \in Lots(h, S, a)
    <2>1. i \in Positions(h)
      BY DEF Lots
    <2>2. CoinsOfLot(h, S, i, g, g) = 0
      <3>1. MoreCoins(h, S, i, g, g, 0)
        BY <1>1, <2>1, CoinsAre
      <3> QED BY <3>1 DEF MoreCoins
    <2>3. UnitCost(h[i]) \in Nat
      BY <2>1, TradeTypes
    <2> QED BY <2>2, <2>3
  <1>3. \A k : At(Costs(h, S, a, g, g), k) = 0
    BY <1>2 DEF At, Costs
  <1>4. CostBetween(h, S, a, g, g) = SumTo(Costs(h, S, a, g, g), Len(h))
    BY DEF CostBetween, SumOver, Costs
  <1> QED BY <1>1, <1>3, <1>4, CostType, SumEmpty

\* The coins that leave the head of the queue cost what their lot did.
LEMMA CostTake ==
  ASSUME NEW h \in Seq(Trade), NEW S \in SUBSET Positions(h), NEW a,
         NEW from \in Nat, NEW g \in Nat, from <= g,
         NEW queue \in Seq(WorkingLot), queue # <<>>, QueueIs(h, S, a, queue, g),
         NEW x \in Nat, x <= queue[1].left
  PROVE  CostBetween(h, S, a, from, g + x) = CostBetween(h, S, a, from, g) + x * queue[1].unit
  <1> DEFINE i == queue[1].trade
             e == Costs(h, S, a, from, g)
             l == Costs(h, S, a, from, g + x)
  <1>1. /\ i \in Lots(h, S, a) /\ First(h, S, i) <= g
        /\ queue[1].left = First(h, S, i) + h[i].quantity - g
        /\ \A j \in Lots(h, S, a) : /\ j < i => First(h, S, j) + h[j].quantity <= g
                                    /\ j > i => First(h, S, i) + h[i].quantity <= First(h, S, j)
    BY QueueHead
  <1>2. queue[1].unit = UnitCost(h[i])
    <2>1. 1 \in DOMAIN queue
      OBVIOUS
    <2> QED BY <2>1 DEF QueueIs
  <1>3. \A j \in Lots(h, S, a) : j \in Positions(h) /\ j \in Nat /\ h[j].asset = a
    BY TradeTypes DEF Lots
  <1>0. \A j \in Positions(h) : MoreCoins(h, S, j, from, g, x)
    BY CoinsAre
  <1>4. /\ g + x \in Nat /\ from <= g + x /\ Len(h) \in Nat
        /\ g + x <= First(h, S, i) + h[i].quantity
    <2>1. PICK f \in Nat : f = First(h, S, i)
      BY <1>1, <1>3, LotType
    <2>2. PICK q \in Nat : q = h[i].quantity
      BY <1>1, <1>3, LotType
    <2>3. x <= f + q - g
      BY <1>1, <2>1, <2>2
    <2>4. g + x <= f + q
      BY <2>1, <2>2, <2>3
    <2> QED BY <2>1, <2>2, <2>4
  <1>5. Summable(e) /\ Summable(l) /\ SumTo(e, Len(h)) \in Nat
    BY <1>4, CostType DEF CostBetween, SumOver, Costs
  <1>6. At(l, i) = At(e, i) + x * UnitCost(h[i]) /\ At(e, i) \in Nat /\ x * UnitCost(h[i]) \in Nat
    <2>1. PICK c \in Nat : c = CoinsOfLot(h, S, i, from, g)
      BY <1>0, <1>1, <1>3 DEF MoreCoins
    <2>2. CoinsOfLot(h, S, i, from, g + x) = c + x
      <3>1. MoreCoins(h, S, i, from, g, x)
        BY <1>0, <1>1, <1>3
      <3> QED BY <1>1, <1>4, <2>1, <3>1 DEF MoreCoins
    <2>3. PICK u \in Nat : u = UnitCost(h[i])
      BY <1>1, <1>3, TradeTypes
    <2>4. At(e, i) = c * u /\ At(l, i) = (c + x) * u
      BY <1>1, <2>1, <2>2, <2>3 DEF At, Costs
    <2>5. (c + x) * u = c * u + x * u /\ c * u \in Nat /\ x * u \in Nat
      BY <2>1, <2>3
    <2> QED BY <2>3, <2>4, <2>5
  <1>7. \A k \in 1..Len(h) : k # i => At(l, k) = At(e, k)
    <2> SUFFICES ASSUME NEW k \in Lots(h, S, a), k # i PROVE At(l, k) = At(e, k)
      BY DEF At, Costs
    <2>1. k < i \/ k > i
      BY <1>1, <1>3
    <2>2. PICK fk \in Nat : fk = First(h, S, k)
      BY <1>3, LotType
    <2>3. PICK qk \in Nat : qk = h[k].quantity
      BY <1>3, LotType
    <2>4. fk + qk <= g \/ g + x <= fk
      <3>1. PICK f \in Nat : f = First(h, S, i)
        BY <1>1, <1>3, LotType
      <3>2. PICK q \in Nat : q = h[i].quantity
        BY <1>1, <1>3, LotType
      <3>3. g + x <= f + q
        BY <1>4, <3>1, <3>2
      <3>4. fk + qk <= g \/ f + q <= fk
        BY <1>1, <2>1, <2>2, <2>3, <3>1, <3>2
      <3> QED BY <1>4, <2>2, <2>3, <3>1, <3>2, <3>3, <3>4
    <2>5. CoinsOfLot(h, S, k, from, g + x) = CoinsOfLot(h, S, k, from, g)
      <3>1. MoreCoins(h, S, k, from, g, x)
        BY <1>0, <1>3
      <3> QED BY <2>2, <2>3, <2>4, <3>1 DEF MoreCoins
    <2> QED BY <2>5 DEF At, Costs
  <1>8. i \in 1..Len(h)
    BY <1>1, <1>3 DEF Positions
  <1> HIDE DEF e, l
  <1>9. SumTo(l, Len(h)) = SumTo(e, Len(h)) + At(l, i) - At(e, i)
    BY <1>4, <1>5, <1>7, <1>8, SumDiffers
  <1>10. /\ CostBetween(h, S, a, from, g) = SumTo(e, Len(h))
         /\ CostBetween(h, S, a, from, g + x) = SumTo(l, Len(h))
    BY DEF CostBetween, SumOver, Costs, e, l
  <1>11. SumTo(l, Len(h)) = SumTo(e, Len(h)) + x * UnitCost(h[i])
    <2> HIDE DEF i
    <2> QED BY <1>5, <1>6, <1>9
  <1> QED BY <1>2, <1>10, <1>11

----------------------------------------------------------------------------
\* One more trade, later than all before it

Latest(S, n) == \A i \in S : i < n
With(S, n)   == S \cup {n}

LEMMA GrownSets ==
  ASSUME NEW h \in Seq(Trade), NEW S \in SUBSET Positions(h), NEW n \in Positions(h), Latest(S, n)
  PROVE  /\ n \notin S /\ With(S, n) \in SUBSET Positions(h)
         /\ Before(With(S, n), n) = S
         /\ \A i \in S : Before(With(S, n), i) = Before(S, i)
  <1>1. \A i \in S : i \in Nat /\ n \in Nat /\ i < n
    BY DEF Positions, Latest
  <1>2. n \notin S
    BY <1>1
  <1>3. Before(With(S, n), n) = S
    <2>1. ~ (n < n)
      BY DEF Positions
    <2> QED BY <1>1, <2>1 DEF Before, With
  <1> QED BY <1>1, <1>2, <1>3 DEF Before, With

\* The lots there were, and what is left of them, do not change.
LEMMA GrownLots ==
  ASSUME NEW h \in Seq(Trade), NEW S \in SUBSET Positions(h), NEW n \in Positions(h), Latest(S, n),
         NEW a
  PROVE  /\ Acquires(h[n]) /\ h[n].asset = a =>
              Lots(h, With(S, n), a) = With(Lots(h, S, a), n)
         /\ ~ (Acquires(h[n]) /\ h[n].asset = a) => Lots(h, With(S, n), a) = Lots(h, S, a)
  BY DEF Lots, With

LEMMA GrownLeft ==
  ASSUME NEW h \in Seq(Trade), NEW S \in SUBSET Positions(h), NEW n \in Positions(h), Latest(S, n),
         NEW i \in S, NEW g
  PROVE  LeftWhen(h, With(S, n), i, g) = LeftWhen(h, S, i, g)
  <1>1. Before(With(S, n), i) = Before(S, i)
    BY GrownSets
  <1> QED BY <1>1 DEF LeftWhen, CoinsOfLot

\* What is gone of each asset.
LEMMA GrownGone ==
  ASSUME NEW h \in Seq(Trade), NEW S \in SUBSET Positions(h), NEW n \in Positions(h), Latest(S, n),
         NEW a
  PROVE  /\ \A m \in 0..(n - 1) : Gone(h, With(S, n), a, m) = Gone(h, S, a, m)
         /\ Gone(h, With(S, n), a, n - 1) = Gone(h, S, a, Len(h))
         /\ Gone(h, With(S, n), a, n) = Gone(h, With(S, n), a, Len(h))
         /\ Gone(h, With(S, n), a, Len(h)) =
              IF Consumes(h[n]) /\ h[n].asset = a
                THEN Smaller(Gone(h, S, a, Len(h)) + h[n].quantity, Acquired(h, S, a))
                ELSE Gone(h, S, a, Len(h))
  <1> DEFINE T == With(S, n)
  <1>0. Len(h) \in Nat /\ n \in Nat /\ n > 0 /\ n <= Len(h) /\ n - 1 \in 0..Len(h) /\ n \in 0..Len(h)
        /\ \A i \in S : i \in Nat
    BY DEF Positions
  <1>1. /\ n \notin S /\ T \in SUBSET Positions(h) /\ Before(T, n) = S
    BY GrownSets
  <1> HIDE DEF T
  <1>1a. T = S \cup {n}
    BY DEF T, With
  <1>2. ASSUME NEW m \in 0..(n - 1) PROVE Gone(h, T, a, m) = Gone(h, S, a, m)
    <2>1. m \in 0..Len(h) /\ \A k \in 1..m : k # n
      BY <1>0
    <2>2. \A k \in 1..m : k \in T <=> k \in S
      BY <1>1a, <2>1
    <2> QED BY <1>1, <2>1, <2>2, GoneLocal
  <1>3. Gone(h, S, a, Len(h)) = Gone(h, S, a, n - 1)
    <2>1. \A k \in Positions(h) : k > n - 1 => ~ Takes(h, S, a, k)
      BY <1>0 DEF Positions, Takes, Latest
    <2> QED BY <1>0, <2>1, GoneStays
  <1>4. Gone(h, T, a, Len(h)) = Gone(h, T, a, n)
    <2>1. \A k \in Positions(h) : k > n => ~ Takes(h, T, a, k)
      BY <1>0, <1>1a DEF Positions, Takes, Latest
    <2> QED BY <1>0, <1>1, <2>1, GoneStays
  <1>5. Gone(h, T, a, n) = IF Takes(h, T, a, n)
                             THEN Smaller(Gone(h, T, a, n - 1) + h[n].quantity, Acquired(h, S, a))
                             ELSE Gone(h, T, a, n - 1)
    BY <1>0, <1>1, GoneStep
  <1>6. Gone(h, T, a, n - 1) = Gone(h, S, a, n - 1)
    <2>1. n - 1 \in 0..(n - 1)
      BY <1>0
    <2> QED BY <1>2, <2>1
  <1>7. Takes(h, T, a, n) <=> Consumes(h[n]) /\ h[n].asset = a
    BY <1>1a DEF Takes
  <1>8. /\ Gone(h, T, a, n - 1) = Gone(h, S, a, Len(h))
        /\ Gone(h, T, a, Len(h)) =
              IF Consumes(h[n]) /\ h[n].asset = a
                THEN Smaller(Gone(h, S, a, Len(h)) + h[n].quantity, Acquired(h, S, a))
                ELSE Gone(h, S, a, Len(h))
    BY <1>3, <1>4, <1>5, <1>6, <1>7
  <1>9. \A m \in 0..(n - 1) : Gone(h, T, a, m) = Gone(h, S, a, m)
    BY <1>2
  <1> QED BY <1>4, <1>8, <1>9 DEF T

\* The queue when the new trade is an acquisition.
LEMMA QueueNew ==
  ASSUME NEW h \in Seq(Trade), NEW S \in SUBSET Positions(h), NEW n \in Positions(h), Latest(S, n),
         Acquires(h[n]), NEW queue \in Seq(WorkingLot), NEW g \in Nat, g <= Acquired(h, S, h[n].asset),
         QueueIs(h, S, h[n].asset, queue, g), NEW w,
         w.trade = n, w.left = h[n].quantity, w.unit = UnitCost(h[n])
  PROVE  QueueIs(h, With(S, n), h[n].asset, Append(queue, w), g)
  <1> DEFINE T == With(S, n)
             a == h[n].asset
             longer == Append(queue, w)
  <1>1. /\ Lots(h, T, a) = Lots(h, S, a) \cup {n}
        /\ \A i \in S : LeftWhen(h, T, i, g) = LeftWhen(h, S, i, g)
    <2>1. Lots(h, T, a) = With(Lots(h, S, a), n)
      BY GrownLots
    <2>2. \A i \in S : LeftWhen(h, T, i, g) = LeftWhen(h, S, i, g)
      BY GrownLeft
    <2> QED BY <2>1, <2>2 DEF With
  <1>2. LeftWhen(h, T, n, g) = h[n].quantity /\ h[n].quantity > 0 /\ h[n].quantity \in Nat
    <2>1. T \in SUBSET Positions(h) /\ Before(T, n) = S
      BY GrownSets
    <2>2. First(h, T, n) = Acquired(h, S, a) /\ Acquired(h, S, a) \in Nat
      BY <2>1, AcquiredType DEF First
    <2>3. g <= First(h, T, n)
      BY <2>2
    <2> HIDE DEF T, a
    <2> QED BY <2>1, <2>3, LeftIs, LotType
  <1>3. /\ DOMAIN longer = 1..(Len(queue) + 1) /\ DOMAIN queue = 1..Len(queue) /\ Len(queue) \in Nat
        /\ \A k \in DOMAIN queue : longer[k] = queue[k]
        /\ longer[Len(queue) + 1] = w
    OBVIOUS
  <1>4. \A k \in DOMAIN longer : k \in DOMAIN queue \/ k = Len(queue) + 1
    BY <1>3
  <1>5. \A i \in Lots(h, S, a) : i \in S /\ i < n
    BY DEF Lots, Latest
  <1> HIDE DEF longer, a, T
  <1>0. QueueIs(h, S, a, queue, g)
    BY DEF a
  <1>6. \A k \in DOMAIN longer : /\ longer[k].trade \in Lots(h, T, a)
                                 /\ longer[k].left = LeftWhen(h, T, longer[k].trade, g)
                                 /\ longer[k].left > 0
                                 /\ longer[k].unit = UnitCost(h[longer[k].trade])
    <2> TAKE k \in DOMAIN longer
    <2>1. CASE k \in DOMAIN queue
      BY <1>0, <1>1, <1>3, <1>5, <2>1 DEF QueueIs
    <2>2. CASE k = Len(queue) + 1
      BY <1>1, <1>2, <1>3, <2>2
    <2> QED BY <1>4, <2>1, <2>2
  <1>7. \A j, k \in DOMAIN longer : j < k => longer[j].trade < longer[k].trade
    <2> TAKE j, k \in DOMAIN longer
    <2> HAVE j < k
    <2>1. j \in DOMAIN queue
      BY <1>3, <1>4
    <2>2. CASE k \in DOMAIN queue
      BY <1>0, <1>3, <2>1, <2>2 DEF QueueIs
    <2>3. CASE k = Len(queue) + 1
      <3>1. longer[j].trade < n
        BY <1>0, <1>3, <1>5, <2>1 DEF QueueIs
      <3> QED BY <1>3, <2>3, <3>1
    <2> QED BY <1>4, <2>2, <2>3
  <1>8. ASSUME NEW i \in Lots(h, T, a), LeftWhen(h, T, i, g) > 0
        PROVE  \E k \in DOMAIN longer : longer[k].trade = i
    <2>1. CASE i \in Lots(h, S, a)
      <3>1. LeftWhen(h, S, i, g) > 0
        BY <1>1, <1>5, <1>8, <2>1
      <3>2. PICK k \in DOMAIN queue : queue[k].trade = i
        BY <1>0, <2>1, <3>1 DEF QueueIs
      <3>3. k \in DOMAIN longer /\ longer[k] = queue[k]
        BY <1>3
      <3> QED BY <3>2, <3>3
    <2>2. CASE i = n
      <3>1. Len(queue) + 1 \in DOMAIN longer
        BY <1>3
      <3> QED BY <1>3, <2>2, <3>1
    <2> QED BY <1>1, <2>1, <2>2
  <1>9. QueueIs(h, T, a, longer, g)
    BY <1>6, <1>7, <1>8 DEF QueueIs
  <1> QED BY <1>9 DEF T, a, longer

\* The queue when the new trade acquires nothing of the asset.
LEMMA QueueSame ==
  ASSUME NEW h \in Seq(Trade), NEW S \in SUBSET Positions(h), NEW n \in Positions(h), Latest(S, n),
         NEW a, ~ (Acquires(h[n]) /\ h[n].asset = a), NEW queue, NEW g, QueueIs(h, S, a, queue, g)
  PROVE  QueueIs(h, With(S, n), a, queue, g)
  <1>1. /\ Lots(h, With(S, n), a) = Lots(h, S, a)
        /\ \A i \in S : LeftWhen(h, With(S, n), i, g) = LeftWhen(h, S, i, g)
    <2>1. Lots(h, With(S, n), a) = Lots(h, S, a)
      BY GrownLots
    <2>2. \A i \in S : LeftWhen(h, With(S, n), i, g) = LeftWhen(h, S, i, g)
      BY GrownLeft
    <2> QED BY <2>1, <2>2
  <1>2. \A i \in Lots(h, S, a) : i \in S
    BY DEF Lots
  <1> QED BY <1>1, <1>2 DEF QueueIs

LEMMA GoneGrows ==
  ASSUME NEW h \in Seq(Trade), NEW S \in SUBSET Positions(h), NEW a, NEW n \in Positions(h)
  PROVE  /\ Gone(h, S, a, n - 1) \in Nat /\ Gone(h, S, a, n) \in Nat
         /\ Gone(h, S, a, n - 1) <= Gone(h, S, a, n)
  <1>1. n \in Nat /\ n > 0 /\ n \in 0..Len(h) /\ n - 1 \in 0..Len(h) /\ (n - 1) + 1 = n
    BY DEF Positions
  <1>2. /\ Gone(h, S, a, n - 1) \in Nat /\ Gone(h, S, a, n) \in Nat
        /\ Gone(h, S, a, n - 1) <= Acquired(h, Before(S, n), a)
    BY <1>1, GoneBounded
  <1>3. Gone(h, S, a, n) = IF Takes(h, S, a, n)
                             THEN Smaller(Gone(h, S, a, n - 1) + h[n].quantity,
                                          Acquired(h, Before(S, n), a))
                             ELSE Gone(h, S, a, n - 1)
    BY <1>1, GoneStep
  <1>4. h[n].quantity \in Nat /\ Acquired(h, Before(S, n), a) \in Nat
    <2>1. Before(S, n) \in SUBSET Positions(h)
      BY DEF Before
    <2> QED BY <2>1, TradeTypes, AcquiredType
  <1> QED BY <1>2, <1>3, <1>4 DEF Smaller

LEMMA CostOfType ==
  ASSUME NEW h \in Seq(Trade), NEW S \in SUBSET Positions(h), NEW n \in Positions(h)
  PROVE  CostOf(h, S, n) \in Nat
  <1>1. Before(S, n) \in SUBSET Positions(h)
    BY DEF Before
  <1> QED BY <1>1, GoneGrows, CostType DEF CostOf

\* What earlier sales cost does not change; the new one costs what the coins do
\* that go next.
LEMMA GrownCosts ==
  ASSUME NEW h \in Seq(Trade), NEW S \in SUBSET Positions(h), NEW n \in Positions(h), Latest(S, n)
  PROVE  /\ \A m \in S : CostOf(h, With(S, n), m) = CostOf(h, S, m)
         /\ CostOf(h, With(S, n), n) =
              CostBetween(h, S, h[n].asset, Gone(h, S, h[n].asset, Len(h)),
                          Gone(h, With(S, n), h[n].asset, Len(h)))
  <1>1. ASSUME NEW m \in S PROVE CostOf(h, With(S, n), m) = CostOf(h, S, m)
    <2>1. m \in 0..(n - 1) /\ m - 1 \in 0..(n - 1)
      <3>1. m \in Positions(h) /\ m < n
        BY DEF Latest
      <3> QED BY <3>1 DEF Positions
    <2>2. Before(With(S, n), m) = Before(S, m)
      BY GrownSets
    <2>3. /\ Gone(h, With(S, n), h[m].asset, m) = Gone(h, S, h[m].asset, m)
          /\ Gone(h, With(S, n), h[m].asset, m - 1) = Gone(h, S, h[m].asset, m - 1)
      <3>1. \A a : \A k \in 0..(n - 1) : Gone(h, With(S, n), a, k) = Gone(h, S, a, k)
        BY GrownGone
      <3> QED BY <2>1, <3>1
    <2> QED BY <2>2, <2>3 DEF CostOf
  <1>2. CostOf(h, With(S, n), n) =
              CostBetween(h, S, h[n].asset, Gone(h, S, h[n].asset, Len(h)),
                          Gone(h, With(S, n), h[n].asset, Len(h)))
    <2>1. Before(With(S, n), n) = S
      BY GrownSets
    <2>2. /\ Gone(h, With(S, n), h[n].asset, n - 1) = Gone(h, S, h[n].asset, Len(h))
          /\ Gone(h, With(S, n), h[n].asset, n) = Gone(h, With(S, n), h[n].asset, Len(h))
      BY GrownGone
    <2> QED BY <2>1, <2>2 DEF CostOf
  <1> QED BY <1>1, <1>2

LEMMA ResultIsInt ==
  ASSUME NEW h \in Seq(Trade), NEW S \in SUBSET Positions(h), NEW n \in Positions(h),
         h[n].unit # Nil
  PROVE  Result(h, S, n) \in Int
  <1>1. h[n].quantity \in Nat /\ h[n].unit \in Nat
    BY TradeTypes
  <1>2. PICK p \in Nat : p = h[n].quantity * h[n].unit
    BY <1>1, ProductIsNat
  <1>3. CostOf(h, S, n) \in Nat
    BY CostOfType
  <1> QED BY <1>2, <1>3 DEF Result

\* A total of numbers that are not negative, one for each of a set of trades,
\* and what one more trade adds to it.
LEMMA TotalIsNat ==
  ASSUME NEW h \in Seq(Trade), NEW f, \A k \in DOMAIN f : f[k] \in Nat
  PROVE  SumOver(h, f) \in Nat /\ Summable(f)
  <1>1. Len(h) \in Nat
    OBVIOUS
  <1> QED BY <1>1, SumIsNat DEF SumOver, Summable

LEMMA TotalGrows ==
  ASSUME NEW h \in Seq(Trade), NEW n \in Positions(h), NEW f, NEW g, n \notin DOMAIN f,
         \A k \in DOMAIN f : f[k] \in Nat, \A k \in DOMAIN g : g[k] \in Nat,
         \A k \in Positions(h) : k # n => At(g, k) = At(f, k)
  PROVE  SumOver(h, g) = SumOver(h, f) + At(g, n)
  <1>1. Len(h) \in Nat /\ Summable(f) /\ Summable(g) /\ SumTo(f, Len(h)) \in Nat
    BY TotalIsNat DEF SumOver
  <1>2. n \in 1..Len(h) /\ \A k \in 1..Len(h) : k # n => At(g, k) = At(f, k)
    BY DEF Positions
  <1>3. SumTo(g, Len(h)) = SumTo(f, Len(h)) + At(g, n) - At(f, n)
    BY <1>1, <1>2, SumDiffers
  <1>4. At(f, n) = 0 /\ At(g, n) \in Nat
    BY DEF At
  <1> QED BY <1>1, <1>3, <1>4 DEF SumOver

Gains(h, S, y)  == [n \in PricedSales(h, S, y) |-> Positive(Result(h, S, n))]
Losses(h, S, y) == [n \in PricedSales(h, S, y) |-> Positive(- Result(h, S, n))]
Incomes(h, S, y) == [i \in OccasionalIncome(h, S, y) |-> h[i].quantity * h[i].unit]

LEMMA TotalTypes ==
  ASSUME NEW h \in Seq(Trade), NEW S \in SUBSET Positions(h), NEW y
  PROVE  /\ \A k \in DOMAIN Gains(h, S, y) : Gains(h, S, y)[k] \in Nat
         /\ \A k \in DOMAIN Losses(h, S, y) : Losses(h, S, y)[k] \in Nat
         /\ \A k \in DOMAIN Incomes(h, S, y) : Incomes(h, S, y)[k] \in Nat
         /\ GainOf(h, S, y) \in Nat /\ LossOf(h, S, y) \in Nat /\ IncomeOf(h, S, y) \in Nat
  <1>1. ASSUME NEW n \in PricedSales(h, S, y)
        PROVE  Positive(Result(h, S, n)) \in Nat /\ Positive(- Result(h, S, n)) \in Nat
    <2>1. n \in Positions(h) /\ h[n].unit # Nil
      BY DEF PricedSales
    <2>2. Result(h, S, n) \in Int
      BY <2>1, ResultIsInt
    <2> QED BY <2>2 DEF Positive
  <1>2. ASSUME NEW i \in OccasionalIncome(h, S, y) PROVE h[i].quantity * h[i].unit \in Nat
    <2>1. i \in Positions(h) /\ h[i].unit # Nil
      BY DEF OccasionalIncome
    <2>2. h[i].quantity \in Nat /\ h[i].unit \in Nat
      BY <2>1, TradeTypes
    <2> QED BY <2>2, ProductIsNat
  <1>3. /\ \A k \in DOMAIN Gains(h, S, y) : Gains(h, S, y)[k] \in Nat
        /\ \A k \in DOMAIN Losses(h, S, y) : Losses(h, S, y)[k] \in Nat
        /\ \A k \in DOMAIN Incomes(h, S, y) : Incomes(h, S, y)[k] \in Nat
    BY <1>1, <1>2 DEF Gains, Losses, Incomes
  <1>4. /\ GainOf(h, S, y) = SumOver(h, Gains(h, S, y))
        /\ LossOf(h, S, y) = SumOver(h, Losses(h, S, y))
        /\ IncomeOf(h, S, y) = SumOver(h, Incomes(h, S, y))
    BY DEF GainOf, LossOf, IncomeOf, Gains, Losses, Incomes
  <1> QED BY <1>3, <1>4, TotalIsNat

Priced(t, y) == t.type = "SELL" /\ Consumes(t) /\ t.year = y /\ t.unit # Nil
Earns(t, y) ==
  Acquires(t) /\ t.type \in OCCASIONAL_INCOME_TYPES /\ t.year = y /\ t.unit # Nil

LEMMA GrownTotals ==
  ASSUME NEW h \in Seq(Trade), NEW S \in SUBSET Positions(h), NEW n \in Positions(h), Latest(S, n),
         NEW y
  PROVE  /\ GainOf(h, With(S, n), y) = GainOf(h, S, y)
              + (IF Priced(h[n], y) THEN Positive(Result(h, With(S, n), n)) ELSE 0)
         /\ LossOf(h, With(S, n), y) = LossOf(h, S, y)
              + (IF Priced(h[n], y) THEN Positive(- Result(h, With(S, n), n)) ELSE 0)
         /\ IncomeOf(h, With(S, n), y) = IncomeOf(h, S, y)
              + (IF Earns(h[n], y) THEN h[n].quantity * h[n].unit ELSE 0)
  <1> DEFINE T == With(S, n)
  <1>1. n \notin S /\ T \in SUBSET Positions(h)
    BY GrownSets
  <1>2. \A k : k # n => (k \in T <=> k \in S)
    BY DEF With
  <1>3. n \in T
    BY DEF With
  <1>4. \A m \in S : Result(h, T, m) = Result(h, S, m)
    BY GrownCosts DEF Result
  <1> HIDE DEF T
  <1>5. /\ \A k : k # n => (k \in PricedSales(h, T, y) <=> k \in PricedSales(h, S, y))
        /\ n \in PricedSales(h, T, y) <=> Priced(h[n], y)
        /\ n \notin PricedSales(h, S, y) /\ PricedSales(h, S, y) \subseteq S
        /\ \A k : k # n => (k \in OccasionalIncome(h, T, y) <=> k \in OccasionalIncome(h, S, y))
        /\ n \in OccasionalIncome(h, T, y) <=> Earns(h[n], y)
        /\ n \notin OccasionalIncome(h, S, y)
    BY <1>1, <1>2, <1>3 DEF PricedSales, OccasionalIncome, Priced, Earns
  <1>6. /\ n \notin DOMAIN Gains(h, S, y) /\ n \notin DOMAIN Losses(h, S, y)
        /\ n \notin DOMAIN Incomes(h, S, y)
        /\ \A k \in Positions(h) : k # n => /\ At(Gains(h, T, y), k) = At(Gains(h, S, y), k)
                                            /\ At(Losses(h, T, y), k) = At(Losses(h, S, y), k)
                                            /\ At(Incomes(h, T, y), k) = At(Incomes(h, S, y), k)
    BY <1>4, <1>5 DEF Gains, Losses, Incomes, At
  <1>7. /\ At(Gains(h, T, y), n) = IF Priced(h[n], y) THEN Positive(Result(h, T, n)) ELSE 0
        /\ At(Losses(h, T, y), n) = IF Priced(h[n], y) THEN Positive(- Result(h, T, n)) ELSE 0
        /\ At(Incomes(h, T, y), n) = IF Earns(h[n], y) THEN h[n].quantity * h[n].unit ELSE 0
    BY <1>5 DEF Gains, Losses, Incomes, At
  <1>8. /\ \A k \in DOMAIN Gains(h, S, y) : Gains(h, S, y)[k] \in Nat
        /\ \A k \in DOMAIN Losses(h, S, y) : Losses(h, S, y)[k] \in Nat
        /\ \A k \in DOMAIN Incomes(h, S, y) : Incomes(h, S, y)[k] \in Nat
        /\ \A k \in DOMAIN Gains(h, T, y) : Gains(h, T, y)[k] \in Nat
        /\ \A k \in DOMAIN Losses(h, T, y) : Losses(h, T, y)[k] \in Nat
        /\ \A k \in DOMAIN Incomes(h, T, y) : Incomes(h, T, y)[k] \in Nat
    BY <1>1, TotalTypes
  <1>9. /\ SumOver(h, Gains(h, T, y)) = SumOver(h, Gains(h, S, y)) + At(Gains(h, T, y), n)
        /\ SumOver(h, Losses(h, T, y)) = SumOver(h, Losses(h, S, y)) + At(Losses(h, T, y), n)
        /\ SumOver(h, Incomes(h, T, y)) = SumOver(h, Incomes(h, S, y)) + At(Incomes(h, T, y), n)
    <2>1. SumOver(h, Gains(h, T, y)) = SumOver(h, Gains(h, S, y)) + At(Gains(h, T, y), n)
      BY <1>6, <1>8, TotalGrows
    <2>2. SumOver(h, Losses(h, T, y)) = SumOver(h, Losses(h, S, y)) + At(Losses(h, T, y), n)
      BY <1>6, <1>8, TotalGrows
    <2>3. SumOver(h, Incomes(h, T, y)) = SumOver(h, Incomes(h, S, y)) + At(Incomes(h, T, y), n)
      BY <1>6, <1>8, TotalGrows
    <2> QED BY <2>1, <2>2, <2>3
  <1>10. \A R : /\ GainOf(h, R, y) = SumOver(h, Gains(h, R, y))
                /\ LossOf(h, R, y) = SumOver(h, Losses(h, R, y))
                /\ IncomeOf(h, R, y) = SumOver(h, Incomes(h, R, y))
    BY DEF GainOf, LossOf, IncomeOf, Gains, Losses, Incomes
  <1> QED BY <1>7, <1>9, <1>10 DEF T

----------------------------------------------------------------------------
\* The engine computes what first in, first out says

CurrentOf(c) == c.snapshot[c.at]
BehindOf(c)  == {c.snapshot[k] : k \in 1..(c.at - 1)}

GoneBy(h, S, a) == Gone(h, S, a, Len(h))

\* Totals and queues are those of the trades S.
Accounts(h, S, c) ==
  \A y \in Years : /\ c.gain[y] = GainOf(h, S, y) /\ c.loss[y] = LossOf(h, S, y)
                   /\ c.income[y] = IncomeOf(h, S, y)
Queues(h, S, c) == \A a \in Assets : QueueIs(h, S, a, c.book[a], GoneBy(h, S, a))

\* In the loop over the lots: what is no longer owed has left the queue.
Gotten(h, S, c) == LET t == h[CurrentOf(c)] IN GoneBy(h, S, t.asset) + (t.quantity - c.owed)
Consuming(h, S, c) ==
  LET t == h[CurrentOf(c)] IN
  /\ Consumes(t) /\ c.owed <= t.quantity
  /\ \A a \in Assets \ {t.asset} : QueueIs(h, S, a, c.book[a], GoneBy(h, S, a))
  /\ QueueIs(h, S, t.asset, c.book[t.asset], Gotten(h, S, c))
  /\ Gotten(h, S, c) <= Acquired(h, S, t.asset)
  /\ c.cost = CostBetween(h, S, t.asset, GoneBy(h, S, t.asset), Gotten(h, S, c))

\* The flag of an unpriced sale is written when its coins have left the queue.
Flagging == {"flag:find", "flag:create"}
Handled(h, s, c) ==
  IF s \in Flagging /\ Consumes(h[CurrentOf(c)]) THEN With(BehindOf(c), CurrentOf(c))
  ELSE BehindOf(c)

FifoAt(h, s, c) ==
  /\ c.at <= Len(c.snapshot) + 1
  /\ Accounts(h, Handled(h, s, c), c)
  /\ s # "take" => Queues(h, Handled(h, s, c), c)
  /\ s = "take" => Consuming(h, BehindOf(c), c)
  /\ s \in Flagging => Unpriced(h[CurrentOf(c)])
  /\ s = "lot:create" => Acquires(h[CurrentOf(c)])

FifoInv == \A r \in Running : FifoAt(trades, pc[r], calc[r])

LEMMA BehindGrows ==
  ASSUME trades \in Seq(Trade), NEW c \in Calculation, Distinct(c), InLoop(c)
  PROVE  /\ BehindOf(c) \in SUBSET Positions(trades) /\ CurrentOf(c) \in Positions(trades)
         /\ Latest(BehindOf(c), CurrentOf(c))
         /\ \A d : d.snapshot = c.snapshot /\ d.at = c.at + 1 =>
              BehindOf(d) = With(BehindOf(c), CurrentOf(c))
  <1>1. /\ c.at \in Nat /\ c.at > 0 /\ c.at <= Len(c.snapshot) /\ Len(c.snapshot) \in Nat
        /\ DOMAIN c.snapshot = 1..Len(c.snapshot)
        /\ \A k \in DOMAIN c.snapshot : c.snapshot[k] \in Indices
    BY DEF Calculation, InLoop
  <1>2. c.at \in DOMAIN c.snapshot /\ \A k \in 1..(c.at - 1) : k \in DOMAIN c.snapshot /\ k < c.at
    BY <1>1
  <1>3. BehindOf(c) \in SUBSET Positions(trades) /\ CurrentOf(c) \in Positions(trades)
    BY <1>1, <1>2 DEF BehindOf, CurrentOf, Positions, Indices
  <1>4. Latest(BehindOf(c), CurrentOf(c))
    BY <1>2 DEF Latest, BehindOf, CurrentOf, Distinct
  <1>5. ASSUME NEW d, d.snapshot = c.snapshot, d.at = c.at + 1
        PROVE  BehindOf(d) = With(BehindOf(c), CurrentOf(c))
    <2>1. 1..(d.at - 1) = 1..(c.at - 1) \cup {c.at}
      BY <1>1, <1>5
    <2> QED BY <1>5, <2>1 DEF BehindOf, With, CurrentOf
  <1> QED BY <1>3, <1>4, <1>5

\* Trades that neither come in nor go out, or whose coins have gone.
LEMMA AccountsSame ==
  ASSUME NEW h \in Seq(Trade), NEW S \in SUBSET Positions(h), NEW n \in Positions(h), Latest(S, n),
         NEW c, Accounts(h, S, c),
         \A y \in Years : ~ Priced(h[n], y) /\ ~ Earns(h[n], y)
  PROVE  Accounts(h, With(S, n), c)
  <1> SUFFICES ASSUME NEW y \in Years
               PROVE  /\ c.gain[y] = GainOf(h, With(S, n), y) /\ c.loss[y] = LossOf(h, With(S, n), y)
                      /\ c.income[y] = IncomeOf(h, With(S, n), y)
    BY DEF Accounts
  <1>1. /\ GainOf(h, With(S, n), y) = GainOf(h, S, y) + 0
        /\ LossOf(h, With(S, n), y) = LossOf(h, S, y) + 0
        /\ IncomeOf(h, With(S, n), y) = IncomeOf(h, S, y) + 0
    BY GrownTotals
  <1>2. GainOf(h, S, y) \in Nat /\ LossOf(h, S, y) \in Nat /\ IncomeOf(h, S, y) \in Nat
    BY TotalTypes
  <1> QED BY <1>1, <1>2 DEF Accounts

\* Acquisitions and consumptions are different trades.
LEMMA KindsApart ==
  ASSUME NEW t \in Trade
  PROVE  ~ (Acquires(t) /\ Consumes(t))
  BY DEF Acquires, Consumes, ACQUISITION_TYPES, DISPOSAL_TYPES, SILENT_CONSUMPTION_TYPES

LEMMA QueuesSame ==
  ASSUME NEW h \in Seq(Trade), NEW S \in SUBSET Positions(h), NEW n \in Positions(h), Latest(S, n),
         NEW c, Queues(h, S, c), ~ Acquires(h[n]), ~ Consumes(h[n])
  PROVE  Queues(h, With(S, n), c)
  <1> SUFFICES ASSUME NEW a \in Assets
               PROVE  QueueIs(h, With(S, n), a, c.book[a], GoneBy(h, With(S, n), a))
    BY DEF Queues
  <1>1. GoneBy(h, With(S, n), a) = GoneBy(h, S, a)
    BY GrownGone DEF GoneBy
  <1>2. QueueIs(h, S, a, c.book[a], GoneBy(h, S, a))
    BY DEF Queues
  <1>3. QueueIs(h, With(S, n), a, c.book[a], GoneBy(h, S, a))
    BY <1>2, QueueSame
  <1> QED BY <1>1, <1>3

LEMMA GoneByType ==
  ASSUME NEW h \in Seq(Trade), NEW S \in SUBSET Positions(h), NEW a
  PROVE  /\ GoneBy(h, S, a) \in Nat /\ Acquired(h, S, a) \in Nat
         /\ GoneBy(h, S, a) <= Acquired(h, S, a)
  <1>1. Len(h) \in 0..Len(h)
    OBVIOUS
  <1> QED BY <1>1, GoneBounded, AcquiredType DEF GoneBy

\* A lot is appended.
LEMMA QueuesNew ==
  ASSUME NEW h \in Seq(Trade), NEW S \in SUBSET Positions(h), NEW n \in Positions(h), Latest(S, n),
         Acquires(h[n]), NEW c, c.book \in [Assets -> Seq(WorkingLot)], Queues(h, S, c),
         NEW w, w.trade = n, w.left = h[n].quantity, w.unit = UnitCost(h[n]),
         NEW d, d.book = [c.book EXCEPT ![h[n].asset] = Append(@, w)]
  PROVE  Queues(h, With(S, n), d)
  <1>0. h[n] \in Trade /\ ~ Consumes(h[n]) /\ h[n].asset \in Assets
    <2>1. h[n] \in Trade
      BY TradeTypes
    <2> QED BY <2>1, KindsApart DEF Trade
  <1> SUFFICES ASSUME NEW a \in Assets
               PROVE  QueueIs(h, With(S, n), a, d.book[a], GoneBy(h, With(S, n), a))
    BY DEF Queues
  <1>1. GoneBy(h, With(S, n), a) = GoneBy(h, S, a)
    BY <1>0, GrownGone DEF GoneBy
  <1>2. QueueIs(h, S, a, c.book[a], GoneBy(h, S, a))
    BY DEF Queues
  <1>3. CASE a = h[n].asset
    <2>1. d.book[a] = Append(c.book[a], w) /\ c.book[a] \in Seq(WorkingLot)
      BY <1>3
    <2>2. GoneBy(h, S, a) \in Nat /\ GoneBy(h, S, a) <= Acquired(h, S, h[n].asset)
      BY <1>3, GoneByType
    <2>3. QueueIs(h, S, h[n].asset, c.book[a], GoneBy(h, S, a))
      BY <1>2, <1>3
    <2>4. QueueIs(h, With(S, n), h[n].asset, Append(c.book[a], w), GoneBy(h, S, a))
      BY <2>1, <2>2, <2>3, QueueNew
    <2> QED BY <1>1, <1>3, <2>1, <2>4
  <1>4. CASE a # h[n].asset
    <2>1. d.book[a] = c.book[a]
      BY <1>4
    <2>2. QueueIs(h, With(S, n), a, c.book[a], GoneBy(h, S, a))
      BY <1>2, <1>4, QueueSame
    <2> QED BY <1>1, <2>1, <2>2
  <1> QED BY <1>3, <1>4

\* Occasional income.
LEMMA AccountsIncome ==
  ASSUME NEW h \in Seq(Trade), NEW S \in SUBSET Positions(h), NEW n \in Positions(h), Latest(S, n),
         Acquires(h[n]), NEW c \in Calculation, Accounts(h, S, c)
  PROVE  Accounts(h, With(S, n), WithIncome(c, h[n]))
  <1> DEFINE t == h[n]
  <1>1. t \in Trade /\ ~ Consumes(t) /\ t.year \in Years
    <2>1. t \in Trade
      BY TradeTypes
    <2> QED BY <2>1, KindsApart DEF Trade
  <1> SUFFICES ASSUME NEW y \in Years
               PROVE  LET d == WithIncome(c, t) IN
                      /\ d.gain[y] = GainOf(h, With(S, n), y) /\ d.loss[y] = LossOf(h, With(S, n), y)
                      /\ d.income[y] = IncomeOf(h, With(S, n), y)
    BY DEF Accounts
  <1>2. GainOf(h, S, y) \in Nat /\ LossOf(h, S, y) \in Nat /\ IncomeOf(h, S, y) \in Nat
    BY TotalTypes
  <1>3. /\ GainOf(h, With(S, n), y) = GainOf(h, S, y) + 0
        /\ LossOf(h, With(S, n), y) = LossOf(h, S, y) + 0
        /\ IncomeOf(h, With(S, n), y) = IncomeOf(h, S, y)
             + (IF Earns(t, y) THEN t.quantity * t.unit ELSE 0)
    BY <1>1, GrownTotals DEF Priced
  <1>4. c.gain[y] = GainOf(h, S, y) /\ c.loss[y] = LossOf(h, S, y) /\ c.income[y] = IncomeOf(h, S, y)
    BY DEF Accounts
  <1> HIDE DEF t
  <1>5. CASE t.type \in OCCASIONAL_INCOME_TYPES /\ t.unit # Nil
    <2>1. PICK p \in Nat : p = t.quantity * t.unit
      BY <1>1, <1>5, ProductIsNat DEF Trade
    <2>2. WithIncome(c, t) = [c EXCEPT !.income = [c.income EXCEPT ![t.year] = @ + p]]
      BY <1>5, <2>1 DEF WithIncome
    <2>3. /\ WithIncome(c, t).gain = c.gain /\ WithIncome(c, t).loss = c.loss
          /\ WithIncome(c, t).income = [c.income EXCEPT ![t.year] = @ + p]
          /\ c.income \in [Years -> Nat]
      BY <2>2 DEF Calculation, Totals
    <2>4. CASE y = t.year
      <3>1. Earns(t, y)
        BY <1>5, <2>4 DEF Earns, t
      <3>2. WithIncome(c, t).income[y] = c.income[y] + p
        BY <1>1, <2>3, <2>4
      <3> QED BY <1>2, <1>3, <1>4, <2>1, <2>3, <3>1, <3>2
    <2>5. CASE y # t.year
      <3>1. ~ Earns(t, y)
        BY <2>5 DEF Earns
      <3>2. WithIncome(c, t).income[y] = c.income[y]
        BY <2>3, <2>5
      <3> QED BY <1>2, <1>3, <1>4, <2>3, <3>1, <3>2
    <2> QED BY <2>4, <2>5
  <1>6. CASE ~ (t.type \in OCCASIONAL_INCOME_TYPES /\ t.unit # Nil)
    <2>1. WithIncome(c, t) = c /\ ~ Earns(t, y)
      BY <1>6 DEF WithIncome, Earns
    <2> QED BY <1>2, <1>3, <1>4, <2>1
  <1> QED BY <1>5, <1>6

\* A sale or withdrawal begins: nothing is taken yet.
LEMMA ConsumingStarts ==
  ASSUME NEW h \in Seq(Trade), NEW S \in SUBSET Positions(h), NEW c, Queues(h, S, c),
         CurrentOf(c) \in Positions(h), Consumes(h[CurrentOf(c)]),
         NEW d, d.snapshot = c.snapshot, d.at = c.at, d.book = c.book,
         d.owed = h[CurrentOf(c)].quantity, d.cost = 0
  PROVE  Consuming(h, S, d)
  <1>1. PICK n \in Positions(h) : n = CurrentOf(c) /\ n = CurrentOf(d)
    BY DEF CurrentOf
  <1>2. PICK q \in Nat : q = h[n].quantity
    BY TradeTypes
  <1>3. h[n] \in Trade /\ h[n].asset \in Assets
    <2>1. h[n] \in Trade
      BY TradeTypes
    <2> QED BY <2>1 DEF Trade
  <1>4. PICK g \in Nat : g = GoneBy(h, S, h[n].asset) /\ g <= Acquired(h, S, h[n].asset)
    BY GoneByType
  <1>5. d.owed = q /\ Gotten(h, S, d) = g
    <2>1. Gotten(h, S, d) = g + (q - q)
      BY <1>1, <1>2, <1>4 DEF Gotten
    <2> QED BY <1>1, <1>2, <1>4, <2>1
  <1>6. CostBetween(h, S, h[n].asset, g, g) = 0
    BY <1>4, CostNothing
  <1>7. \A a \in Assets : QueueIs(h, S, a, d.book[a], GoneBy(h, S, a))
    BY DEF Queues
  <1> QED BY <1>1, <1>2, <1>3, <1>4, <1>5, <1>6, <1>7 DEF Consuming

\* x coins of asset a leave the head of the queue: c becomes d.
Leave(c, d, a, x) ==
  /\ c.book[a] # <<>> /\ x <= c.book[a][1].left /\ x <= c.owed
  /\ d.snapshot = c.snapshot /\ d.at = c.at
  /\ d.book = [c.book EXCEPT ![a] = Shortened(@, x)]
  /\ d.owed = c.owed - x /\ d.cost = c.cost + x * c.book[a][1].unit

LEMMA ConsumingGoesOn ==
  ASSUME NEW h \in Seq(Trade), NEW S \in SUBSET Positions(h), NEW c \in Calculation,
         CurrentOf(c) \in Positions(h), Consuming(h, S, c),
         NEW a \in Assets, a = h[CurrentOf(c)].asset, NEW x \in Nat, NEW d, Leave(c, d, a, x)
  PROVE  Consuming(h, S, d)
  <1>0. /\ c.book[a] # <<>> /\ x <= c.book[a][1].left /\ x <= c.owed
        /\ d.snapshot = c.snapshot /\ d.at = c.at
        /\ d.book = [c.book EXCEPT ![a] = Shortened(@, x)]
        /\ d.owed = c.owed - x /\ d.cost = c.cost + x * c.book[a][1].unit
    BY DEF Leave
  <1>1. PICK n \in Positions(h) : n = CurrentOf(c) /\ n = CurrentOf(d)
    BY <1>0 DEF CurrentOf
  <1>2. PICK q \in Nat : q = h[n].quantity
    BY TradeTypes
  <1>3. PICK g0 \in Nat : g0 = GoneBy(h, S, a)
    BY GoneByType
  <1>4. PICK o \in Nat : o = c.owed /\ x <= o /\ o <= q
    BY <1>0, <1>1, <1>2 DEF Calculation, Consuming
  <1>5. PICK g \in Nat : g = g0 + (q - o) /\ g0 <= g
    BY <1>4
  <1>6. Gotten(h, S, c) = g /\ Gotten(h, S, d) = g + x
    <2>1. Gotten(h, S, c) = g0 + (q - o) /\ Gotten(h, S, d) = g0 + (q - (o - x))
      BY <1>0, <1>1, <1>2, <1>3, <1>4 DEF Gotten
    <2> QED BY <1>4, <1>5, <2>1
  <1>7. /\ QueueIs(h, S, a, c.book[a], g) /\ c.cost = CostBetween(h, S, a, g0, g)
        /\ \A b \in Assets \ {a} : QueueIs(h, S, b, c.book[b], GoneBy(h, S, b))
        /\ Consumes(h[n])
    BY <1>1, <1>3, <1>6 DEF Consuming
  <1>8. c.book \in [Assets -> Seq(WorkingLot)] /\ c.book[a] \in Seq(WorkingLot)
    BY DEF Calculation
  <1>9. /\ QueueIs(h, S, a, Shortened(c.book[a], x), g + x)
        /\ g + x <= Acquired(h, S, a)
    BY <1>0, <1>7, <1>8, QueueTake
  <1>10. CostBetween(h, S, a, g0, g + x) = CostBetween(h, S, a, g0, g) + x * c.book[a][1].unit
    BY <1>0, <1>5, <1>7, <1>8, CostTake
  <1>11. d.book[a] = Shortened(c.book[a], x) /\ \A b \in Assets \ {a} : d.book[b] = c.book[b]
    BY <1>0, <1>8
  <1>12. d.owed <= q
    BY <1>0, <1>4
  <1>13. d.cost = CostBetween(h, S, a, g0, g + x)
    BY <1>0, <1>7, <1>10
  <1>14. /\ h[CurrentOf(d)].asset = a /\ h[CurrentOf(d)].quantity = q /\ Consumes(h[CurrentOf(d)])
         /\ GoneBy(h, S, a) = g0
    BY <1>1, <1>2, <1>3, <1>7
  <1>15. QueueIs(h, S, a, d.book[a], Gotten(h, S, d))
    BY <1>6, <1>9, <1>11
  <1>16. \A b \in Assets \ {a} : QueueIs(h, S, b, d.book[b], GoneBy(h, S, b))
    BY <1>7, <1>11
  <1>17. /\ Gotten(h, S, d) <= Acquired(h, S, a)
         /\ d.cost = CostBetween(h, S, a, g0, Gotten(h, S, d))
    BY <1>6, <1>9, <1>13
  <1> QED BY <1>12, <1>14, <1>15, <1>16, <1>17, Zenon DEF Consuming

\* All that was owed has been taken, or there is nothing left to take.
LEMMA ConsumingEnds ==
  ASSUME NEW h \in Seq(Trade), NEW S \in SUBSET Positions(h), NEW c \in Calculation,
         NEW n \in Positions(h), n = CurrentOf(c), Latest(S, n), Consuming(h, S, c),
         c.owed = 0 \/ c.book[h[n].asset] = <<>>
  PROVE  /\ Queues(h, With(S, n), c)
         /\ c.cost = CostOf(h, With(S, n), n)
  <1> DEFINE a == h[n].asset
  <1>0. h[n] \in Trade /\ ~ Acquires(h[n]) /\ Consumes(h[n]) /\ a \in Assets
    <2>1. h[n] \in Trade /\ Consumes(h[n])
      BY TradeTypes DEF Consuming
    <2> QED BY <2>1, KindsApart DEF Trade
  <1>1. PICK q \in Nat : q = h[n].quantity
    BY TradeTypes
  <1>2. PICK g0 \in Nat : g0 = GoneBy(h, S, a)
    BY GoneByType
  <1>3. PICK o \in Nat : o = c.owed /\ o <= q
    BY <1>1 DEF Calculation, Consuming
  <1>4. PICK g \in Nat : g = g0 + (q - o)
    BY <1>3
  <1>5. Gotten(h, S, c) = g
    BY <1>1, <1>2, <1>3, <1>4 DEF Gotten
  <1>6. /\ QueueIs(h, S, a, c.book[a], g) /\ c.cost = CostBetween(h, S, a, g0, g)
        /\ \A b \in Assets \ {a} : QueueIs(h, S, b, c.book[b], GoneBy(h, S, b))
        /\ g <= Acquired(h, S, a)
    BY <1>2, <1>5 DEF Consuming
  <1>7. PICK most \in Nat : most = Acquired(h, S, a)
    BY GoneByType
  <1>8. o = 0 \/ most <= g
    <2>1. CASE c.owed = 0
      BY <1>3, <2>1
    <2>2. CASE c.book[a] = <<>>
      <3>1. QueueIs(h, S, a, <<>>, g)
        BY <1>6, <2>2
      <3> QED BY <1>7, <3>1, QueueEmpty
    <2> QED BY <2>1, <2>2
  <1>9. GoneBy(h, With(S, n), a) = g
    <2>1. GoneBy(h, With(S, n), a) = Smaller(g0 + q, most)
      BY <1>0, <1>1, <1>2, <1>7, GrownGone DEF GoneBy
    <2>2. Smaller(g0 + q, most) = g
      BY <1>3, <1>4, <1>6, <1>7, <1>8 DEF Smaller
    <2> QED BY <2>1, <2>2
  <1>10. c.cost = CostOf(h, With(S, n), n)
    BY <1>2, <1>6, <1>9, GrownCosts DEF GoneBy
  <1>11. ASSUME NEW b \in Assets
         PROVE  QueueIs(h, With(S, n), b, c.book[b], GoneBy(h, With(S, n), b))
    <2>1. CASE b = a
      <3>1. QueueIs(h, With(S, n), a, c.book[a], g)
        BY <1>0, <1>6, QueueSame
      <3> QED BY <1>9, <2>1, <3>1
    <2>2. CASE b # a
      <3>1. GoneBy(h, With(S, n), b) = GoneBy(h, S, b)
        BY <2>2, GrownGone DEF GoneBy
      <3>2. QueueIs(h, S, b, c.book[b], GoneBy(h, S, b))
        BY <1>6, <2>2
      <3>3. QueueIs(h, With(S, n), b, c.book[b], GoneBy(h, S, b))
        BY <1>0, <3>2, QueueSame
      <3> QED BY <3>1, <3>3
    <2> QED BY <2>1, <2>2
  <1> QED BY <1>10, <1>11 DEF Queues

\* The gain or loss of a sale.
LEMMA AccountsResult ==
  ASSUME NEW h \in Seq(Trade), NEW S \in SUBSET Positions(h), NEW n \in Positions(h), Latest(S, n),
         h[n].type = "SELL", Consumes(h[n]), h[n].unit # Nil,
         NEW c \in Calculation, Accounts(h, S, c), c.cost = CostOf(h, With(S, n), n)
  PROVE  Accounts(h, With(S, n), WithResult(c, h[n]))
  <1> DEFINE t == h[n]
             d == WithResult(c, t)
  <1>1. t \in Trade /\ ~ Acquires(t) /\ t.year \in Years
    <2>1. t \in Trade
      BY TradeTypes
    <2> QED BY <2>1, KindsApart DEF Trade
  <1> SUFFICES ASSUME NEW y \in Years
               PROVE  /\ d.gain[y] = GainOf(h, With(S, n), y) /\ d.loss[y] = LossOf(h, With(S, n), y)
                      /\ d.income[y] = IncomeOf(h, With(S, n), y)
    BY DEF Accounts
  <1>2. GainOf(h, S, y) \in Nat /\ LossOf(h, S, y) \in Nat /\ IncomeOf(h, S, y) \in Nat
    BY TotalTypes
  <1>3. PICK p \in Int : p = Result(h, With(S, n), n) /\ p = t.quantity * t.unit - c.cost
    <2>1. With(S, n) \in SUBSET Positions(h)
      BY GrownSets
    <2> QED BY <2>1, ResultIsInt DEF Result
  <1>4. /\ GainOf(h, With(S, n), y) = GainOf(h, S, y) + (IF y = t.year THEN Positive(p) ELSE 0)
        /\ LossOf(h, With(S, n), y) = LossOf(h, S, y) + (IF y = t.year THEN Positive(- p) ELSE 0)
        /\ IncomeOf(h, With(S, n), y) = IncomeOf(h, S, y) + 0
    <2>1. Priced(t, y) <=> y = t.year
      BY DEF Priced
    <2>2. ~ Earns(t, y)
      BY <1>1 DEF Earns
    <2> QED BY <1>3, <2>1, <2>2, GrownTotals
  <1>5. c.gain[y] = GainOf(h, S, y) /\ c.loss[y] = LossOf(h, S, y) /\ c.income[y] = IncomeOf(h, S, y)
    BY DEF Accounts
  <1>6. c.gain \in [Years -> Nat] /\ c.loss \in [Years -> Nat]
    BY DEF Calculation, Totals
  <1> HIDE DEF t
  <1>7. CASE p >= 0
    <2>1. d = [c EXCEPT !.gain = [c.gain EXCEPT ![t.year] = @ + p]]
      BY <1>3, <1>7 DEF WithResult
    <2>2. d.gain = [c.gain EXCEPT ![t.year] = @ + p] /\ d.loss = c.loss /\ d.income = c.income
      BY <2>1 DEF Calculation
    <2> HIDE DEF d
    <2>3. Positive(p) = p /\ Positive(- p) = 0
      BY <1>3, <1>7 DEF Positive
    <2>4. d.gain[y] = IF y = t.year THEN c.gain[y] + p ELSE c.gain[y]
      BY <1>6, <2>2
    <2> QED BY <1>2, <1>3, <1>4, <1>5, <2>2, <2>3, <2>4
  <1>8. CASE ~ (p >= 0)
    <2>1. d = [c EXCEPT !.loss = [c.loss EXCEPT ![t.year] = @ - p]]
      BY <1>3, <1>8 DEF WithResult
    <2>2. d.loss = [c.loss EXCEPT ![t.year] = @ - p] /\ d.gain = c.gain /\ d.income = c.income
      BY <2>1 DEF Calculation
    <2> HIDE DEF d
    <2>3. Positive(p) = 0 /\ Positive(- p) = - p
      BY <1>3, <1>8 DEF Positive
    <2>4. d.loss[y] = IF y = t.year THEN c.loss[y] - p ELSE c.loss[y]
      BY <1>6, <2>2
    <2> QED BY <1>2, <1>3, <1>4, <1>5, <2>2, <2>3, <2>4
  <1> QED BY <1>7, <1>8

\* One calculation moves to another await with locals that are right.
LEMMA FifoMove ==
  ASSUME TypeInv, FifoInv, NEW r \in Running, NEW s, s # "idle", NEW c, Goto(r, s, c),
         trades' = trades, FifoAt(trades, s, c)
  PROVE  FifoInv'
  <1>1. Running' = Running
    BY DEF Goto, Running, TypeInv, TypeOK
  <1>2. \A q \in Running : /\ pc'[q] = IF q = r THEN s ELSE pc[q]
                           /\ calc'[q] = IF q = r THEN c ELSE calc[q]
    BY DEF Goto, Running, TypeInv, TypeOK
  <1> QED BY <1>1, <1>2 DEF FifoInv

LEMMA FifoFinish ==
  ASSUME TypeInv, FifoInv, NEW r \in Calcs, Finish(r), trades' = trades
  PROVE  FifoInv'
  <1>1. \A q \in Running' : q \in Running /\ calc'[q] = calc[q] /\ pc'[q] = pc[q]
    BY DEF Finish, Goto, Running, TypeInv, TypeOK
  <1> QED BY <1>1 DEF FifoInv

\* What a calculation in the loop has behind it.
LEMMA InLoopFacts ==
  ASSUME TypeInv, BookInv, NEW r \in Calcs, pc[r] \in InTrade \/ AtTrade(r)
  PROVE  /\ trades \in Seq(Trade) /\ calc[r] \in Calculation /\ r \in Running
         /\ Distinct(calc[r]) /\ InLoop(calc[r])
         /\ BehindOf(calc[r]) \in SUBSET Positions(trades)
         /\ CurrentOf(calc[r]) \in Positions(trades)
         /\ Latest(BehindOf(calc[r]), CurrentOf(calc[r]))
         /\ Tx(r) = trades[CurrentOf(calc[r])] /\ Tx(r) \in Trade
         /\ Current(r) = CurrentOf(calc[r])
  <1>1. trades \in Seq(Trade)
    BY HistoryAssumption DEF TypeInv, TypeOK
  <1>2. calc[r] \in Calculation /\ InLoop(calc[r]) /\ Tx(r) \in Trade
    BY CurrentTrade
  <1>3. r \in Running
    BY DEF Running, AtTrade, InTrade
  <1>4. Distinct(calc[r])
    BY <1>3 DEF BookInv, Mirror
  <1>5. Current(r) = CurrentOf(calc[r]) /\ Tx(r) = trades[CurrentOf(calc[r])]
    BY DEF Tx, Current, CurrentOf
  <1> QED BY <1>1, <1>2, <1>3, <1>4, <1>5, BehindGrows

\* The loop counter moves on once the locals take account of the trade at hand.
LEMMA FifoAdvance ==
  ASSUME TypeInv, BookInv, FifoInv, NEW r \in Calcs, pc[r] \in InTrade \/ AtTrade(r),
         NEW c \in Calculation, c.snapshot = calc[r].snapshot, c.at = calc[r].at,
         NextTrade(r, c), trades' = trades,
         Accounts(trades, With(BehindOf(calc[r]), CurrentOf(calc[r])), c),
         Queues(trades, With(BehindOf(calc[r]), CurrentOf(calc[r])), c)
  PROVE  FifoInv'
  <1> DEFINE d == [c EXCEPT !.at = @ + 1]
             T == With(BehindOf(calc[r]), CurrentOf(calc[r]))
  <1>1. /\ trades \in Seq(Trade) /\ r \in Running /\ InLoop(calc[r]) /\ Distinct(calc[r])
        /\ calc[r] \in Calculation
    BY InLoopFacts
  <1>2. Goto(r, "next", d)
    BY DEF NextTrade
  <1>3. /\ d.snapshot = c.snapshot /\ d.at = c.at + 1 /\ d.book = c.book
        /\ d.gain = c.gain /\ d.loss = c.loss /\ d.income = c.income
    BY DEF Calculation
  <1> HIDE DEF d
  <1>4. BehindOf(d) = T
    BY <1>1, <1>3, BehindGrows
  <1>5. d.at <= Len(d.snapshot) + 1
    BY <1>1, <1>3 DEF InLoop, Calculation
  <1>6. Handled(trades, "next", d) = T
    BY <1>4 DEF Handled, Flagging
  <1> HIDE DEF T
  <1>7. Accounts(trades, T, d) /\ Queues(trades, T, d)
    BY <1>3 DEF Accounts, Queues, T
  <1>8. FifoAt(trades, "next", d)
    BY <1>5, <1>6, <1>7 DEF FifoAt, Flagging
  <1> QED BY <1>1, <1>2, <1>8, FifoMove

LEMMA FifoSkip ==
  ASSUME TypeInv, BookInv, FifoInv, NEW r \in Calcs, SkipTrade(r)
  PROVE  FifoInv'
  <1>1. /\ trades \in Seq(Trade) /\ calc[r] \in Calculation /\ r \in Running
        /\ BehindOf(calc[r]) \in SUBSET Positions(trades)
        /\ CurrentOf(calc[r]) \in Positions(trades)
        /\ Latest(BehindOf(calc[r]), CurrentOf(calc[r]))
        /\ Tx(r) = trades[CurrentOf(calc[r])]
    BY InLoopFacts DEF SkipTrade
  <1>2. /\ ~ Acquires(Tx(r)) /\ ~ Consumes(Tx(r)) /\ AtTrade(r) /\ NextTrade(r, calc[r])
        /\ trades' = trades /\ pc[r] = "next"
    BY DEF SkipTrade, world, AtTrade
  <1>3. Accounts(trades, BehindOf(calc[r]), calc[r]) /\ Queues(trades, BehindOf(calc[r]), calc[r])
    BY <1>1, <1>2 DEF FifoInv, FifoAt, Handled, Flagging
  <1>4. \A y \in Years : ~ Priced(Tx(r), y) /\ ~ Earns(Tx(r), y)
    BY <1>2 DEF Priced, Earns
  <1>5. /\ Accounts(trades, With(BehindOf(calc[r]), CurrentOf(calc[r])), calc[r])
        /\ Queues(trades, With(BehindOf(calc[r]), CurrentOf(calc[r])), calc[r])
    BY <1>1, <1>2, <1>3, <1>4, AccountsSame, QueuesSame
  <1> QED BY <1>1, <1>2, <1>5, FifoAdvance

LEMMA FifoBeginAcquisition ==
  ASSUME TypeInv, BookInv, FifoInv, NEW r \in Calcs, BeginAcquisition(r)
  PROVE  FifoInv'
  <1>1. /\ r \in Running /\ Tx(r) = trades[CurrentOf(calc[r])] /\ Tx(r) \in Trade
        /\ InLoop(calc[r]) /\ calc[r] \in Calculation
    BY InLoopFacts DEF BeginAcquisition
  <1>2. Acquires(Tx(r)) /\ pc[r] = "next" /\ trades' = trades
    BY DEF BeginAcquisition, world, AtTrade
  <1>3. ~ Consumes(Tx(r))
    BY <1>1, <1>2, KindsApart
  <1>4. FifoAt(trades, "next", calc[r])
    BY <1>1, <1>2 DEF FifoInv
  <1>5. \A s : Handled(trades, s, calc[r]) = BehindOf(calc[r])
    BY <1>1, <1>3 DEF Handled
  <1>6. CASE Tx(r).unit = Nil
    <2>1. Unpriced(Tx(r))
      BY <1>2, <1>6 DEF Unpriced
    <2>2. FifoAt(trades, "flag:find", calc[r])
      BY <1>1, <1>4, <1>5, <2>1 DEF FifoAt
    <2>3. Goto(r, "flag:find", calc[r])
      BY <1>6 DEF BeginAcquisition
    <2> QED BY <1>1, <1>2, <2>2, <2>3, FifoMove
  <1>7. CASE Tx(r).unit # Nil
    <2>1. FifoAt(trades, "lot:create", calc[r])
      BY <1>1, <1>2, <1>4, <1>5 DEF FifoAt, Flagging
    <2>2. Goto(r, "lot:create", calc[r])
      BY <1>7 DEF BeginAcquisition
    <2> QED BY <1>1, <1>2, <2>1, <2>2, FifoMove
  <1> QED BY <1>6, <1>7

LEMMA FifoFlag ==
  ASSUME TypeInv, BookInv, FifoInv, NEW r \in Calcs, FindFlag(r) \/ CreateFlag(r)
  PROVE  FifoInv'
  <1>0. pc[r] \in Flagging /\ pc[r] \in InTrade /\ pc[r] # "take" /\ trades' = trades
    BY DEF FindFlag, CreateFlag, Flagging, InTrade, world
  <1>1. /\ r \in Running /\ Tx(r) = trades[CurrentOf(calc[r])] /\ Tx(r) \in Trade
        /\ calc[r] \in Calculation
    BY <1>0, InLoopFacts
  <1>2. FifoAt(trades, pc[r], calc[r]) /\ Unpriced(Tx(r))
    BY <1>0, <1>1 DEF FifoInv, FifoAt
  <1>3. CASE Goto(r, "flag:create", calc[r])
    <2>1. Handled(trades, "flag:create", calc[r]) = Handled(trades, pc[r], calc[r])
      BY <1>0 DEF Handled, Flagging
    <2>2. FifoAt(trades, "flag:create", calc[r])
      BY <1>0, <1>2, <2>1 DEF FifoAt
    <2> QED BY <1>0, <1>1, <1>3, <2>2, FifoMove
  <1>4. CASE Acquires(Tx(r)) /\ Goto(r, "lot:create", calc[r])
    <2>1. ~ Consumes(Tx(r))
      BY <1>1, <1>4, KindsApart
    <2>2. \A s : Handled(trades, s, calc[r]) = BehindOf(calc[r])
      BY <1>1, <2>1 DEF Handled
    <2>3. FifoAt(trades, "lot:create", calc[r])
      BY <1>0, <1>1, <1>2, <1>4, <2>2 DEF FifoAt, Flagging
    <2> QED BY <1>0, <1>1, <1>4, <2>3, FifoMove
  <1>5. CASE ~ Acquires(Tx(r)) /\ NextTrade(r, calc[r])
    <2>1. Consumes(trades[CurrentOf(calc[r])])
      BY <1>1, <1>2, <1>5 DEF Unpriced
    <2>2. Handled(trades, pc[r], calc[r]) = With(BehindOf(calc[r]), CurrentOf(calc[r]))
      BY <1>0, <2>1 DEF Handled
    <2>3. /\ Accounts(trades, With(BehindOf(calc[r]), CurrentOf(calc[r])), calc[r])
          /\ Queues(trades, With(BehindOf(calc[r]), CurrentOf(calc[r])), calc[r])
      BY <1>0, <1>2, <2>2 DEF FifoAt
    <2> QED BY <1>0, <1>1, <1>5, <2>3, FifoAdvance
  <1> QED BY <1>3, <1>4, <1>5 DEF FindFlag, CreateFlag, AfterFlag

LEMMA FifoCreate ==
  ASSUME TypeInv, BookInv, FifoInv, NEW r \in Calcs, CreateLot(r)
  PROVE  FifoInv'
  <1> DEFINE c == calc[r]
             S == BehindOf(c)
             n == CurrentOf(c)
             d == WithIncome(WithLot(r), Tx(r))
  <1>0. pc[r] = "lot:create" /\ pc[r] \in InTrade /\ trades' = trades
    BY DEF CreateLot, InTrade, world
  <1>1. /\ trades \in Seq(Trade) /\ c \in Calculation /\ r \in Running
        /\ S \in SUBSET Positions(trades) /\ n \in Positions(trades) /\ Latest(S, n)
        /\ Tx(r) = trades[n] /\ Tx(r) \in Trade /\ Current(r) = n
    BY <1>0, InLoopFacts
  <1>2. Acquires(trades[n]) /\ Accounts(trades, S, c) /\ Queues(trades, S, c)
    BY <1>0, <1>1 DEF FifoInv, FifoAt, Handled, Flagging
  <1>3. d \in Calculation /\ NextTrade(r, d) /\ Acquisition(r) \in WorkingLot
    BY CreateLotFacts
  <1>4. WithLot(r) = [c EXCEPT !.book[Tx(r).asset] = Append(@, Acquisition(r))]
    BY DEF WithLot
  <1>5. WithLot(r) \in Calculation
    <2>1. Tx(r).asset \in Assets
      BY <1>1 DEF Trade
    <2>2. c.book[Tx(r).asset] \in Seq(WorkingLot)
      BY <1>1, <2>1 DEF Calculation
    <2>3. Append(c.book[Tx(r).asset], Acquisition(r)) \in Seq(WorkingLot)
      BY <1>3, <2>2
    <2> QED BY <1>1, <2>1, <2>3, QueueType DEF WithLot
  <1>6. /\ WithLot(r).book = [c.book EXCEPT ![Tx(r).asset] = Append(@, Acquisition(r))]
        /\ WithLot(r).gain = c.gain /\ WithLot(r).loss = c.loss /\ WithLot(r).income = c.income
        /\ WithLot(r).snapshot = c.snapshot /\ WithLot(r).at = c.at
        /\ c.book \in [Assets -> Seq(WorkingLot)]
    BY <1>1, <1>4 DEF Calculation
  <1>7. d.book = WithLot(r).book /\ d.snapshot = c.snapshot /\ d.at = c.at
    BY <1>1, <1>5, <1>6, IncomeType
  <1>8. /\ Acquisition(r).trade = n /\ Acquisition(r).left = trades[n].quantity
        /\ Acquisition(r).unit = UnitCost(trades[n])
    BY <1>1 DEF Acquisition
  <1> HIDE DEF c, S, n
  <1>9. Accounts(trades, S, WithLot(r))
    BY <1>2, <1>6 DEF Accounts
  <1>10. Accounts(trades, With(S, n), d)
    BY <1>1, <1>2, <1>5, <1>9, AccountsIncome
  <1>11. Queues(trades, With(S, n), d)
    <2> HIDE DEF d
    <2>1. d.book = [c.book EXCEPT ![trades[n].asset] = Append(@, Acquisition(r))]
      BY <1>1, <1>6, <1>7
    <2> QED BY <1>1, <1>2, <1>6, <1>8, <2>1, QueuesNew
  <1> HIDE DEF d
  <1>12. FifoInv'
    BY <1>0, <1>3, <1>7, <1>10, <1>11, FifoAdvance DEF c, S, n
  <1> QED BY <1>12

LEMMA FifoBeginConsumption ==
  ASSUME TypeInv, BookInv, FifoInv, NEW r \in Calcs, BeginConsumption(r)
  PROVE  FifoInv'
  <1> DEFINE c == calc[r]
             d == [c EXCEPT !.owed = Tx(r).quantity, !.cost = 0]
  <1>0. pc[r] = "next" /\ AtTrade(r) /\ trades' = trades /\ Consumes(Tx(r)) /\ Goto(r, "take", d)
    BY DEF BeginConsumption, AtTrade, world
  <1>1. /\ trades \in Seq(Trade) /\ c \in Calculation /\ r \in Running
        /\ BehindOf(c) \in SUBSET Positions(trades) /\ CurrentOf(c) \in Positions(trades)
        /\ Tx(r) = trades[CurrentOf(c)]
    BY <1>0, InLoopFacts
  <1>2. FifoAt(trades, "next", c)
    BY <1>0, <1>1 DEF FifoInv
  <1>3. /\ d.snapshot = c.snapshot /\ d.at = c.at /\ d.book = c.book /\ d.gain = c.gain
        /\ d.loss = c.loss /\ d.income = c.income /\ d.owed = Tx(r).quantity /\ d.cost = 0
    BY <1>1 DEF Calculation
  <1> HIDE DEF c, d
  <1>4. BehindOf(d) = BehindOf(c) /\ CurrentOf(d) = CurrentOf(c)
    BY <1>3 DEF BehindOf, CurrentOf
  <1>5. Handled(trades, "next", c) = BehindOf(c) /\ Handled(trades, "take", d) = BehindOf(c)
    BY <1>4 DEF Handled, Flagging
  <1>6. Accounts(trades, BehindOf(c), d)
    BY <1>2, <1>3, <1>5 DEF FifoAt, Accounts
  <1>7. Consuming(trades, BehindOf(c), d)
    <2>1. Queues(trades, BehindOf(c), c)
      BY <1>2, <1>5 DEF FifoAt
    <2>2. d.owed = trades[CurrentOf(c)].quantity /\ Consumes(trades[CurrentOf(c)])
      BY <1>0, <1>1, <1>3
    <2> QED BY <1>1, <1>3, <2>1, <2>2, ConsumingStarts
  <1>8. FifoAt(trades, "take", d)
    BY <1>2, <1>3, <1>4, <1>5, <1>6, <1>7 DEF FifoAt, Flagging
  <1> QED BY <1>0, <1>1, <1>8, FifoMove

LEMMA FifoConsume ==
  ASSUME TypeInv, BookInv, FifoInv, NEW r \in Calcs, ConsumeLot(r)
  PROVE  FifoInv'
  <1> DEFINE c == calc[r]
             a == Tx(r).asset
             x == Taken(r)
             d == [c EXCEPT
               !.book[Tx(r).asset] = Shortened(@, Taken(r)),
               !.owed = @ - Taken(r),
               !.cost = @ + Taken(r) * Head(Queue(r)).unit]
  <1>0. /\ pc[r] = "take" /\ pc[r] \in InTrade /\ CanTake(r) /\ trades' = trades
        /\ Goto(r, "take", d)
    BY DEF ConsumeLot, CanTake, InTrade, world
  <1>1. /\ trades \in Seq(Trade) /\ c \in Calculation /\ r \in Running
        /\ BehindOf(c) \in SUBSET Positions(trades) /\ CurrentOf(c) \in Positions(trades)
        /\ Tx(r) = trades[CurrentOf(c)] /\ Tx(r) \in Trade
    BY <1>0, InLoopFacts
  <1>2. FifoAt(trades, "take", c)
    BY <1>0, <1>1 DEF FifoInv
  <1>3. /\ a \in Assets /\ c.book[a] \in Seq(WorkingLot) /\ c.book[a] # <<>>
        /\ Queue(r) = c.book[a] /\ Head(Queue(r)) = c.book[a][1]
        /\ x \in Nat /\ x <= c.book[a][1].left /\ x <= c.owed
    <2>1. Queue(r) = c.book[a] /\ a \in Assets
      BY <1>1 DEF Queue, Trade
    <2>2. /\ Queue(r) \in Seq(WorkingLot) /\ Queue(r) # <<>>
          /\ x \in Nat /\ x <= Head(Queue(r)).left /\ x <= c.owed
      BY <1>0, ConsumeFacts
    <2>3. Head(Queue(r)) = c.book[a][1]
      BY <2>1, <2>2
    <2> QED BY <2>1, <2>2, <2>3
  <1>4. /\ d.snapshot = c.snapshot /\ d.at = c.at
        /\ d.book = [c.book EXCEPT ![a] = Shortened(@, x)] /\ d.gain = c.gain
        /\ d.loss = c.loss /\ d.income = c.income /\ d.owed = c.owed - x
        /\ d.cost = c.cost + x * Head(Queue(r)).unit
    <2> HIDE DEF x
    <2> QED BY <1>1 DEF Calculation, x
  <1> HIDE DEF c, d, a, x
  <1>5. BehindOf(d) = BehindOf(c) /\ CurrentOf(d) = CurrentOf(c)
    BY <1>4 DEF BehindOf, CurrentOf
  <1>6. Handled(trades, "take", c) = BehindOf(c) /\ Handled(trades, "take", d) = BehindOf(c)
    BY <1>5 DEF Handled, Flagging
  <1>7. Accounts(trades, BehindOf(c), d)
    BY <1>2, <1>4, <1>6 DEF FifoAt, Accounts
  <1>8. Consuming(trades, BehindOf(c), d)
    <2>1. Consuming(trades, BehindOf(c), c)
      BY <1>2 DEF FifoAt
    <2>2. a = trades[CurrentOf(c)].asset
      BY <1>1 DEF a
    <2>3. Leave(c, d, a, x)
      BY <1>3, <1>4 DEF Leave
    <2> QED BY <1>1, <1>3, <2>1, <2>2, <2>3, ConsumingGoesOn
  <1>9. FifoAt(trades, "take", d)
    BY <1>2, <1>4, <1>5, <1>6, <1>7, <1>8 DEF FifoAt, Flagging
  <1> QED BY <1>0, <1>1, <1>9, FifoMove

LEMMA FifoFinishConsumption ==
  ASSUME TypeInv, BookInv, FifoInv, NEW r \in Calcs, FinishConsumption(r)
  PROVE  FifoInv'
  <1> DEFINE c == calc[r]
             S == BehindOf(c)
             n == CurrentOf(c)
  <1>0. pc[r] = "take" /\ pc[r] \in InTrade /\ trades' = trades
    BY DEF FinishConsumption, InTrade, world
  <1>1. /\ trades \in Seq(Trade) /\ c \in Calculation /\ r \in Running
        /\ S \in SUBSET Positions(trades) /\ n \in Positions(trades) /\ Latest(S, n)
        /\ Tx(r) = trades[n] /\ Tx(r) \in Trade /\ InLoop(c)
    BY <1>0, InLoopFacts
  <1>2. /\ Consumes(trades[n]) /\ Accounts(trades, S, c) /\ Consuming(trades, S, c)
    BY <1>0, <1>1 DEF FifoInv, FifoAt, Handled, Flagging, Consuming
  <1>3. c.owed = 0 \/ c.book[trades[n].asset] = <<>>
    BY <1>1 DEF FinishConsumption, Queue
  <1>4. /\ Queues(trades, With(S, n), c) /\ c.cost = CostOf(trades, With(S, n), n)
    BY <1>1, <1>2, <1>3, ConsumingEnds
  <1>5. ~ Acquires(trades[n])
    BY <1>1, <1>2, KindsApart
  <1>6. \/ Tx(r).type # "SELL" /\ NextTrade(r, c)
        \/ Tx(r).type = "SELL" /\ Tx(r).unit = Nil /\ Goto(r, "flag:find", c)
        \/ Tx(r).type = "SELL" /\ Tx(r).unit # Nil /\ NextTrade(r, WithResult(c, Tx(r)))
    BY DEF FinishConsumption, DISPOSAL_TYPES
  <1> HIDE DEF c, S, n
  <1>7. CASE Tx(r).type # "SELL" /\ NextTrade(r, c)
    <2>1. \A y \in Years : ~ Priced(trades[n], y) /\ ~ Earns(trades[n], y)
      BY <1>1, <1>5, <1>7 DEF Priced, Earns
    <2>2. Accounts(trades, With(S, n), c)
      BY <1>1, <1>2, <2>1, AccountsSame
    <2> QED BY <1>0, <1>1, <1>4, <1>7, <2>2, FifoAdvance DEF c, S, n
  <1>8. CASE Tx(r).type = "SELL" /\ Tx(r).unit = Nil /\ Goto(r, "flag:find", c)
    <2>1. \A y \in Years : ~ Priced(trades[n], y) /\ ~ Earns(trades[n], y)
      BY <1>1, <1>5, <1>8 DEF Priced, Earns
    <2>2. Accounts(trades, With(S, n), c)
      BY <1>1, <1>2, <2>1, AccountsSame
    <2>3. Handled(trades, "flag:find", c) = With(S, n)
      BY <1>2 DEF Handled, Flagging, S, n
    <2>4. Unpriced(trades[n]) /\ c.at <= Len(c.snapshot) + 1
      <3>1. c.at <= Len(c.snapshot) /\ c.at \in Nat /\ Len(c.snapshot) \in Nat
        BY <1>1 DEF InLoop, Calculation
      <3> QED BY <1>1, <1>2, <1>8, <3>1 DEF Unpriced
    <2>5. FifoAt(trades, "flag:find", c)
      BY <1>4, <2>2, <2>3, <2>4 DEF FifoAt, n
    <2> QED BY <1>0, <1>1, <1>8, <2>5, FifoMove
  <1>9. CASE Tx(r).type = "SELL" /\ Tx(r).unit # Nil /\ NextTrade(r, WithResult(c, Tx(r)))
    <2> DEFINE d == WithResult(c, Tx(r))
    <2>1. d \in Calculation /\ d.snapshot = c.snapshot /\ d.at = c.at /\ d.book = c.book
      BY <1>1, <1>9, ResultType
    <2>2. Accounts(trades, With(S, n), d)
      BY <1>1, <1>2, <1>4, <1>9, AccountsResult
    <2> HIDE DEF d
    <2>3. Queues(trades, With(S, n), d)
      BY <1>4, <2>1 DEF Queues
    <2>4. NextTrade(r, d)
      BY <1>9 DEF d
    <2> QED BY <1>0, <1>1, <2>1, <2>2, <2>3, <2>4, FifoAdvance DEF c, S, n
  <1> QED BY <1>6, <1>7, <1>8, <1>9

\* A calculation that begins has nothing behind it.
LEMMA NothingBehind ==
  ASSUME NEW h \in Seq(Trade), NEW c, c.at = 1, c.snapshot \in Seq(Positions(h)),
         c.gain = NoTotals, c.loss = NoTotals, c.income = NoTotals,
         c.book = [a \in Assets |-> <<>>]
  PROVE  FifoAt(h, "delete", c)
  <1>1. BehindOf(c) = {}
    BY DEF BehindOf
  <1>2. Handled(h, "delete", c) = {}
    BY <1>1 DEF Handled, Flagging
  <1>3. Len(h) \in Nat /\ c.at <= Len(c.snapshot) + 1
    OBVIOUS
  <1>4. ASSUME NEW y \in Years
        PROVE  GainOf(h, {}, y) = 0 /\ LossOf(h, {}, y) = 0 /\ IncomeOf(h, {}, y) = 0
    <2>1. PricedSales(h, {}, y) = {} /\ OccasionalIncome(h, {}, y) = {}
      BY DEF PricedSales, OccasionalIncome
    <2>2. /\ Summable(Gains(h, {}, y)) /\ \A k : At(Gains(h, {}, y), k) = 0
          /\ Summable(Losses(h, {}, y)) /\ \A k : At(Losses(h, {}, y), k) = 0
          /\ Summable(Incomes(h, {}, y)) /\ \A k : At(Incomes(h, {}, y), k) = 0
      BY <2>1 DEF Gains, Losses, Incomes, Summable, At
    <2>3. /\ SumTo(Gains(h, {}, y), Len(h)) = 0 /\ SumTo(Losses(h, {}, y), Len(h)) = 0
          /\ SumTo(Incomes(h, {}, y), Len(h)) = 0
      BY <1>3, <2>2, SumEmpty
    <2> QED BY <2>3 DEF GainOf, LossOf, IncomeOf, SumOver, Gains, Losses, Incomes
  <1>5. Accounts(h, {}, c)
    BY <1>4 DEF Accounts, NoTotals
  <1>6. Queues(h, {}, c)
    BY DEF Queues, QueueIs, Lots
  <1> QED BY <1>2, <1>3, <1>5, <1>6 DEF FifoAt, Flagging

\* What else a calculation remembers does not matter.
LEMMA FifoSame ==
  ASSUME NEW h, NEW s, NEW c, NEW d, FifoAt(h, s, c),
         d.at = c.at, d.snapshot = c.snapshot, d.book = c.book, d.gain = c.gain,
         d.loss = c.loss, d.income = c.income, d.owed = c.owed, d.cost = c.cost
  PROVE  FifoAt(h, s, d)
  <1>1. CurrentOf(d) = CurrentOf(c) /\ BehindOf(d) = BehindOf(c)
    BY DEF CurrentOf, BehindOf
  <1>2. Handled(h, s, d) = Handled(h, s, c)
    BY <1>1 DEF Handled
  <1>3. \A S : /\ Gotten(h, S, d) = Gotten(h, S, c)
               /\ Consuming(h, S, c) => Consuming(h, S, d)
    BY <1>1 DEF Gotten, Consuming
  <1> QED BY <1>1, <1>2, <1>3 DEF FifoAt, Accounts, Queues

LEMMA FifoBegin ==
  ASSUME TypeInv, FifoInv, NEW r \in Calcs, NEW y \in Years, BeginCalculation(r, y)
  PROVE  FifoInv'
  <1>1. PICK order \in Ordered(Counted) :
          calc' = [q \in Calcs |->
            IF q = r THEN NewCalculation(y, order)
            ELSE IF q \in Running THEN [calc[q] EXCEPT !.alone = FALSE]
            ELSE calc[q]]
    BY DEF BeginCalculation
  <1>2. /\ r \notin Running /\ Running' = Running \cup {r} /\ trades' = trades
        /\ pc' = [pc EXCEPT ![r] = "delete"] /\ pc \in [Calcs -> Steps]
    BY DEF BeginCalculation, Running, TypeInv, TypeOK, world
  <1>3. trades \in Seq(Trade) /\ order \in Seq(Positions(trades))
    <2>1. trades \in Seq(Trade) /\ Counted \in SUBSET Indices
      BY HistoryAssumption DEF TypeInv, TypeOK, Counted
    <2>2. order \in Seq(Indices)
      BY <2>1, OrderedIsSeq
    <2> QED BY <2>1, <2>2 DEF Positions, Indices
  <1>4. FifoAt(trades, "delete", NewCalculation(y, order))
    <2> DEFINE c == NewCalculation(y, order)
    <2>1. /\ c.at = 1 /\ c.snapshot = order /\ c.gain = NoTotals /\ c.loss = NoTotals
          /\ c.income = NoTotals /\ c.book = [a \in Assets |-> <<>>]
      BY DEF NewCalculation
    <2> HIDE DEF c
    <2> QED BY <1>3, <2>1, NothingBehind DEF c
  <1>5. ASSUME NEW q \in Running PROVE FifoAt(trades, pc[q], calc'[q])
    <2>1. calc[q] \in Calculation /\ calc'[q] = [calc[q] EXCEPT !.alone = FALSE]
      BY <1>1, <1>2 DEF TypeInv, TypeOK, Running
    <2>2. /\ calc'[q].at = calc[q].at /\ calc'[q].snapshot = calc[q].snapshot
          /\ calc'[q].book = calc[q].book /\ calc'[q].gain = calc[q].gain
          /\ calc'[q].loss = calc[q].loss /\ calc'[q].income = calc[q].income
          /\ calc'[q].owed = calc[q].owed /\ calc'[q].cost = calc[q].cost
      BY <2>1 DEF Calculation
    <2>3. FifoAt(trades, pc[q], calc[q])
      BY DEF FifoInv
    <2> QED BY <2>2, <2>3, FifoSame
  <1>6. calc'[r] = NewCalculation(y, order) /\ pc'[r] = "delete"
    BY <1>1, <1>2
  <1>7. \A q \in Running : pc'[q] = pc[q]
    BY <1>2 DEF Running
  <1> QED BY <1>2, <1>4, <1>5, <1>6, <1>7 DEF FifoInv

LEMMA FifoDelete ==
  ASSUME TypeInv, FifoInv, NEW r \in Calcs, DeleteLots(r)
  PROVE  FifoInv'
  <1>1. r \in Running /\ pc[r] = "delete" /\ Goto(r, "next", calc[r]) /\ trades' = trades
    BY DEF DeleteLots, Running, world
  <1>2. FifoAt(trades, "delete", calc[r])
    BY <1>1 DEF FifoInv
  <1>3. FifoAt(trades, "next", calc[r])
    BY <1>2 DEF FifoAt, Handled, Flagging
  <1> QED BY <1>1, <1>3, FifoMove

LEMMA FifoStep == TypeInv /\ BookInv /\ FifoInv /\ [Next]_vars => FifoInv'
  <1> SUFFICES ASSUME TypeInv, BookInv, FifoInv, [Next]_vars PROVE FifoInv'
    OBVIOUS
  <1>1. CASE \E r \in Calcs, y \in Years : BeginCalculation(r, y)
    BY <1>1, FifoBegin
  <1>2. ASSUME NEW r \in Calcs, Step(r) \/ Abort(r) PROVE FifoInv'
    <2>1. CASE PersistSummary(r) \/ LoseLot(r) \/ Abort(r)
      BY <2>1, FifoFinish DEF PersistSummary, LoseLot, Abort, world
    <2>2. CASE Step(r) /\ ~ PersistSummary(r) /\ ~ LoseLot(r)
      BY <2>2, FifoDelete, FifoSkip, FifoBeginAcquisition, FifoFlag, FifoCreate,
         FifoBeginConsumption, FifoConsume, FifoFinishConsumption
         DEF Step, AcquireStep, ConsumeStep
    <2> QED BY <1>2, <2>1, <2>2
  <1>3. ASSUME UNCHANGED <<trades, pc, calc>> PROVE FifoInv'
    BY <1>3 DEF FifoInv, Running
  <1>4. CASE (\E i \in Indices : Ingest(i)) \/ (\E i, j \in Indices : PairTransfer(i, j))
    BY <1>3, <1>4 DEF Ingest, PairTransfer
  <1>5. CASE UNCHANGED vars
    BY <1>3, <1>5 DEF vars
  <1> QED BY <1>1, <1>2, <1>4, <1>5 DEF Next

LEMMA FifoInit == Init => FifoInv
  BY DEF Init, FifoInv, Running

\* Between two trades the books and totals are those of the trades behind.
LEMMA AtNext ==
  ASSUME TypeInv, BookInv, FifoInv, NEW r \in Calcs, pc[r] = "next"
  PROVE  /\ trades \in Seq(Trade) /\ calc[r] \in Calculation
         /\ Behind(r) \in SUBSET Positions(trades)
         /\ Accounts(trades, Behind(r), calc[r]) /\ Queues(trades, Behind(r), calc[r])
  <1>1. trades \in Seq(Trade) /\ r \in Running /\ calc[r] \in Calculation
    BY HistoryAssumption DEF TypeInv, TypeOK, Running
  <1>2. FifoAt(trades, "next", calc[r])
    BY <1>1 DEF FifoInv
  <1>3. Behind(r) = BehindOf(calc[r])
    BY DEF Behind, BehindOf
  <1>4. Handled(trades, "next", calc[r]) = Behind(r)
    BY <1>3 DEF Handled, Flagging
  <1>5. Behind(r) \in SUBSET Positions(trades)
    <2>1. /\ calc[r].at \in Nat /\ calc[r].snapshot \in Seq(Indices)
          /\ calc[r].at <= Len(calc[r].snapshot) + 1
      BY <1>1, <1>2 DEF FifoAt, Calculation
    <2>2. \A k \in 1..(calc[r].at - 1) : k \in 1..Len(calc[r].snapshot)
      BY <2>1
    <2> QED BY <2>1, <2>2 DEF Behind, Positions, Indices
  <1> QED BY <1>1, <1>2, <1>4, <1>5 DEF FifoAt

\* A queue is as long as it has open lots.
LEMMA QueueLength ==
  ASSUME NEW queue \in Seq(WorkingLot), NEW open,
         \A k \in DOMAIN queue : queue[k].trade \in open,
         \A j, k \in DOMAIN queue : j < k => queue[j].trade < queue[k].trade,
         \A i \in open : \E k \in DOMAIN queue : queue[k].trade = i,
         \A i \in open : i \in Nat
  PROVE  Len(queue) = Cardinality(open)
  <1>1. Len(queue) \in Nat /\ DOMAIN queue = 1..Len(queue)
    OBVIOUS
  <1> DEFINE f == [k \in 1..Len(queue) |-> queue[k].trade]
  <1>2. f \in [1..Len(queue) -> open]
    BY <1>1
  <1>3. ASSUME NEW j \in 1..Len(queue), NEW k \in 1..Len(queue), f[j] = f[k]
        PROVE  j = k
    <2>1. queue[j].trade = queue[k].trade /\ queue[j].trade \in Nat
      BY <1>1, <1>3
    <2>2. ~ (j < k) /\ ~ (k < j)
      BY <1>1, <2>1
    <2> QED BY <2>2
  <1>4. \A i \in open : \E k \in 1..Len(queue) : f[k] = i
    BY <1>1
  <1> HIDE DEF f
  <1>5. f \in Bijection(1..Len(queue), open)
    BY <1>2, <1>3, <1>4 DEF Bijection, Injection, Surjection, IsInjective
  <1>6. ExistsBijection(1..Len(queue), open)
    BY <1>5 DEF ExistsBijection
  <1> QED BY <1>1, <1>6, FS_CountingElements

LEMMA ExactQueues ==
  ASSUME NEW h \in Seq(Trade), NEW S \in SUBSET Positions(h), NEW a \in Assets,
         NEW queue \in Seq(WorkingLot), QueueIs(h, S, a, queue, GoneBy(h, S, a))
  PROVE  LET open == {i \in Lots(h, S, a) : LeftOf(h, S, i) > 0} IN
         /\ Len(queue) = Cardinality(open)
         /\ \A k \in DOMAIN queue :
              /\ queue[k].trade \in open
              /\ queue[k].left = LeftOf(h, S, queue[k].trade)
              /\ k > 1 => queue[k - 1].trade < queue[k].trade
  <1> DEFINE open == {i \in Lots(h, S, a) : LeftOf(h, S, i) > 0}
  <1>1. \A i \in Lots(h, S, a) : LeftOf(h, S, i) = LeftWhen(h, S, i, GoneBy(h, S, a)) /\ i \in Nat
    BY DEF LeftOf, GoneBy, Lots, Positions
  <1>2. \A k \in DOMAIN queue :
          /\ queue[k].trade \in Lots(h, S, a)
          /\ queue[k].left = LeftWhen(h, S, queue[k].trade, GoneBy(h, S, a)) /\ queue[k].left > 0
    BY DEF QueueIs
  <1>3. \A k \in DOMAIN queue : queue[k].left = LeftOf(h, S, queue[k].trade) /\ queue[k].trade \in open
    BY <1>1, <1>2
  <1>4. \A j, k \in DOMAIN queue : j < k => queue[j].trade < queue[k].trade
    BY DEF QueueIs
  <1>5. \A i \in open : \E k \in DOMAIN queue : queue[k].trade = i
    BY <1>1 DEF QueueIs
  <1>6. \A i \in open : i \in Nat
    BY <1>1
  <1> HIDE DEF open
  <1>7. Len(queue) = Cardinality(open)
    BY <1>3, <1>4, <1>5, <1>6, QueueLength
  <1>8. \A k \in DOMAIN queue : k > 1 => k - 1 \in DOMAIN queue /\ k - 1 < k
    OBVIOUS
  <1> QED BY <1>3, <1>4, <1>7, <1>8 DEF open

LEMMA FifoImplies == TypeInv /\ BookInv /\ FifoInv => FifoExact
  <1> SUFFICES ASSUME TypeInv, BookInv, FifoInv, NEW r \in Calcs, pc[r] = "next"
               PROVE  LET S == Behind(r) IN
                      /\ \A y \in Years : /\ calc[r].gain[y] = GainOf(trades, S, y)
                                          /\ calc[r].loss[y] = LossOf(trades, S, y)
                                          /\ calc[r].income[y] = IncomeOf(trades, S, y)
                      /\ \A a \in Assets :
                           LET queue == calc[r].book[a]
                               open  == {i \in Lots(trades, S, a) : LeftOf(trades, S, i) > 0}
                           IN /\ Len(queue) = Cardinality(open)
                              /\ \A k \in DOMAIN queue :
                                   /\ queue[k].trade \in open
                                   /\ queue[k].left = LeftOf(trades, S, queue[k].trade)
                                   /\ k > 1 => queue[k - 1].trade < queue[k].trade
    BY DEF FifoExact
  <1>1. /\ trades \in Seq(Trade) /\ calc[r] \in Calculation
        /\ Behind(r) \in SUBSET Positions(trades)
        /\ Accounts(trades, Behind(r), calc[r]) /\ Queues(trades, Behind(r), calc[r])
    BY AtNext
  <1>2. \A a \in Assets : /\ calc[r].book[a] \in Seq(WorkingLot)
                          /\ QueueIs(trades, Behind(r), a, calc[r].book[a], GoneBy(trades, Behind(r), a))
    BY <1>1 DEF Queues, Calculation
  <1>3. \A a \in Assets :
          LET queue == calc[r].book[a]
              open  == {i \in Lots(trades, Behind(r), a) : LeftOf(trades, Behind(r), i) > 0}
          IN /\ Len(queue) = Cardinality(open)
             /\ \A k \in DOMAIN queue :
                  /\ queue[k].trade \in open
                  /\ queue[k].left = LeftOf(trades, Behind(r), queue[k].trade)
                  /\ k > 1 => queue[k - 1].trade < queue[k].trade
    BY <1>1, <1>2, ExactQueues
  <1> QED BY <1>1, <1>3 DEF Accounts

LEMMA FifoHolds == Spec => [](TypeInv /\ BookInv /\ FifoInv)
  <1>1. Init => TypeInv /\ BookInv /\ FifoInv
    BY TypeInit, BookInit, FifoInit
  <1>2. TypeInv /\ BookInv /\ FifoInv /\ [Next]_vars => (TypeInv /\ BookInv /\ FifoInv)'
    BY TypeStep, BookStep, FifoStep
  <1> QED BY <1>1, <1>2, PTL DEF Spec

\* FifoExact: whatever calculations overlap, the totals and queues of each are
\* those that first in, first out gives for the trades behind it.
THEOREM FifoIsExact == Spec => []FifoExact
  BY FifoHolds, FifoImplies, PTL

\* Only a calculation that has no trade left writes a summary.
LEMMA SummaryWritten ==
  ASSUME TypeInv, [Next]_vars, summary' # summary
  PROVE  \E r \in Calcs : PersistSummary(r)
  BY DEF Next, vars, BeginCalculation, Step, DeleteLots, SkipTrade, AcquireStep, BeginAcquisition,
         FindFlag, CreateFlag, CreateLot, ConsumeStep, BeginConsumption, ConsumeLot, LoseLot,
         FinishConsumption, Abort, Ingest, PairTransfer

\* Exemptions, however the code subtracts them.
LEMMA TaxableIs ==
  ASSUME NEW y \in Years, NEW gain \in Nat, NEW loss \in Nat, NEW income \in Nat
  PROVE  LET s == SummaryOf(y, gain, loss, income) IN
         /\ s.net = gain - loss /\ s.income = income
         /\ s.taxable = Positive(gain - loss - CapitalExemption[y])
                          + Positive(income - OccasionalExemption[y])
  <1>1. CapitalExemption[y] \in Nat /\ OccasionalExemption[y] \in Nat
    BY ExemptionAssumption
  <1>2. PICK net \in Int : net = gain - loss
    OBVIOUS
  <1> DEFINE used == IF net > 0 THEN Smaller(net, CapitalExemption[y]) ELSE 0
  <1>3. Positive(net - used) = Positive(net - CapitalExemption[y])
    BY <1>1 DEF Positive, Smaller
  <1>4. Positive(income - Smaller(income, OccasionalExemption[y]))
          = Positive(income - OccasionalExemption[y])
    BY <1>1 DEF Positive, Smaller
  <1> QED BY <1>2, <1>3, <1>4 DEF SummaryOf

LEMMA SummaryIsExact ==
  ASSUME TypeInv, BookInv, FifoInv, [Next]_vars, NEW y \in Years, summary'[y] # summary[y]
  PROVE  \E r \in Calcs :
           /\ pc[r] = "next" /\ calc[r].at > Len(calc[r].snapshot) /\ calc[r].year = y
           /\ LET S == Behind(r)
                  net == GainOf(trades, S, y) - LossOf(trades, S, y)
              IN /\ summary'[y].net = net /\ summary'[y].income = IncomeOf(trades, S, y)
                 /\ summary'[y].taxable = Positive(net - CapitalExemption[y])
                      + Positive(IncomeOf(trades, S, y) - OccasionalExemption[y])
  <1>1. PICK r \in Calcs : PersistSummary(r)
    BY SummaryWritten
  <1>2. pc[r] = "next" /\ calc[r].at > Len(calc[r].snapshot)
    BY <1>1 DEF PersistSummary
  <1>3. /\ trades \in Seq(Trade) /\ calc[r] \in Calculation
        /\ Behind(r) \in SUBSET Positions(trades) /\ Accounts(trades, Behind(r), calc[r])
    BY <1>2, AtNext
  <1> DEFINE gain == GainOf(trades, Behind(r), y)
             loss == LossOf(trades, Behind(r), y)
             income == IncomeOf(trades, Behind(r), y)
  <1>4. calc[r].gain[y] = gain /\ calc[r].loss[y] = loss /\ calc[r].income[y] = income
    BY <1>3 DEF Accounts
  <1>5. gain \in Nat /\ loss \in Nat /\ income \in Nat
    BY <1>3, TotalTypes
  <1> HIDE DEF gain, loss, income
  <1>6. calc[r].year = y /\ summary'[y] = SummaryOf(y, gain, loss, income)
    <2>1. summary' = [summary EXCEPT ![calc[r].year] =
             SummaryOf(calc[r].year, calc[r].gain[calc[r].year], calc[r].loss[calc[r].year],
                       calc[r].income[calc[r].year])]
      BY <1>1 DEF PersistSummary
    <2>2. summary \in [Years -> Summary \cup {Nil}]
      BY DEF TypeInv, TypeOK
    <2>3. calc[r].year = y
      BY <2>1, <2>2
    <2> QED BY <1>4, <2>1, <2>2, <2>3
  <1>7. /\ summary'[y].net = gain - loss /\ summary'[y].income = income
        /\ summary'[y].taxable = Positive(gain - loss - CapitalExemption[y])
             + Positive(income - OccasionalExemption[y])
    BY <1>5, <1>6, TaxableIs
  <1> QED BY <1>2, <1>6, <1>7 DEF gain, loss, income

\* SummaryExact: a summary is stored only by a calculation that has every trade
\* of its snapshot behind it, and says what first in, first out gives for them.
THEOREM SummariesAreExact == Spec => SummaryExact
  <1>1. TypeInv /\ BookInv /\ FifoInv /\ [Next]_vars =>
          [\A y \in Years : summary'[y] # summary[y] =>
             \E r \in Calcs :
               /\ pc[r] = "next" /\ calc[r].at > Len(calc[r].snapshot) /\ calc[r].year = y
               /\ LET S == Behind(r)
                      net == GainOf(trades, S, y) - LossOf(trades, S, y)
                  IN /\ summary'[y].net = net /\ summary'[y].income = IncomeOf(trades, S, y)
                     /\ summary'[y].taxable = Positive(net - CapitalExemption[y])
                          + Positive(IncomeOf(trades, S, y) - OccasionalExemption[y])]_vars
    BY SummaryIsExact
  <1> QED BY <1>1, FifoHolds, PTL DEF Spec, SummaryExact

----------------------------------------------------------------------------
\* Flags of unpriced trades

\* What is behind a calculation, and what it is about to make a lot of, is
\* flagged when it has no price.
FlagsAt(h, fl, s, c) ==
  \A i \in Positions(h) :
    /\ Unpriced(h[i])
    /\ i \in BehindOf(c) \/ (s = "lot:create" /\ i = CurrentOf(c))
    => fl[i] > 0
OnlyUnpriced(h, fl) == \A i \in Positions(h) : fl[i] > 0 => Unpriced(h[i])
FlagInv ==
  /\ OnlyUnpriced(trades, flags)
  /\ \A r \in Running : FlagsAt(trades, flags, pc[r], calc[r])

MoreFlags(h, fl, gl) == \A i \in Positions(h) : fl[i] > 0 => gl[i] > 0

LEMMA FlagsMove ==
  ASSUME TypeInv, FlagInv, NEW r \in Running, NEW s, s # "idle", NEW c, Goto(r, s, c),
         trades' = trades, MoreFlags(trades, flags, flags'), OnlyUnpriced(trades, flags'),
         FlagsAt(trades, flags', s, c)
  PROVE  FlagInv'
  <1>1. Running' = Running
    BY DEF Goto, Running, TypeInv, TypeOK
  <1>2. \A q \in Running : /\ pc'[q] = IF q = r THEN s ELSE pc[q]
                           /\ calc'[q] = IF q = r THEN c ELSE calc[q]
    BY DEF Goto, Running, TypeInv, TypeOK
  <1>3. \A q \in Running : FlagsAt(trades, flags', pc[q], calc[q])
    BY DEF FlagInv, FlagsAt, MoreFlags
  <1>4. \A q \in Running : FlagsAt(trades, flags', pc'[q], calc'[q])
    BY <1>2, <1>3
  <1> QED BY <1>1, <1>4 DEF FlagInv

LEMMA FlagsFinish ==
  ASSUME TypeInv, FlagInv, NEW r \in Calcs, Finish(r), trades' = trades, flags' = flags
  PROVE  FlagInv'
  <1>1. \A q \in Running' : q \in Running /\ calc'[q] = calc[q] /\ pc'[q] = pc[q]
    BY DEF Finish, Goto, Running, TypeInv, TypeOK
  <1> QED BY <1>1 DEF FlagInv

LEMMA FlagsSame ==
  ASSUME FlagInv, flags' = flags
  PROVE  MoreFlags(trades, flags, flags') /\ OnlyUnpriced(trades, flags')
  BY DEF FlagInv, MoreFlags

\* The loop counter moves on: the trade at hand is flagged when it has no price.
LEMMA FlagsAdvance ==
  ASSUME TypeInv, BookInv, FlagInv, NEW r \in Calcs, pc[r] \in InTrade \/ AtTrade(r),
         NEW c \in Calculation, c.snapshot = calc[r].snapshot, c.at = calc[r].at,
         NextTrade(r, c), trades' = trades,
         MoreFlags(trades, flags, flags'), OnlyUnpriced(trades, flags'),
         Unpriced(Tx(r)) => flags'[Current(r)] > 0
  PROVE  FlagInv'
  <1> DEFINE d == [c EXCEPT !.at = @ + 1]
  <1>1. /\ trades \in Seq(Trade) /\ r \in Running /\ InLoop(calc[r]) /\ Distinct(calc[r])
        /\ calc[r] \in Calculation /\ Tx(r) = trades[CurrentOf(calc[r])]
        /\ Current(r) = CurrentOf(calc[r])
    BY InLoopFacts
  <1>2. Goto(r, "next", d)
    BY DEF NextTrade
  <1>3. d.snapshot = c.snapshot /\ d.at = c.at + 1
    BY DEF Calculation
  <1> HIDE DEF d
  <1>4. BehindOf(d) = With(BehindOf(calc[r]), CurrentOf(calc[r]))
    BY <1>1, <1>3, BehindGrows
  <1>5. FlagsAt(trades, flags', "next", d)
    BY <1>1, <1>4 DEF FlagInv, FlagsAt, MoreFlags, With
  <1> QED BY <1>1, <1>2, <1>5, FlagsMove

LEMMA FlagsFlag ==
  ASSUME TypeInv, BookInv, FifoInv, FlagInv, NEW r \in Calcs, FindFlag(r) \/ CreateFlag(r)
  PROVE  FlagInv'
  <1>0. pc[r] \in Flagging /\ pc[r] \in InTrade /\ pc[r] # "lot:create" /\ trades' = trades
    BY DEF FindFlag, CreateFlag, Flagging, InTrade, world
  <1>1. /\ r \in Running /\ Tx(r) = trades[CurrentOf(calc[r])]
        /\ calc[r] \in Calculation /\ Current(r) = CurrentOf(calc[r])
        /\ Current(r) \in Positions(trades)
    BY <1>0, InLoopFacts
  <1>2. Unpriced(Tx(r))
    BY <1>0, <1>1 DEF FifoInv, FifoAt
  <1>3. flags \in [Positions(trades) -> Nat]
    BY DEF TypeInv, TypeOK, Positions, Indices
  <1>4. MoreFlags(trades, flags, flags') /\ OnlyUnpriced(trades, flags')
    <2>1. CASE FindFlag(r)
      BY <2>1, FlagsSame DEF FindFlag
    <2>2. CASE CreateFlag(r)
      <3>1. flags' = [flags EXCEPT ![Current(r)] = @ + 1]
        BY <2>2 DEF CreateFlag
      <3>2. \A i \in Positions(trades) : flags'[i] = IF i = Current(r) THEN flags[i] + 1 ELSE flags[i]
        BY <1>3, <3>1
      <3> QED BY <1>1, <1>2, <1>3, <3>2 DEF MoreFlags, OnlyUnpriced, FlagInv
    <2> QED BY <2>1, <2>2
  <1>5. FlagsAt(trades, flags', pc[r], calc[r])
    BY <1>1, <1>4 DEF FlagInv, FlagsAt, MoreFlags
  <1>6. CASE Goto(r, "flag:create", calc[r])
    <2>1. FlagsAt(trades, flags', "flag:create", calc[r])
      BY <1>5 DEF FlagsAt
    <2> QED BY <1>0, <1>1, <1>4, <1>6, <2>1, FlagsMove
  <1>7. CASE flags'[Current(r)] > 0 /\ Goto(r, "lot:create", calc[r])
    <2>1. FlagsAt(trades, flags', "lot:create", calc[r])
      BY <1>1, <1>5, <1>7 DEF FlagsAt
    <2> QED BY <1>0, <1>1, <1>4, <1>7, <2>1, FlagsMove
  <1>8. CASE flags'[Current(r)] > 0 /\ NextTrade(r, calc[r])
    BY <1>0, <1>1, <1>4, <1>8, FlagsAdvance
  <1>9. ASSUME CreateFlag(r) PROVE flags'[Current(r)] > 0
    <2>1. flags' = [flags EXCEPT ![Current(r)] = @ + 1]
      BY <1>9 DEF CreateFlag
    <2> QED BY <1>1, <1>3, <2>1
  <1>10. ASSUME FindFlag(r), ~ Goto(r, "flag:create", calc[r]) PROVE flags'[Current(r)] > 0 /\ AfterFlag(r)
    BY <1>10 DEF FindFlag
  <1> QED BY <1>6, <1>7, <1>8, <1>9, <1>10 DEF CreateFlag, AfterFlag

LEMMA FlagsPlain ==
  ASSUME TypeInv, BookInv, FlagInv, NEW r \in Running, NEW s, s # "idle", s # "lot:create",
         NEW c, c.snapshot = calc[r].snapshot, c.at = calc[r].at,
         Goto(r, s, c), trades' = trades, flags' = flags
  PROVE  FlagInv'
  <1>1. BehindOf(c) = BehindOf(calc[r])
    BY DEF BehindOf
  <1>2. FlagsAt(trades, flags', s, c)
    BY <1>1 DEF FlagInv, FlagsAt
  <1> QED BY <1>2, FlagsSame, FlagsMove

\* A new lot changes the book and the income, nothing else.
LEMMA CreateLotLocals ==
  ASSUME TypeInv, NEW r \in Calcs, CreateLot(r)
  PROVE  LET d == WithIncome(WithLot(r), Tx(r)) IN
         /\ d.snapshot = calc[r].snapshot /\ d.at = calc[r].at
         /\ d.run = calc[r].run /\ d.alone = calc[r].alone
  <1>1. calc[r] \in Calculation /\ Tx(r) \in Trade
    BY CurrentTrade DEF CreateLot, InTrade
  <1>2. WithLot(r) = [calc[r] EXCEPT !.book[Tx(r).asset] = Append(@, Acquisition(r))]
    BY DEF WithLot
  <1>3. WithLot(r) \in Calculation
    <2>1. Tx(r).asset \in Assets
      BY <1>1 DEF Trade
    <2>2. calc[r].book[Tx(r).asset] \in Seq(WorkingLot)
      BY <1>1, <2>1 DEF Calculation
    <2>3. Append(calc[r].book[Tx(r).asset], Acquisition(r)) \in Seq(WorkingLot)
      <3>1. Acquisition(r) \in WorkingLot
        BY CreateLotFacts
      <3> QED BY <2>2, <3>1
    <2> QED BY <1>1, <2>1, <2>3, QueueType DEF WithLot
  <1>4. /\ WithLot(r).snapshot = calc[r].snapshot /\ WithLot(r).at = calc[r].at
        /\ WithLot(r).run = calc[r].run /\ WithLot(r).alone = calc[r].alone
    BY <1>1, <1>2 DEF Calculation
  <1> QED BY <1>1, <1>3, <1>4, IncomeType

LEMMA FlagsCreateLot ==
  ASSUME TypeInv, BookInv, FlagInv, NEW r \in Calcs, CreateLot(r)
  PROVE  FlagInv'
  <1>0. /\ pc[r] = "lot:create" /\ pc[r] \in InTrade /\ trades' = trades /\ flags' = flags
    BY DEF CreateLot, InTrade, world
  <1>1. /\ r \in Running /\ Tx(r) = trades[CurrentOf(calc[r])] /\ Tx(r) \in Trade
        /\ calc[r] \in Calculation /\ Current(r) = CurrentOf(calc[r])
        /\ Current(r) \in Positions(trades)
    BY <1>0, InLoopFacts
  <1> DEFINE d == WithIncome(WithLot(r), Tx(r))
  <1>2. d \in Calculation /\ NextTrade(r, d) /\ Acquisition(r) \in WorkingLot
    BY CreateLotFacts
  <1>3. d.snapshot = calc[r].snapshot /\ d.at = calc[r].at
    BY CreateLotLocals
  <1> HIDE DEF d
  <1>4. Unpriced(Tx(r)) => flags'[Current(r)] > 0
    BY <1>0, <1>1 DEF FlagInv, FlagsAt
  <1>5. MoreFlags(trades, flags, flags') /\ OnlyUnpriced(trades, flags')
    BY <1>0, FlagsSame
  <1> QED BY <1>0, <1>2, <1>3, <1>4, <1>5, FlagsAdvance

LEMMA FlagsFinishConsumption ==
  ASSUME TypeInv, BookInv, FifoInv, FlagInv, NEW r \in Calcs, FinishConsumption(r)
  PROVE  FlagInv'
  <1>0. pc[r] = "take" /\ pc[r] \in InTrade /\ trades' = trades /\ flags' = flags
    BY DEF FinishConsumption, InTrade, world
  <1>1. /\ r \in Running /\ Tx(r) = trades[CurrentOf(calc[r])] /\ Tx(r) \in Trade
        /\ calc[r] \in Calculation /\ InLoop(calc[r])
    BY <1>0, InLoopFacts
  <1>2. Consumes(Tx(r)) /\ ~ Acquires(Tx(r))
    BY <1>0, <1>1, KindsApart DEF FifoInv, FifoAt, Consuming
  <1>3. MoreFlags(trades, flags, flags') /\ OnlyUnpriced(trades, flags')
    BY <1>0, FlagsSame
  <1>4. CASE Tx(r).type \notin DISPOSAL_TYPES
    <2>1. ~ Unpriced(Tx(r)) /\ NextTrade(r, calc[r])
      BY <1>2, <1>4 DEF Unpriced, DISPOSAL_TYPES, FinishConsumption
    <2> QED BY <1>0, <1>1, <1>3, <2>1, FlagsAdvance
  <1>5. CASE Tx(r).type \in DISPOSAL_TYPES /\ Tx(r).unit = Nil
    <2>1. Goto(r, "flag:find", calc[r])
      BY <1>5 DEF FinishConsumption
    <2> QED BY <1>0, <1>1, <2>1, FlagsPlain
  <1>6. CASE Tx(r).type \in DISPOSAL_TYPES /\ Tx(r).unit # Nil
    <2> DEFINE d == WithResult(calc[r], Tx(r))
    <2>1. d \in Calculation /\ d.snapshot = calc[r].snapshot /\ d.at = calc[r].at
      BY <1>1, <1>6, ResultType
    <2>2. ~ Unpriced(Tx(r)) /\ NextTrade(r, d)
      BY <1>6 DEF Unpriced, FinishConsumption
    <2> HIDE DEF d
    <2> QED BY <1>0, <1>1, <1>3, <2>1, <2>2, FlagsAdvance
  <1> QED BY <1>4, <1>5, <1>6

LEMMA FlagsBegin ==
  ASSUME TypeInv, FlagInv, NEW r \in Calcs, NEW y \in Years, BeginCalculation(r, y)
  PROVE  FlagInv'
  <1>1. PICK order \in Ordered(Counted) :
          calc' = [q \in Calcs |->
            IF q = r THEN NewCalculation(y, order)
            ELSE IF q \in Running THEN [calc[q] EXCEPT !.alone = FALSE]
            ELSE calc[q]]
    BY DEF BeginCalculation
  <1>2. /\ r \notin Running /\ Running' = Running \cup {r} /\ trades' = trades /\ flags' = flags
        /\ pc' = [pc EXCEPT ![r] = "delete"] /\ pc \in [Calcs -> Steps]
    BY DEF BeginCalculation, Running, TypeInv, TypeOK, world
  <1>3. FlagsAt(trades, flags, "delete", calc'[r])
    <2>1. calc'[r].at = 1
      BY <1>1 DEF NewCalculation
    <2> QED BY <2>1 DEF FlagsAt, BehindOf
  <1>4. ASSUME NEW q \in Running PROVE FlagsAt(trades, flags, pc[q], calc'[q])
    <2>1. calc[q] \in Calculation /\ calc'[q] = [calc[q] EXCEPT !.alone = FALSE]
      BY <1>1, <1>2 DEF TypeInv, TypeOK, Running
    <2>2. calc'[q].at = calc[q].at /\ calc'[q].snapshot = calc[q].snapshot
      BY <2>1 DEF Calculation
    <2>3. BehindOf(calc'[q]) = BehindOf(calc[q]) /\ CurrentOf(calc'[q]) = CurrentOf(calc[q])
      BY <2>2 DEF BehindOf, CurrentOf
    <2> QED BY <2>3 DEF FlagInv, FlagsAt
  <1>5. pc'[r] = "delete" /\ \A q \in Running : pc'[q] = pc[q]
    BY <1>2 DEF Running
  <1> QED BY <1>2, <1>3, <1>4, <1>5 DEF FlagInv

LEMMA FlagStep == TypeInv /\ BookInv /\ FifoInv /\ FlagInv /\ [Next]_vars => FlagInv'
  <1> SUFFICES ASSUME TypeInv, BookInv, FifoInv, FlagInv, [Next]_vars PROVE FlagInv'
    OBVIOUS
  <1>1. CASE \E r \in Calcs, y \in Years : BeginCalculation(r, y)
    BY <1>1, FlagsBegin
  <1>2. ASSUME NEW r \in Calcs, Step(r) \/ Abort(r) PROVE FlagInv'
    <2>1. CASE PersistSummary(r) \/ LoseLot(r) \/ Abort(r)
      BY <2>1, FlagsFinish DEF PersistSummary, LoseLot, Abort, world
    <2>2. CASE DeleteLots(r)
      <3>1. r \in Running /\ Goto(r, "next", calc[r]) /\ trades' = trades /\ flags' = flags
        BY <2>2 DEF DeleteLots, Running, world
      <3> QED BY <3>1, FlagsPlain
    <2>3. CASE SkipTrade(r)
      <3>1. /\ AtTrade(r) /\ ~ Unpriced(Tx(r)) /\ NextTrade(r, calc[r]) /\ trades' = trades
            /\ flags' = flags
        BY <2>3 DEF SkipTrade, Unpriced, world
      <3>2. calc[r] \in Calculation
        BY <3>1, InLoopFacts
      <3> QED BY <3>1, <3>2, FlagsSame, FlagsAdvance
    <2>4. CASE BeginAcquisition(r)
      <3>1. AtTrade(r) /\ r \in Running /\ trades' = trades /\ flags' = flags
        BY <2>4 DEF BeginAcquisition, AtTrade, Running, world
      <3>2. CASE Tx(r).unit = Nil
        <4>1. Goto(r, "flag:find", calc[r])
          BY <2>4, <3>2 DEF BeginAcquisition
        <4> QED BY <3>1, <4>1, FlagsPlain
      <3>3. CASE Tx(r).unit # Nil
        <4>1. Goto(r, "lot:create", calc[r]) /\ ~ Unpriced(Tx(r))
          BY <2>4, <3>3 DEF BeginAcquisition, Unpriced
        <4>2. Tx(r) = trades[CurrentOf(calc[r])]
          BY <3>1, InLoopFacts
        <4>3. FlagsAt(trades, flags', "lot:create", calc[r])
          BY <3>1, <4>1, <4>2 DEF FlagInv, FlagsAt
        <4> QED BY <3>1, <4>1, <4>3, FlagsSame, FlagsMove
      <3> QED BY <3>2, <3>3
    <2>5. CASE BeginConsumption(r)
      <3> DEFINE c == [calc[r] EXCEPT !.owed = Tx(r).quantity, !.cost = 0]
      <3>1. /\ r \in Running /\ AtTrade(r) /\ Goto(r, "take", c) /\ trades' = trades /\ flags' = flags
        BY <2>5 DEF BeginConsumption, AtTrade, Running, world
      <3>2. c.snapshot = calc[r].snapshot /\ c.at = calc[r].at
        BY <3>1, InLoopFacts DEF Calculation
      <3> HIDE DEF c
      <3> QED BY <3>1, <3>2, FlagsPlain
    <2>6. CASE ConsumeLot(r)
      <3> DEFINE c == [calc[r] EXCEPT
                         !.book[Tx(r).asset] = Shortened(@, Taken(r)),
                         !.owed = @ - Taken(r),
                         !.cost = @ + Taken(r) * Head(Queue(r)).unit]
      <3>1. /\ r \in Running /\ pc[r] \in InTrade /\ Goto(r, "take", c) /\ trades' = trades
            /\ flags' = flags
        BY <2>6 DEF ConsumeLot, CanTake, InTrade, Running, world
      <3>2. c.snapshot = calc[r].snapshot /\ c.at = calc[r].at
        BY <3>1, InLoopFacts DEF Calculation
      <3> HIDE DEF c
      <3> QED BY <3>1, <3>2, FlagsPlain
    <2> QED BY <1>2, <2>1, <2>2, <2>3, <2>4, <2>5, <2>6, FlagsFlag, FlagsCreateLot,
               FlagsFinishConsumption DEF Step, AcquireStep, ConsumeStep
  <1>3. ASSUME UNCHANGED <<trades, flags, pc, calc>> PROVE FlagInv'
    BY <1>3 DEF FlagInv, Running
  <1>4. CASE (\E i \in Indices : Ingest(i)) \/ (\E i, j \in Indices : PairTransfer(i, j))
    BY <1>3, <1>4 DEF Ingest, PairTransfer
  <1>5. CASE UNCHANGED vars
    BY <1>3, <1>5 DEF vars
  <1> QED BY <1>1, <1>2, <1>4, <1>5 DEF Next

LEMMA FlagInit == Init => FlagInv
  BY DEF Init, FlagInv, Running, OnlyUnpriced, Indices, Positions

LEMMA FlagsImply == TypeInv /\ BookInv /\ FifoInv /\ FlagInv => UnpricedFlagged
  <1> SUFFICES ASSUME TypeInv, BookInv, FifoInv, FlagInv PROVE UnpricedFlagged
    OBVIOUS
  <1>1. \A i \in Indices : flags[i] > 0 => Unpriced(trades[i])
    BY DEF FlagInv, OnlyUnpriced, Positions, Indices
  <1>2. ASSUME NEW r \in Calcs, pc[r] = "next", NEW i \in Behind(r), Unpriced(trades[i])
        PROVE  flags[i] > 0
    <2>1. r \in Running /\ Behind(r) \in SUBSET Positions(trades) /\ Behind(r) = BehindOf(calc[r])
      BY <1>2, AtNext DEF Running, Behind, BehindOf
    <2> QED BY <1>2, <2>1 DEF FlagInv, FlagsAt
  <1> QED BY <1>1, <1>2 DEF UnpricedFlagged

----------------------------------------------------------------------------
\* The rows of a calculation that nothing overlapped

RowsBehind(h, c) == {[run |-> c.run, trade |-> i] : i \in {j \in BehindOf(c) : Acquires(h[j])}}

\* What a row says of its lot besides what is left of it.
Kept(h, table) ==
  /\ table = [id \in DOMAIN table |-> table[id]]
  /\ \A id \in DOMAIN table : /\ table[id].original = h[id.trade].quantity
                              /\ table[id].fullyConsumed = (table[id].remaining = 0)

AloneAt(h, table, s, c) ==
  /\ s = "delete" => c.at = 1
  /\ (c.alone /\ s # "delete") => DOMAIN table = RowsBehind(h, c)

LotInv ==
  /\ Kept(trades, lots)
  /\ \A r \in Running : /\ AloneAt(trades, lots, pc[r], calc[r])
                        /\ calc[r].alone => Running = {r}

LEMMA LotsMove ==
  ASSUME TypeInv, LotInv, NEW r \in Running, NEW s, s # "idle", NEW c, Goto(r, s, c),
         trades' = trades, Kept(trades, lots'), c.alone = calc[r].alone,
         AloneAt(trades, lots', s, c)
  PROVE  LotInv'
  <1>1. Running' = Running
    BY DEF Goto, Running, TypeInv, TypeOK
  <1>2. \A q \in Running : /\ pc'[q] = IF q = r THEN s ELSE pc[q]
                           /\ calc'[q] = IF q = r THEN c ELSE calc[q]
    BY DEF Goto, Running, TypeInv, TypeOK
  <1>3. \A q \in Running : calc'[q].alone = calc[q].alone
    BY <1>2
  <1>4. ASSUME NEW q \in Running, q # r PROVE AloneAt(trades, lots', pc[q], calc[q])
    <2>1. ~ calc[q].alone /\ AloneAt(trades, lots, pc[q], calc[q])
      BY <1>4 DEF LotInv
    <2> QED BY <2>1 DEF AloneAt
  <1>5. \A q \in Running : AloneAt(trades, lots', pc'[q], calc'[q])
    BY <1>2, <1>4
  <1>6. \A q \in Running : calc'[q].alone => Running' = {q}
    BY <1>1, <1>3 DEF LotInv
  <1> QED BY <1>1, <1>5, <1>6 DEF LotInv

LEMMA LotsFinish ==
  ASSUME TypeInv, LotInv, NEW r \in Calcs, pc[r] # "idle", Finish(r), trades' = trades, lots' = lots
  PROVE  LotInv'
  <1>1. /\ \A q \in Running' : q \in Running /\ q # r /\ calc'[q] = calc[q] /\ pc'[q] = pc[q]
        /\ r \in Running
    BY DEF Finish, Goto, Running, TypeInv, TypeOK
  <1>2. \A q \in Running' : ~ calc'[q].alone
    BY <1>1 DEF LotInv
  <1>3. \A q \in Running' : AloneAt(trades, lots, pc'[q], calc'[q])
    BY <1>1 DEF LotInv
  <1> QED BY <1>2, <1>3 DEF LotInv

\* Moving to another await of the same trade.
LEMMA LotsPlain ==
  ASSUME TypeInv, LotInv, NEW r \in Running, pc[r] # "delete",
         NEW s, s # "idle", s # "delete",
         NEW c, c.snapshot = calc[r].snapshot, c.at = calc[r].at, c.run = calc[r].run,
         c.alone = calc[r].alone, Goto(r, s, c), trades' = trades,
         Kept(trades, lots'), DOMAIN lots' = DOMAIN lots
  PROVE  LotInv'
  <1>1. RowsBehind(trades, c) = RowsBehind(trades, calc[r])
    BY DEF RowsBehind, BehindOf
  <1>2. AloneAt(trades, lots', s, c)
    BY <1>1 DEF LotInv, AloneAt
  <1> QED BY <1>2, LotsMove

\* The loop counter moves on, with the row of the trade at hand if it has one.
LEMMA LotsAdvance ==
  ASSUME TypeInv, BookInv, LotInv, NEW r \in Calcs, pc[r] \in InTrade \/ AtTrade(r),
         NEW c \in Calculation, c.snapshot = calc[r].snapshot, c.at = calc[r].at,
         c.run = calc[r].run, c.alone = calc[r].alone,
         NextTrade(r, c), trades' = trades, Kept(trades, lots'),
         DOMAIN lots' = IF Acquires(Tx(r)) THEN DOMAIN lots \cup {NewLotId(r)} ELSE DOMAIN lots
  PROVE  LotInv'
  <1> DEFINE d == [c EXCEPT !.at = @ + 1]
  <1>1. /\ trades \in Seq(Trade) /\ r \in Running /\ InLoop(calc[r]) /\ Distinct(calc[r])
        /\ calc[r] \in Calculation /\ Tx(r) = trades[CurrentOf(calc[r])]
        /\ Current(r) = CurrentOf(calc[r]) /\ pc[r] # "delete"
    BY InLoopFacts DEF InTrade, AtTrade
  <1>2. Goto(r, "next", d)
    BY DEF NextTrade
  <1>3. d.snapshot = c.snapshot /\ d.at = c.at + 1 /\ d.run = c.run /\ d.alone = c.alone
    BY DEF Calculation
  <1> HIDE DEF d
  <1>4. BehindOf(d) = With(BehindOf(calc[r]), CurrentOf(calc[r]))
    BY <1>1, <1>3, BehindGrows
  <1>5. RowsBehind(trades, d) = IF Acquires(Tx(r)) THEN RowsBehind(trades, calc[r]) \cup {NewLotId(r)}
                                ELSE RowsBehind(trades, calc[r])
    BY <1>1, <1>3, <1>4 DEF RowsBehind, With, NewLotId
  <1>6. AloneAt(trades, lots', "next", d)
    BY <1>1, <1>3, <1>5 DEF LotInv, AloneAt
  <1> QED BY <1>1, <1>2, <1>3, <1>6, LotsMove

LEMMA LotsBegin ==
  ASSUME TypeInv, LotInv, NEW r \in Calcs, NEW y \in Years, BeginCalculation(r, y)
  PROVE  LotInv'
  <1>1. PICK order \in Ordered(Counted) :
          calc' = [q \in Calcs |->
            IF q = r THEN NewCalculation(y, order)
            ELSE IF q \in Running THEN [calc[q] EXCEPT !.alone = FALSE]
            ELSE calc[q]]
    BY DEF BeginCalculation
  <1>2. /\ r \notin Running /\ Running' = Running \cup {r} /\ trades' = trades /\ lots' = lots
        /\ pc' = [pc EXCEPT ![r] = "delete"] /\ pc \in [Calcs -> Steps]
    BY DEF BeginCalculation, Running, TypeInv, TypeOK, world
  <1>3. calc'[r].at = 1 /\ (calc'[r].alone <=> Running = {}) /\ pc'[r] = "delete"
    BY <1>1, <1>2 DEF NewCalculation
  <1>4. ASSUME NEW q \in Running
        PROVE  AloneAt(trades, lots, pc'[q], calc'[q]) /\ ~ calc'[q].alone
    <2>1. /\ calc[q] \in Calculation /\ calc'[q] = [calc[q] EXCEPT !.alone = FALSE] /\ pc'[q] = pc[q]
      BY <1>1, <1>2 DEF TypeInv, TypeOK, Running
    <2>2. ~ calc'[q].alone /\ calc'[q].at = calc[q].at
      BY <2>1 DEF Calculation
    <2> QED BY <2>1, <2>2 DEF LotInv, AloneAt
  <1>5. AloneAt(trades, lots, pc'[r], calc'[r]) /\ (calc'[r].alone => Running' = {r})
    BY <1>2, <1>3 DEF AloneAt
  <1> QED BY <1>2, <1>4, <1>5 DEF LotInv

LEMMA LotsDelete ==
  ASSUME TypeInv, LotInv, NEW r \in Calcs, DeleteLots(r)
  PROVE  LotInv'
  <1>1. /\ r \in Running /\ pc[r] = "delete" /\ Goto(r, "next", calc[r]) /\ trades' = trades
        /\ lots' = [id \in {} |-> Nil]
    BY DEF DeleteLots, Running, world
  <1>2. calc[r].at = 1
    BY <1>1 DEF LotInv, AloneAt
  <1>3. RowsBehind(trades, calc[r]) = {}
    BY <1>2 DEF RowsBehind, BehindOf
  <1>4. DOMAIN lots' = {} /\ Kept(trades, lots')
    BY <1>1 DEF Kept
  <1>5. AloneAt(trades, lots', "next", calc[r])
    BY <1>3, <1>4 DEF AloneAt
  <1> QED BY <1>1, <1>4, <1>5, LotsMove

LEMMA LotsCreate ==
  ASSUME TypeInv, BookInv, FifoInv, LotInv, NEW r \in Calcs, CreateLot(r)
  PROVE  LotInv'
  <1> DEFINE d == WithIncome(WithLot(r), Tx(r))
             row == [original |-> Tx(r).quantity, remaining |-> Tx(r).quantity,
                     fullyConsumed |-> FALSE]
  <1>0. pc[r] = "lot:create" /\ pc[r] \in InTrade /\ trades' = trades
    BY DEF CreateLot, InTrade, world
  <1>1. /\ r \in Running /\ Tx(r) = trades[CurrentOf(calc[r])] /\ Tx(r) \in Trade
        /\ calc[r] \in Calculation /\ Tx(r) = trades[Current(r)]
    BY <1>0, InLoopFacts
  <1>2. Acquires(Tx(r))
    BY <1>0, <1>1 DEF FifoInv, FifoAt
  <1>3. /\ d \in Calculation /\ NextTrade(r, d) /\ lots' = Insert(lots, NewLotId(r), row)
    BY CreateLotFacts
  <1>4. /\ d.snapshot = calc[r].snapshot /\ d.at = calc[r].at
        /\ d.run = calc[r].run /\ d.alone = calc[r].alone
    BY CreateLotLocals
  <1> HIDE DEF d
  <1>5. DOMAIN lots' = DOMAIN lots \cup {NewLotId(r)}
    BY <1>3 DEF Insert
  <1>6. Kept(trades, lots')
    <2>1. row.original = trades[NewLotId(r).trade].quantity /\ row.fullyConsumed = (row.remaining = 0)
      BY <1>1 DEF NewLotId, Trade
    <2> HIDE DEF row
    <2> QED BY <1>3, <2>1 DEF LotInv, Kept, Insert
  <1> QED BY <1>0, <1>2, <1>3, <1>4, <1>5, <1>6, LotsAdvance

LEMMA LotsConsume ==
  ASSUME TypeInv, BookInv, LotInv, NEW r \in Calcs, ConsumeLot(r)
  PROVE  LotInv'
  <1> DEFINE left == Head(Queue(r)).left - Taken(r)
             row == [lots[Oldest(r)] EXCEPT !.remaining = left, !.fullyConsumed = (left = 0)]
             c == [calc[r] EXCEPT
                    !.book[Tx(r).asset] = Shortened(@, Taken(r)),
                    !.owed = @ - Taken(r),
                    !.cost = @ + Taken(r) * Head(Queue(r)).unit]
  <1>1. /\ r \in Running /\ pc[r] = "take" /\ pc[r] \in InTrade /\ Goto(r, "take", c)
        /\ trades' = trades /\ Oldest(r) \in DOMAIN lots
        /\ lots' = [lots EXCEPT ![Oldest(r)] = row]
    BY DEF ConsumeLot, CanTake, InTrade, Running, world
  <1>2. /\ c.snapshot = calc[r].snapshot /\ c.at = calc[r].at /\ c.run = calc[r].run
        /\ c.alone = calc[r].alone
    BY <1>1, InLoopFacts DEF Calculation
  <1>3. row.original = lots[Oldest(r)].original /\ row.fullyConsumed = (row.remaining = 0)
    <2>1. lots[Oldest(r)] \in LotRow
      BY <1>1 DEF TypeInv, TypeOK
    <2> QED BY <2>1 DEF LotRow
  <1> HIDE DEF c, row
  <1>4. Kept(trades, lots') /\ DOMAIN lots' = DOMAIN lots
    BY <1>1, <1>3 DEF LotInv, Kept
  <1> QED BY <1>1, <1>2, <1>4, LotsPlain

LEMMA LotsFlag ==
  ASSUME TypeInv, BookInv, LotInv, NEW r \in Calcs, FindFlag(r) \/ CreateFlag(r)
  PROVE  LotInv'
  <1>1. /\ pc[r] \in InTrade /\ pc[r] # "delete" /\ trades' = trades /\ lots' = lots
    BY DEF FindFlag, CreateFlag, InTrade, world
  <1>2. calc[r] \in Calculation /\ r \in Running
    BY <1>1, InLoopFacts
  <1>3. Kept(trades, lots')
    BY <1>1 DEF LotInv
  <1>4. CASE Goto(r, "lot:create", calc[r]) \/ Goto(r, "flag:create", calc[r])
    BY <1>1, <1>2, <1>3, <1>4, LotsPlain
  <1>5. CASE ~ Acquires(Tx(r)) /\ NextTrade(r, calc[r])
    BY <1>1, <1>2, <1>3, <1>5, LotsAdvance
  <1> QED BY <1>4, <1>5 DEF FindFlag, CreateFlag, AfterFlag

LEMMA LotsFinishConsumption ==
  ASSUME TypeInv, BookInv, FifoInv, LotInv, NEW r \in Calcs, FinishConsumption(r)
  PROVE  LotInv'
  <1>0. /\ pc[r] = "take" /\ pc[r] \in InTrade /\ pc[r] # "delete" /\ trades' = trades
        /\ lots' = lots
    BY DEF FinishConsumption, InTrade, world
  <1>1. /\ r \in Running /\ Tx(r) = trades[CurrentOf(calc[r])] /\ Tx(r) \in Trade
        /\ calc[r] \in Calculation
    BY <1>0, InLoopFacts
  <1>2. ~ Acquires(Tx(r))
    BY <1>0, <1>1, KindsApart DEF FifoInv, FifoAt, Consuming
  <1>3. Kept(trades, lots')
    BY <1>0 DEF LotInv
  <1>4. CASE NextTrade(r, calc[r])
    BY <1>0, <1>1, <1>2, <1>3, <1>4, LotsAdvance
  <1>5. CASE Goto(r, "flag:find", calc[r])
    BY <1>0, <1>1, <1>3, <1>5, LotsPlain
  <1>6. CASE Tx(r).unit # Nil /\ NextTrade(r, WithResult(calc[r], Tx(r)))
    <2> DEFINE d == WithResult(calc[r], Tx(r))
    <2>1. /\ d \in Calculation /\ d.snapshot = calc[r].snapshot /\ d.at = calc[r].at
          /\ d.run = calc[r].run /\ d.alone = calc[r].alone
      BY <1>1, <1>6, ResultType
    <2> HIDE DEF d
    <2>2. NextTrade(r, d)
      BY <1>6 DEF d
    <2> QED BY <1>0, <1>2, <1>3, <2>1, <2>2, LotsAdvance
  <1> QED BY <1>4, <1>5, <1>6 DEF FinishConsumption

LEMMA LotStep == TypeInv /\ BookInv /\ FifoInv /\ LotInv /\ [Next]_vars => LotInv'
  <1> SUFFICES ASSUME TypeInv, BookInv, FifoInv, LotInv, [Next]_vars PROVE LotInv'
    OBVIOUS
  <1>1. CASE \E r \in Calcs, y \in Years : BeginCalculation(r, y)
    BY <1>1, LotsBegin
  <1>2. ASSUME NEW r \in Calcs, Step(r) \/ Abort(r) PROVE LotInv'
    <2>1. CASE PersistSummary(r) \/ LoseLot(r) \/ Abort(r)
      BY <2>1, LotsFinish DEF PersistSummary, LoseLot, CanTake, Abort, world
    <2>2. CASE SkipTrade(r)
      <3>1. /\ AtTrade(r) /\ ~ Acquires(Tx(r)) /\ NextTrade(r, calc[r]) /\ trades' = trades
            /\ lots' = lots
        BY <2>2 DEF SkipTrade, world
      <3>2. calc[r] \in Calculation /\ Kept(trades, lots')
        BY <3>1, InLoopFacts DEF LotInv
      <3> QED BY <3>1, <3>2, LotsAdvance
    <2>3. CASE BeginAcquisition(r)
      <3>1. /\ r \in Running /\ pc[r] # "delete" /\ trades' = trades /\ lots' = lots
            /\ Kept(trades, lots')
        BY <2>3 DEF BeginAcquisition, AtTrade, Running, world, LotInv
      <3>2. Goto(r, "flag:find", calc[r]) \/ Goto(r, "lot:create", calc[r])
        BY <2>3 DEF BeginAcquisition
      <3> QED BY <3>1, <3>2, LotsPlain
    <2>4. CASE BeginConsumption(r)
      <3> DEFINE c == [calc[r] EXCEPT !.owed = Tx(r).quantity, !.cost = 0]
      <3>1. /\ r \in Running /\ AtTrade(r) /\ pc[r] # "delete" /\ Goto(r, "take", c)
            /\ trades' = trades /\ lots' = lots /\ Kept(trades, lots')
        BY <2>4 DEF BeginConsumption, AtTrade, Running, world, LotInv
      <3>2. /\ c.snapshot = calc[r].snapshot /\ c.at = calc[r].at /\ c.run = calc[r].run
            /\ c.alone = calc[r].alone
        BY <3>1, InLoopFacts DEF Calculation
      <3> HIDE DEF c
      <3> QED BY <3>1, <3>2, LotsPlain
    <2> QED BY <1>2, <2>1, <2>2, <2>3, <2>4, LotsDelete, LotsFlag, LotsCreate, LotsConsume,
               LotsFinishConsumption DEF Step, AcquireStep, ConsumeStep
  <1>3. ASSUME UNCHANGED <<trades, lots, pc, calc>> PROVE LotInv'
    BY <1>3 DEF LotInv, Running
  <1>4. CASE (\E i \in Indices : Ingest(i)) \/ (\E i, j \in Indices : PairTransfer(i, j))
    BY <1>3, <1>4 DEF Ingest, PairTransfer
  <1>5. CASE UNCHANGED vars
    BY <1>3, <1>5 DEF vars
  <1> QED BY <1>1, <1>2, <1>4, <1>5 DEF Next

LEMMA LotInit == Init => LotInv
  BY DEF Init, LotInv, Running, Kept

LEMMA LotsImply == TypeInv /\ BookInv /\ FifoInv /\ LotInv => LotsComplete
  <1> SUFFICES ASSUME TypeInv, BookInv, FifoInv, LotInv,
                      NEW r \in Calcs, pc[r] = "next", calc[r].alone
               PROVE  lots = [id \in {[run |-> calc[r].run, trade |-> i] :
                                        i \in {j \in Behind(r) : Acquires(trades[j])}} |->
                        [original |-> trades[id.trade].quantity,
                         remaining |-> LeftOf(trades, Behind(r), id.trade),
                         fullyConsumed |-> LeftOf(trades, Behind(r), id.trade) = 0]]
    BY DEF LotsComplete
  <1> DEFINE S == Behind(r)
             c == calc[r]
  <1>1. /\ trades \in Seq(Trade) /\ c \in Calculation /\ S \in SUBSET Positions(trades)
        /\ Queues(trades, S, c)
    BY AtNext
  <1>2. r \in Running /\ S = BehindOf(c)
    BY DEF Running, Behind, BehindOf
  <1>3. DOMAIN lots = RowsBehind(trades, c) /\ Kept(trades, lots)
    BY <1>2 DEF LotInv, AloneAt
  <1>4. OpenRows(c, lots) /\ UsedUp(c, lots)
    BY <1>2 DEF BookInv, Mirror
  <1>5. \A id \in DOMAIN lots : lots[id] \in LotRow
    BY DEF TypeInv, TypeOK
  <1> HIDE DEF S, c
  <1>6. ASSUME NEW id \in DOMAIN lots
        PROVE  lots[id].remaining = LeftOf(trades, S, id.trade)
    <2>1. PICK i \in S : id = [run |-> c.run, trade |-> i] /\ Acquires(trades[i])
      BY <1>2, <1>3 DEF RowsBehind
    <2>2. id.run = c.run /\ id.trade = i /\ i \in Positions(trades)
      BY <1>1, <2>1
    <2>3. trades[i] \in Trade
      BY <1>1, <2>2, TradeTypes
    <2>4. PICK a \in Assets : a = trades[i].asset
      BY <2>3 DEF Trade
    <2>5. i \in Lots(trades, S, a)
      BY <2>1, <2>4 DEF Lots
    <2>6. /\ GoneBy(trades, S, a) \in Nat
          /\ LeftOf(trades, S, i) = LeftWhen(trades, S, i, GoneBy(trades, S, a))
      BY <1>1, <2>4, GoneByType DEF LeftOf, GoneBy
    <2>7. LeftOf(trades, S, i) \in Nat
      BY <1>1, <2>2, <2>6, LeftIs
    <2>8. QueueIs(trades, S, a, c.book[a], GoneBy(trades, S, a))
      BY <1>1 DEF Queues
    <2>9. CASE LeftOf(trades, S, i) > 0
      <3>1. PICK k \in DOMAIN c.book[a] : c.book[a][k].trade = i
        BY <2>5, <2>6, <2>8, <2>9 DEF QueueIs
      <3>2. c.book[a][k].left = LeftOf(trades, S, i)
        BY <2>6, <2>8, <3>1 DEF QueueIs
      <3>3. lots[id].remaining = c.book[a][k].left
        BY <1>4, <2>2, <3>1 DEF OpenRows
      <3> QED BY <2>2, <3>2, <3>3
    <2>10. CASE LeftOf(trades, S, i) = 0
      <3>1. ASSUME NEW b \in Assets, NEW k \in DOMAIN c.book[b], c.book[b][k].trade = i
            PROVE  FALSE
        <4>1. QueueIs(trades, S, b, c.book[b], GoneBy(trades, S, b))
          BY <1>1 DEF Queues
        <4>2. i \in Lots(trades, S, b)
          BY <3>1, <4>1 DEF QueueIs
        <4>3. b = a
          BY <2>4, <4>2 DEF Lots
        <4>4. LeftWhen(trades, S, i, GoneBy(trades, S, a)) > 0
          BY <3>1, <4>1, <4>3 DEF QueueIs
        <4> QED BY <2>6, <2>10, <4>4
      <3>2. lots[id].remaining = 0
        BY <1>4, <2>2, <3>1 DEF UsedUp
      <3> QED BY <2>2, <2>10, <3>2
    <2> QED BY <2>7, <2>9, <2>10
  <1> DEFINE row(id) == [original |-> trades[id.trade].quantity,
                         remaining |-> LeftOf(trades, S, id.trade),
                         fullyConsumed |-> LeftOf(trades, S, id.trade) = 0]
  <1>7. ASSUME NEW id \in DOMAIN lots PROVE lots[id] = row(id)
    <2>1. /\ lots[id].original = trades[id.trade].quantity
          /\ lots[id].fullyConsumed = (lots[id].remaining = 0)
      BY <1>3 DEF Kept
    <2>2. lots[id] = [original |-> lots[id].original, remaining |-> lots[id].remaining,
                      fullyConsumed |-> lots[id].fullyConsumed]
      BY <1>5 DEF LotRow
    <2> QED BY <1>6, <2>1, <2>2
  <1>8. lots = [id \in DOMAIN lots |-> row(id)]
    <2>1. lots = [id \in DOMAIN lots |-> lots[id]]
      BY <1>3 DEF Kept
    <2> HIDE DEF row
    <2> QED BY <1>7, <2>1
  <1> QED BY <1>2, <1>3, <1>8 DEF RowsBehind, S, c

\* RebuildSound: a calculation that nothing overlaps leaves the lots of the
\* trades behind it, each with what first in, first out leaves of it; and the
\* trades of unknown price behind any calculation are flagged, no others.
THEOREM RebuildsAreSound == Spec => []RebuildSound
  <1>1. Init => FlagInv /\ LotInv
    BY FlagInit, LotInit
  <1>2. /\ TypeInv /\ BookInv /\ FifoInv /\ FlagInv /\ LotInv /\ [Next]_vars
        => FlagInv' /\ LotInv'
    BY FlagStep, LotStep
  <1>3. TypeInv /\ BookInv /\ FifoInv /\ FlagInv /\ LotInv => RebuildSound
    BY FlagsImply, LotsImply DEF RebuildSound
  <1> QED BY <1>1, <1>2, <1>3, FifoHolds, PTL DEF Spec
=============================================================================
