------------------------------ MODULE TaxLots ------------------------------
(***************************************************************************)
(* calculateForYear: the FIFO engine that rebuilds one user's tax lots     *)
(* from the whole trade history and stores the summary of a tax year.      *)
(* Every `await` is a step, and nothing keeps two calculations of one user *)
(* apart: the tables (lots, flags, summary) are shared, the book of lots   *)
(* and the yearly totals are locals of the request.                        *)
(***************************************************************************)
EXTENDS Integers, Sequences, FiniteSets

CONSTANTS
  Calcs,        \* HTTP requests that can calculate at once
  Assets,       \* coin symbols, after toUpperCase
  Fiat,         \* FIAT_LIKE \subseteq Assets
  Years,        \* tax years
  Histories,    \* the user's possible histories, in order of timestamp
  Late,         \* positions of trades that only a later synchronisation delivers
  CapitalExemption,     \* [Years -> Nat]: taxExemptionConfig
  OccasionalExemption,  \* [Years -> Nat]
  Nil,          \* no price, no summary, no calculation in progress
  MaxRuns,      \* bound on calculations begun
  MaxAborts     \* bound on calculations that die at an await

ACQUISITION_TYPES == {"BUY", "DEPOSIT", "TRANSFER_IN", "STAKING_REWARD",
                      "AIRDROP", "MINING_REWARD", "LP_REWARD"}
DISPOSAL_TYPES == {"SELL"}
SILENT_CONSUMPTION_TYPES == {"WITHDRAWAL", "TRANSFER_OUT", "FEE"}
OCCASIONAL_INCOME_TYPES == {"STAKING_REWARD", "AIRDROP", "MINING_REWARD", "LP_REWARD"}
TransactionType == ACQUISITION_TYPES \cup DISPOSAL_TYPES
                     \cup SILENT_CONSUMPTION_TYPES \cup {"SWAP"}

\* unit is what resolveValueInTRY finds for one coin; quantities are positive.
Trade == [type : TransactionType, asset : Assets, quantity : Nat \ {0},
          unit : Nat \cup {Nil}, year : Years]

ASSUME HistoryAssumption == Fiat \subseteq Assets /\ Histories \subseteq Seq(Trade)
ASSUME ExemptionAssumption ==
  CapitalExemption \in [Years -> Nat] /\ OccasionalExemption \in [Years -> Nat]
ASSUME BoundAssumption ==
  MaxRuns \in Nat /\ MaxAborts \in Nat /\ Nil \notin Nat /\ Late \subseteq Nat

VARIABLES
  trades,    \* the history, chosen once
  stored,    \* what the transaction table holds of each trade
  lots,      \* taxLot table: [id -> row]
  flags,     \* unresolved MISSING_DATA flags of each trade
  summary,   \* taxYearSummary table
  pc,        \* the await each calculation is at
  calc,      \* its locals
  runs,      \* calculations begun so far
  aborts     \* calculations that died so far

world == <<trades, stored>>
vars  == <<trades, stored, lots, flags, summary, pc, calc, runs, aborts>>

Indices == 1..Len(trades)
LotId   == [run : 1..MaxRuns, trade : Indices]   \* uuid: a run makes one lot per trade
LotRow  == [original : Nat, remaining : Nat, fullyConsumed : BOOLEAN]
WorkingLot == [trade : Indices, left : Nat, unit : Nat]
Totals  == [Years -> Nat]
Summary == [gain : Nat, loss : Nat, net : Int, income : Nat,
            capitalUsed : Nat, occasionalUsed : Nat, taxable : Nat]

Steps == {"idle", "delete", "next", "flag:find", "flag:create",
          "lot:create", "take"}
Calculation == [run : 1..MaxRuns, year : Years, snapshot : Seq(Indices),
                at : Nat \ {0}, book : [Assets -> Seq(WorkingLot)],
                gain : Totals, loss : Totals, income : Totals,
                owed : Nat, cost : Nat,
                alone : BOOLEAN]   \* history: no other calculation overlapped it

----------------------------------------------------------------------------
\* Neither an internal transfer nor absent.
Counted == {i \in Indices : stored[i] = "counted"}

\* orderBy timestamp: the positions in S in ascending order.
Ordered(S) == {s \in [1..Cardinality(S) -> S] :
                 \A j, k \in DOMAIN s : j < k => s[j] < s[k]}
Current(r) == calc[r].snapshot[calc[r].at]
Behind(r)  == {calc[r].snapshot[k] : k \in 1..(calc[r].at - 1)}
Tx(r)      == trades[Current(r)]
Queue(r)   == calc[r].book[Tx(r).asset]
Acquires(t)  == t.type \in ACQUISITION_TYPES /\ t.asset \notin Fiat
Consumes(t)  == t.type \in DISPOSAL_TYPES \cup SILENT_CONSUMPTION_TYPES /\ t.asset \notin Fiat
Smaller(a, b) == IF a <= b THEN a ELSE b
Positive(a) == IF a >= 0 THEN a ELSE 0

Running == {r \in Calcs : pc[r] # "idle"}
Goto(r, step, locals) ==
  /\ pc' = [pc EXCEPT ![r] = step]
  /\ calc' = [calc EXCEPT ![r] = locals]
Finish(r) == Goto(r, "idle", Nil)
NextTrade(r, locals) == Goto(r, "next", [locals EXCEPT !.at = @ + 1])

NoTotals == [y \in Years |-> 0]

NewCalculation(y, order) ==
  [run |-> runs + 1, year |-> y, snapshot |-> order, at |-> 1,
   book |-> [a \in Assets |-> <<>>],
   gain |-> NoTotals, loss |-> NoTotals, income |-> NoTotals,
   owed |-> 0, cost |-> 0, alone |-> Running = {}]

\* The snapshot of the history is read before the old lots are deleted.
BeginCalculation(r, y) ==
  /\ pc[r] = "idle" /\ runs < MaxRuns
  /\ runs' = runs + 1
  /\ pc' = [pc EXCEPT ![r] = "delete"]
  /\ \E order \in Ordered(Counted) :
       calc' = [q \in Calcs |->
         IF q = r THEN NewCalculation(y, order)
         ELSE IF q \in Running THEN [calc[q] EXCEPT !.alone = FALSE]
         ELSE calc[q]]
  /\ UNCHANGED <<world, lots, flags, summary, aborts>>

\* Fault: the lots of the previous run are kept.
KeepLots(r) ==
  /\ pc[r] = "delete"
  /\ Goto(r, "next", calc[r])
  /\ UNCHANGED <<world, lots, flags, summary, runs, aborts>>

DeleteLots(r) ==
  /\ pc[r] = "delete"
  /\ lots' = [id \in {} |-> Nil]
  /\ Goto(r, "next", calc[r])
  /\ UNCHANGED <<world, flags, summary, runs, aborts>>

AtTrade(r) == pc[r] = "next" /\ calc[r].at <= Len(calc[r].snapshot)

SkipTrade(r) ==
  /\ AtTrade(r) /\ ~ Acquires(Tx(r)) /\ ~ Consumes(Tx(r))
  /\ NextTrade(r, calc[r])
  /\ UNCHANGED <<world, lots, flags, summary, runs, aborts>>

\* An acquisition whose price is unknown is flagged and costs nothing.
BeginAcquisition(r) ==
  /\ AtTrade(r) /\ Acquires(Tx(r))
  /\ Goto(r, IF Tx(r).unit = Nil THEN "flag:find" ELSE "lot:create", calc[r])
  /\ UNCHANGED <<world, lots, flags, summary, runs, aborts>>

AfterFlag(r) ==
  IF Acquires(Tx(r)) THEN Goto(r, "lot:create", calc[r]) ELSE NextTrade(r, calc[r])

\* Fault: any open flag of the user stands for this trade.
FindAnyFlag(r) ==
  /\ pc[r] = "flag:find"
  /\ IF \E i \in Indices : flags[i] > 0 THEN AfterFlag(r) ELSE Goto(r, "flag:create", calc[r])
  /\ UNCHANGED <<world, lots, flags, summary, runs, aborts>>

FindFlag(r) ==
  /\ pc[r] = "flag:find"
  /\ IF flags[Current(r)] > 0 THEN AfterFlag(r) ELSE Goto(r, "flag:create", calc[r])
  /\ UNCHANGED <<world, lots, flags, summary, runs, aborts>>

CreateFlag(r) ==
  /\ pc[r] = "flag:create"
  /\ flags' = [flags EXCEPT ![Current(r)] = @ + 1]
  /\ AfterFlag(r)
  /\ UNCHANGED <<world, lots, summary, runs, aborts>>

UnitCost(t) == IF t.unit = Nil THEN 0 ELSE t.unit
NewLotId(r) == [run |-> calc[r].run, trade |-> Current(r)]
Insert(table, id, row) ==
  [k \in DOMAIN table \cup {id} |-> IF k = id THEN row ELSE table[k]]

\* Fault: every acquisition counts as occasional income.
WithAnyIncome(c, t) ==
  IF t.unit = Nil THEN c ELSE [c EXCEPT !.income[t.year] = @ + t.quantity * t.unit]

WithIncome(c, t) ==
  IF t.type \in OCCASIONAL_INCOME_TYPES /\ t.unit # Nil
    THEN [c EXCEPT !.income[t.year] = @ + t.quantity * t.unit]
    ELSE c

\* Lots arrive in order of timestamp, so the sorted list is the list with the
\* new lot at its end.
CreateLot(r) ==
  /\ pc[r] = "lot:create"
  /\ LET t == Tx(r) IN
       /\ lots' = Insert(lots, NewLotId(r), [original |-> t.quantity,
                    remaining |-> t.quantity, fullyConsumed |-> FALSE])
       /\ NextTrade(r, WithIncome([calc[r] EXCEPT !.book[t.asset] =
            Append(@, [trade |-> Current(r), left |-> t.quantity, unit |-> UnitCost(t)])], t))
  /\ UNCHANGED <<world, flags, summary, runs, aborts>>

BeginConsumption(r) ==
  /\ AtTrade(r) /\ Consumes(Tx(r))
  /\ Goto(r, "take", [calc[r] EXCEPT !.owed = Tx(r).quantity, !.cost = 0])
  /\ UNCHANGED <<world, lots, flags, summary, runs, aborts>>

CanTake(r) == pc[r] = "take" /\ calc[r].owed > 0 /\ Queue(r) # <<>>
\* Fault: the row of the newest lot is updated.
Newest(r)  == [run |-> calc[r].run, trade |-> Queue(r)[Len(Queue(r))].trade]

Oldest(r)  == [run |-> calc[r].run, trade |-> Head(Queue(r)).trade]
Taken(r)   == Smaller(calc[r].owed, Head(Queue(r)).left)

\* Fault: a lot used up exactly stays at the head of the list.
ShortenedLate(queue, q) ==
  IF queue[1].left < q THEN Tail(queue) ELSE [queue EXCEPT ![1].left = @ - q]

\* The queue after q coins of its first lot.
Shortened(queue, q) ==
  IF queue[1].left = q THEN Tail(queue) ELSE [queue EXCEPT ![1].left = @ - q]

ConsumeLot(r) ==
  /\ CanTake(r) /\ Oldest(r) \in DOMAIN lots
  /\ LET left == Head(Queue(r)).left - Taken(r) IN
       lots' = [lots EXCEPT ![Oldest(r)] =
                  [@ EXCEPT !.remaining = left, !.fullyConsumed = (left = 0)]]
  /\ Goto(r, "take", [calc[r] EXCEPT
       !.book[Tx(r).asset] = Shortened(@, Taken(r)),
       !.owed = @ - Taken(r),
       !.cost = @ + Taken(r) * Head(Queue(r)).unit])
  /\ UNCHANGED <<world, flags, summary, runs, aborts>>

\* Another calculation deleted the row: taxLot.update throws.
LoseLot(r) ==
  /\ CanTake(r) /\ Oldest(r) \notin DOMAIN lots
  /\ Finish(r)
  /\ UNCHANGED <<world, lots, flags, summary, runs, aborts>>

\* Fault: the loss keeps its sign.
WithSignedLoss(c, t) ==
  LET result == t.quantity * t.unit - c.cost IN
  IF result >= 0 THEN [c EXCEPT !.gain[t.year] = @ + result]
                 ELSE [c EXCEPT !.loss[t.year] = @ + result]

\* What the lots could not cover costs nothing.
WithResult(c, t) ==
  LET result == t.quantity * t.unit - c.cost IN
  IF result >= 0 THEN [c EXCEPT !.gain[t.year] = @ + result]
                 ELSE [c EXCEPT !.loss[t.year] = @ - result]

FinishConsumption(r) ==
  /\ pc[r] = "take" /\ (calc[r].owed = 0 \/ Queue(r) = <<>>)
  /\ LET t == Tx(r) IN
       IF t.type \notin DISPOSAL_TYPES THEN NextTrade(r, calc[r])
       ELSE IF t.unit = Nil THEN Goto(r, "flag:find", calc[r])
       ELSE NextTrade(r, WithResult(calc[r], t))
  /\ UNCHANGED <<world, lots, flags, summary, runs, aborts>>

\* Fault: a net loss is set against the exempt occasional income.
SummaryOffsettingLoss(y, gain, loss, income) ==
  LET net == gain - loss
      capitalUsed == IF net > 0 THEN Smaller(net, CapitalExemption[y]) ELSE 0
      occasionalUsed == Smaller(income, OccasionalExemption[y])
  IN [gain |-> gain, loss |-> loss, net |-> net, income |-> income,
      capitalUsed |-> capitalUsed, occasionalUsed |-> occasionalUsed,
      taxable |-> Positive(net - capitalUsed + income - occasionalUsed)]

SummaryOf(y, gain, loss, income) ==
  LET net == gain - loss
      capitalUsed == IF net > 0 THEN Smaller(net, CapitalExemption[y]) ELSE 0
      occasionalUsed == Smaller(income, OccasionalExemption[y])
  IN [gain |-> gain, loss |-> loss, net |-> net, income |-> income,
      capitalUsed |-> capitalUsed, occasionalUsed |-> occasionalUsed,
      taxable |-> Positive(net - capitalUsed) + Positive(income - occasionalUsed)]

PersistSummary(r) ==
  /\ pc[r] = "next" /\ calc[r].at > Len(calc[r].snapshot)
  /\ LET c == calc[r] IN
       summary' = [summary EXCEPT ![c.year] =
         SummaryOf(c.year, c.gain[c.year], c.loss[c.year], c.income[c.year])]
  /\ Finish(r)
  /\ UNCHANGED <<world, lots, flags, runs, aborts>>

----------------------------------------------------------------------------
\* A query or a price lookup fails (a rate limit, a lost connection, a restart
\* of the process): what was written stays.
Abort(r) ==
  /\ pc[r] # "idle" /\ aborts < MaxAborts
  /\ aborts' = aborts + 1
  /\ Finish(r)
  /\ UNCHANGED <<world, lots, flags, summary, runs>>

\* A synchronisation inserts a trade, of whatever date.
Ingest(i) ==
  /\ stored[i] = "absent"
  /\ stored' = [stored EXCEPT ![i] = "counted"]
  /\ UNCHANGED <<trades, lots, flags, summary, pc, calc, runs, aborts>>

\* detectInternalTransfers pairs a withdrawal with a deposit of another source.
PairTransfer(i, j) ==
  /\ {i, j} \subseteq Counted
  /\ trades[i].type \in {"WITHDRAWAL", "TRANSFER_OUT"}
  /\ trades[j].type \in {"DEPOSIT", "TRANSFER_IN"}
  /\ trades[i].asset = trades[j].asset /\ trades[i].quantity = trades[j].quantity
  /\ stored' = [stored EXCEPT ![i] = "internal", ![j] = "internal"]
  /\ UNCHANGED <<trades, lots, flags, summary, pc, calc, runs, aborts>>

AcquireStep(r) == BeginAcquisition(r) \/ FindFlag(r) \/ CreateFlag(r) \/ CreateLot(r)
ConsumeStep(r) == BeginConsumption(r) \/ ConsumeLot(r) \/ LoseLot(r) \/ FinishConsumption(r)
Step(r) == DeleteLots(r) \/ SkipTrade(r) \/ AcquireStep(r) \/ ConsumeStep(r) \/ PersistSummary(r)

Init ==
  /\ trades \in Histories
  /\ stored = [i \in Indices |-> IF i \in Late THEN "absent" ELSE "counted"]
  /\ lots = [id \in {} |-> Nil]
  /\ flags = [i \in Indices |-> 0]
  /\ summary = [y \in Years |-> Nil]
  /\ pc = [r \in Calcs |-> "idle"]
  /\ calc = [r \in Calcs |-> Nil]
  /\ runs = 0 /\ aborts = 0

Next ==
  \/ \E r \in Calcs, y \in Years : BeginCalculation(r, y)
  \/ \E r \in Calcs : Step(r) \/ Abort(r)
  \/ \E i \in Indices : Ingest(i)
  \/ \E i, j \in Indices : PairTransfer(i, j)

\* The event loop resumes every handler whose query has been answered.
Fairness == \A r \in Calcs : WF_vars(Step(r))
Spec == Init /\ [][Next]_vars
FairSpec == Spec /\ Fairness

----------------------------------------------------------------------------
TypeOK ==
  /\ trades \in Histories
  /\ stored \in [Indices -> {"absent", "counted", "internal"}]
  /\ DOMAIN lots \subseteq LotId /\ \A id \in DOMAIN lots : lots[id] \in LotRow
  /\ flags \in [Indices -> Nat]
  /\ summary \in [Years -> Summary \cup {Nil}]
  /\ pc \in [Calcs -> Steps]
  /\ calc \in [Calcs -> Calculation \cup {Nil}]
  /\ \A r \in Running : calc[r] \in Calculation
  /\ runs \in 0..MaxRuns /\ aborts \in 0..MaxAborts

\* The rows a calculation has created and the book it keeps in memory never
\* disagree, whatever other calculations do to the table in between: a row it
\* still has in its book holds what the book says, any other row is used up.
\* (The code keeps both up to date by hand, one update per lot taken.)
RowsOf(r) == {id \in DOMAIN lots : id.run = calc[r].run}
RowsFollowBook ==
  \A r \in Running : \A id \in RowsOf(r) :
    IF lots[id].remaining = 0
      THEN \A a \in Assets : \A k \in DOMAIN calc[r].book[a] :
             calc[r].book[a][k].trade # id.trade
      ELSE \E a \in Assets : \E k \in DOMAIN calc[r].book[a] :
             /\ calc[r].book[a][k].trade = id.trade
             /\ calc[r].book[a][k].left = lots[id].remaining

\* A calculation ends: every pass of the loop over the lots uses up the sale or
\* a lot.
CalculationEnds == \A r \in Calcs : pc[r] # "idle" ~> pc[r] = "idle"
=============================================================================
