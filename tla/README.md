# A verification project for KriptoBeyan

KriptoBeyan is the backend of a Turkish crypto-tax assistant: NestJS, PostgreSQL
through Prisma, one BullMQ queue, one Node process under PM2. This directory
holds TLA+ models of its core logic, TLC configurations that check them on small
instances, and proofs for TLAPS. `PROJECT.json` maps every definition to the
lines it stands for; paths below are relative to the repository, services being
under `src/`.

To check one run: `tlc -config sync_recovery.cfg MCSyncPipeline.tla`. To check
the proofs of one module: `tlapm Billing_proofs.tla`.

## 1. The system

A user connects exchange accounts and wallets or uploads CSV files. Their
transactions are ingested into one table, transfers between the user's own
accounts are recognised, and for a tax year gains are computed first in, first
out. Plans limit what may be used; payments are bank transfers that an
administrator approves by hand. Accountants invite clients, get verified, and
give out coupons.

One fact shapes everything that is hard here: **no handler opens a database
transaction**. Every `await prisma...` ends one query and lets any other request
run before the next. What a handler has read may be stale when it writes, two
handlers that check and then act can both pass the check, and a handler that
dies (a failed query, a restart of the process) leaves what it has written so
far. There are no useful tests of any of this in the repository.

### Inventory

The last column names the modules; their proofs are in modules of the same name
with `_proofs`, those of the smaller services (section 9) in `Services_proofs`.

| Component | State | Operations | What is hard | What makes it correct | Modelled in |
|---|---|---|---|---|---|
| Payments and subscriptions (`subscription/`) | payments, subscriptions, plans | create (with quote, coupon), attach receipt, approve, reject, edit plan | two decisions on one payment; approval dies between granting and marking; a quote that is stale when approved | each payment is decided once and grants exactly what it bought; a decision is final; terms of existing subscriptions do not move | `Billing`, `PaymentLedger`, `BillingRefinement` |
| Coupons (`coupons/`, `accountant/`) | coupons, redemptions | create, validate, record, switch on and off | discount and redemption are two writes; check-then-create | the discount on a payment is the one of its redemption row; nobody redeems his own | `Billing`, `AccountLinks` |
| Tax calculation (`tax-calculation/`) | tax lots, flags, summaries | `calculateForYear` | rebuild by delete and create, next to another rebuild; partial lots; failed price lookups | the queue of lots is first in, first out; table and memory agree; every unpriced trade is flagged; summary follows from the trades read | `TaxLots`, `FifoReference` |
| Synchronisation and ingestion (`exchange-integration/`) | connections, wallets, imports, transactions, the queue | create, remove, sync, performSync, importCsv, ingest | restarts and failures between rows; removal in mid-job; what lies between fetch and stamp | nothing is lost or stored twice; a status SYNCING ends; every row is searched for transfers | `SyncPipeline` |
| Internal transfers, reconciliation (`transaction-aggregation/`) | `isInternalTransfer`, flags, `taxYear` | `detectInternalTransfers`, `reconcile` | overlapping searches, greedy choice, sources of removed connections | pairs are disjoint, of different sources; a flag per negative balance | `TransferMatching`, `BalanceReference` |
| Exchange and chain clients (`adapters/`, `onchain/`) | none beyond a call | windows, pages, cursors, retries, permission level | boundaries, swallowed errors, bounded retries | every row handed over once, under a key of its own | `ExchangeClients`, `AdapterPaging` |
| Accountants (`accountant/`) | links to clients, documents | invite, accept, remove, upload, approve, reject, create coupon | slots read, links counted, row written, in three queries, while plans change; acceptance races removal | an invitation has one of the slots it read; a removed link stays removed; approval is of the documents seen | `AccountLinks` |
| Staff and users (`user/admin-users.service.ts`) | staff, users | grant, revoke, remove, edit | two administrators revoke each other | a member of staff remains | `StaffRegistry`, `Enrolment`, `Sessions` |
| Accounts (`auth/`) | users' addresses, links, codes | register, verify, resend | uniqueness looked up in separate queries; a link generated and not sent | an address counts as verified by its own link only; what an account waits for was sent | `Enrolment` |
| Sessions (`auth/`) | users' login state, refresh tokens | login, refresh, logout, reset, change password, two-factor | rotation races, period of grace, lock-out counts | a password change ends the sessions before it; one live token per login | `Sessions` |
| Notifications (`notifications/`) | notification log | yearly reminders; create, announce, mark read | a mail that fails after its log row | at most one reminder a year, and nobody passed over | `Reminders` (the reminders) |
| Price data (`price-data/`) | price cache, list of coin names | getPrice, convert, getRate | cache misses together; a rate that falls back; a list that is reloaded | a rate is the official one of its day; one price for a coin and a day | `Prices` |
| Reports (`reports/`) | reports, share tokens | generate, share | first shares that overlap | a link once given opens the report until its end | `SharedReports` |
| Support (`support/`) | tickets, messages | create, message, update status | message and status are two writes, and staff decide on what an earlier request showed | an unanswered message leaves the ticket open unless the staff had read it | `SupportDesk` |
| Spam filter; dashboards, harvesting, profile, logs, content, statistics, encryption | read-only or single rows | | | | not modelled (section 10) |

How they interact: the controllers of synchronisation and calculation ask the
subscription for limits; payments call coupons; ingestion calls the spam filter
and then, in the same call, the search for transfers and reconciliation, which
call notifications; calculation reads the transactions as ingestion and the
search left them and asks price data for each; reports read what calculation
stored. The queue is the only asynchronous hand-over; all the rest is calls
within a request, and shared tables.

The hazards this gives rise to are listed in `PROJECT.json` with the line where
each bites, the properties that cover it, or why none does.

## 2. Conventions of the models

* One step per query. An action that begins a request covers the handler up to
  its first query and the checks on the row that came back. Where a check fails
  the handler throws without a trace, so only passing branches are steps. Where
  the throw leaves something behind (a marked connection) it is a step.
* Requests (or workers) have a program counter and a record of locals: exactly
  what the handler keeps across its awaits. A value read into locals is stale
  from then on.
* Failures are actions (`Abort`, `Fail`, `Throw`, `FetchFails`, `InsertFails`,
  `AnalysisFails`, `EnqueueFails`, `TakeJobFails`, `FinishFails`, `CatchFails`,
  `Restart`, `FailFetch`), each bounded by a constant.
* History variables record what an honest statement must except, and only that:
  the two requests that really crossed, the failure that really cut in. The
  code guards against none of these cases; naming them in the property says that
  there are no others. `contested` (Billing), `dropped`, `gaps`, `stranded`,
  `interrupted` (SyncPipeline), `overlaps`, `contended` (TransferMatching),
  `forked`, `excused`, `cutShort`, `lockLost`, `tangled` (Sessions), `crossed`,
  `late` (StaffRegistry, AccountLinks), `vouched`, `silent` (Enrolment),
  `excused` (Prices), `lost` (Reminders), `overtaken`, `untold`, `unseen`, `known`
  (SupportDesk), the `limit` of a link (AccountLinks), `twice` (SharedReports),
  `passed`, `outdated` (AdapterPaging). No guard reads them.
* A run's bounds are constants (`MaxRuns`, `MaxAborts`, `MaxTime`, ...) that the
  guards of the actions they bound name. The theorems hold for all of them.
* Requests and workers are finitely many, since counts of them are part of what
  is proved. How many is nowhere said.
* Ids created by the database are positions in a sequence or records of the run
  that made them. Money and quantities are small naturals. Texts are left out.
* Definitions that begin with "Fault:" or "The fault of" are wrong variants of
  the definition below them: plausible mistakes the properties are tested
  against. No specification uses them.

## 3. Billing

Modules: `Billing` (the model), `PaymentLedger` (what it promises),
`BillingRefinement` (the mapping), `MCBilling` (instances), `Billing_proofs`.

State: `plans`, `couponActive`, `payments`, `subs`, `redemptions` are the tables
of `schema.prisma`; `pc` and `work` are the requests in progress. `createPayment`
is `BeginCreate`, `QuoteFullPrice` or `QuoteUpgrade`, `ApplyCoupon`,
`InsertPayment`, `RecordRedemption`; `markCompleted` is `BeginApprove`,
`LookupForUpgrade`, `Activate` or `SwitchPlan`, `MarkCompleted`; `reject` is
`BeginReject`, `MarkRejected`; `attachReceipt`, plan edits and the coupon switch
are there too. `ActiveSubscription` is a set, since the query takes the first of
the subscriptions that end last and equal ends have no order. `CouponDiscount`
is the rounded percentage, in kurus.

| Run | Shows |
|---|---|
| `billing_overlap` | With two requests in progress, one of which may die at any await: a payment no two decisions overlapped on grants once iff it is approved (`DecidedOnce`), its row names that subscription (`CompletedNamesOwnTerm`), the decision is final (`DecisionIsFinal`), no existing term moves (`TermFixed`), and the whole implements `PaymentLedger` (`ImplementsLedger`) |
| `billing_coupons` | Two customers, a coupon that is switched while it is used, a plan that becomes free, or a death: the discount and its redemption agree, and as many redemptions are missing as requests died between the two writes, at most (`CouponAccounted`); nothing is sold for zero (`EveryPaymentCharges`) |
| `billing_renewal` | Violated: a renewal "extends the existing subscription". It starts a new year today and the rest of the old one is lost (`RenewalExtends`) |

Bounds: two payments and two requests are the least in which decisions overlap
on one payment while another is open; a term of one tick lets a subscription end
between any two queries; one death reaches each await once. In `billing_coupons` a
behaviour has one edit of a plan or one death (`OneMishap`): an edit matters to a
payment until it is quoted, a death costs one after it is inserted. A third request adds
no pair of queries that two do not have.

The refinement. `PaymentLedger` knows payments that are absent, open, approved,
rejected or contested, and which of them have entitled the customer. An
approval takes effect at the write of the subscription (`Granting`), not at the
mark; a payment that decisions overlap on, or whose approval dies between its
writes, leaves the promise (`Contest`).

Two sentences of the code are stated and refuted by `billing_overlap` when they
are added to it: `OnlyPendingDecided` ("only pending payments can be rejected")
and `UpgradeOpensNoTerm` ("only changes the plan": approved after the old
subscription ended, the price difference buys a full year). `TermFixed` is about
the periods of subscriptions that exist; that an upgrade quoted on one
subscription is applied to another is what the code does, and no property
forbids it.

Proved in `Billing_proofs`, for any number of users, plans, coupons, requests:

* `TypeCorrect`: `TypeOK`. It is inductive with the strengthening `TypeInv`,
  which ties what a request carries to the step it is at.
* `ChargesAlways`: `EveryPaymentCharges`. What makes it inductive is that a
  draft past its quote carries a positive amount, and that 15% rounded is less
  than the whole.
* `DecidesOnce` and `DecisionsAreFinal`, from `DecisionInv`: for every payment
  outside `contested`, at most one request is deciding, and status, grants and
  the place of that request agree (`Exact`). The overlap has to be noted when a
  decision *begins*; noting it at the write would not be inductive.

* `CompletedNameTheirs`: `CompletedNamesOwnTerm`, and `TermsStayFixed`:
  `TermFixed`, from `TermInv`: the approval under way works on a subscription of
  the payer and switches plans for upgrades only, and a payment that is not
  completed names no subscription.
* `CouponsAccounted`: `CouponAccounted`, from `CouponInv`: between the insert of a
  payment and its redemption the request alone knows of the discount, so the
  invariant says it of the request, and that no two requests redeem for one
  payment. The payments without a redemption (`Unredeemed`) are counted: a step
  that is no death adds none, a death adds that of its request.
* `LedgerImplemented`: `ImplementsLedger`. The mapping is taken entry by entry
  (`Mapped`): each step of a handler changes the entry of at most the payment it
  concerns, and that as a step of the ledger does. `Capacity` says that the
  payments in the table and those about to be inserted fit in the ledger.

Assumptions: `CatalogueAssumption`, `BoundAssumption` (types) and
`RequestAssumption` (a process has finitely many requests open). Every property
of the two passing runs is proved.

## 4. Tax lots

Modules: `TaxLots`, `FifoReference` (what first in, first out means),
`MCTaxLots`, `TaxLots_proofs`.

`calculateForYear` is `BeginCalculation` (reads the history), `DeleteLots`, then
per trade `SkipTrade`, or `BeginAcquisition`/`FindFlag`/`CreateFlag`/`CreateLot`,
or `BeginConsumption`, one `ConsumeLot` per lot taken (a `LoseLot` when another
calculation has deleted the row), `FinishConsumption`, and `PersistSummary`.
`book`, `gain`, `loss` and `income` are the maps in memory; `lots`, `flags` and
`summary` are the tables. A price is a number per coin or `Nil`. Meanwhile
trades arrive (`Ingest`), are paired as transfers (`PairTransfer`), and
calculations die (`Abort`).

`FifoReference` says the same without a queue: coins are numbered in the order
they were acquired, a sale takes the numbers that follow those taken before it,
and costs what they cost.

| Run | Shows |
|---|---|
| `tax_alone` | Every history of four trades built from eight kinds (and of three with lira, swaps and another coin): the queue and the totals after each trade (`FifoExact`), the summary stored against the history its calculation read (`SummaryExact`; not that a summary of an older reading may replace a newer one, which the code does not prevent), and that the calculation ends (`CalculationEnds`, under weak fairness of its steps) |
| `tax_overlap` | Three calculations, two at a time, a late trade, a pairing, one death: rows follow the book (`RowsFollowBook`); a calculation nothing overlapped leaves exactly its lots, and every unpriced trade behind any calculation is flagged, and only those (`RebuildSound`) |

Bounds: four trades are enough for a sale over two lots that leaves part of the
second, a sale of more than there is, and a sale that follows it; two years
separate the totals; two calculations at a time and a third after them cover a
rebuild over the leavings of an overlap. Quantities 1 to 3 reach lots used up
exactly, in part, and fallen short of.

That a calculation is "an idempotent, consistent full rebuild" is stated as
`OneLotPerTrade`, which `tax_overlap` refutes when it is added: two calculations
both delete, both create, and every trade has two lots.

Fairness: `WF` of each calculation's step says the event loop resumes a handler
whose query was answered. Nothing is assumed about starting calculations.

Proved in `TaxLots_proofs`, for every set of histories of any length and any
number of calculations:

* `TypeCorrect`: quantities left and totals are never negative.
* `RowsAlwaysFollowBook`: `RowsFollowBook`, which alone is not inductive. `BookInv`
  adds that runs have numbers of their own (`RunsApart`), and, for each
  calculation (`Mirror`), that no trade is twice in its queues, that queued lots
  are of trades behind it and not empty, and that every row of its run agrees
  with the queue or is used up.
* `FifoIsExact`: `FifoExact`, the engine against the definition of first in, first
  out. `FifoInv` says, of a calculation before any query, that its totals are
  those of the trades it has handled, and that the queue of each asset is what the
  reference leaves of the lots behind it (`QueueIs`): after the coins that are
  gone, each lot in order with what remains of it. Inside a consumption the
  coins gone are those owed no longer, and the cost so far is that of the coins
  between (`Consuming`). The sums of the reference are over positions of the
  history (`Sums`), so that the lemmas about them (`Sums_proofs`) go from one
  trade to the next.
* `SummariesAreExact`: `SummaryExact`, from the same invariant at the last trade.
* `RebuildsAreSound`: `RebuildSound`, from `FlagInv` (an unpriced trade behind a
  calculation is flagged before its lot is made or its loop goes on, and nothing
  else ever is) and `LotInv` (a calculation that nothing overlapped has, past its
  delete, exactly the rows of the acquisitions behind it).

Assumptions: `HistoryAssumption`, `ExemptionAssumption`, `BoundAssumption`, all but
types; quantities are positive (section 10). Only model-checked:
`CalculationEnds`, which is liveness.

## 5. Synchronisation and ingestion

Modules: `SyncPipeline`, `MCSyncPipeline`, `SyncPipeline_proofs`.

A connection stands for an exchange connection or a wallet: the two `sync` and
`performSync` differ in the client they call. `sync` is `RequestSync`,
`MarkSyncing`, `Enqueue`. The worker (the queue has concurrency 1 and each job
one attempt) is `TakeJob`, `Fetch`, one `Insert` or `SkipRow` per row,
`FinishInserts`, `Detect`, `Reconcile`, `Stamp`; `FetchFails` and `AnalysisFails`
lead to the catch block, `SyncFails`, and so does the last update when it throws
(`FinishFails`). The update in the catch block is a call to the database like
any other and may throw too (`CatchFails`): nothing catches that, and the status
stays what it was. `importCsv` is `ImportCsv`, the same ingestion in a process of
its own, and `FinishImport`, with the same two failures. A mark that fails
(`sync`, before the job) ends the request with nothing changed and is no step. `Remove` deletes a
connection at any point: the foreign keys of its rows become null, as the schema
says, and what is under way for it fails at its next write. `Restart` stops all
that is in progress; BullMQ gives a stalled job out once more, before the
waiting ones, and fails it the second time (modelled from the library's
documented behaviour, external).

`EveryRowAnalysed` (what is stored has been searched for transfers) is refuted
by `sync_recovery` when it is added: a restart between rows and search; the
repeated job inserts nothing and so searches nothing. `AnalysedUnlessInterrupted`
says that it takes such an interruption.

Abstractions: an item has one date, the time its account shows it; the clock is
the same for accounts and server; a fetch is one step that returns what is due
(`Due`: dated not before `lastSyncedAt`), fails, or, as several clients do on
errors, returns a part without saying so (`dropped`). The search for transfers
and reconciliation are the two steps `Detect` and `Reconcile`, here only *when*
they run.

| Run | Shows |
|---|---|
| `sync_recovery` | A connection, a transaction of its account, an import with a good and a bad row, any two calls that fail, one restart, removal at any point. What is older than `lastSyncedAt` is in the table, but for items whose key another row holds, items skipped without an error, and items dated between a fetch and its stamp (`LostOnlyKnownWays`); SYNCING is looked after (`SyncingTended`); rows point at what they came from (`RowsKnowTheirSource`); every row is searched unless an error or restart cut in (`AnalysedUnlessInterrupted`) |
| `sync_settles` | Under fairness, a connection stops to say SYNCING unless a call has failed that leaves it so without a job (`SyncingEnds`) |
| `sync_two_wallets` | Violated: a refused key means "it is there already". Both sides of a transfer between two wallets of one user have one key, the second is never stored (`EveryItemStored`) |

Bounds: one time step is enough for an item to fall between fetch and stamp; one
waiting job and one in hand let a second request overtake; two failures let the
update in a catch block fail after what led there; a second restart repeats what
one does, except that a stalled job is failed on its second stall, which the
proof covers. Keys are
of one item each here; what a shared key does is `sync_two_wallets`.

Fairness (`FairSpec`): weak fairness of `PerformSync` (the worker takes waiting
jobs and its handler is resumed: for the step that fetches this assumes that
every request ends, see section 8), of each request's next step and of each
import. None of the clock, of users or of failures.

Two losses the code does not guard against are made explicit as history, so that
the property can say there are no others. `gaps`: `lastSyncedAt` is the time
of the stamp, and what the account shows after the fetch began but before the
stamp is older than the next fetch asks for. `dropped`: an insert that fails for
another reason than its key is logged and passed, and clients answer some
refusals with an empty page (section 8 says which). `stranded` does the same for `SyncingTended`: the
connection says SYNCING and its job is gone when the queue refuses the job, the
process stops between marking and queueing, `getOwned` or the decryption throws
before the try block, the update in the catch block throws, or a job stalls
twice. Each lasts until the user asks for another synchronisation, which takes
the connection off the record and makes its job count again.

Proved in `SyncPipeline_proofs`, for any number of connections, imports,
requests, failures and restarts, from `SyncAssumption` (types, disjoint ids):

* `TypeCorrect`: `TypeOK`, including the bound on the queue. It needs `TypeInv`:
  the job in hand counts among the jobs (a restart puts it back), the worker's
  reference is a connection, the account was read before rows are inserted, and
  an analysis has read only rows that are still there.
* `SyncingAlwaysTended`: `SyncingTended`, inductive together with `TypeInv`: a
  job passes from request to queue to worker, and back to the head of the queue
  on a restart, and never disappears between.

* `NothingElseLost`: `LostOnlyKnownWays`, with `CursorInv`: nothing is dated in
  the future; the `since` of the job in hand is still its connection's
  `lastSyncedAt`, because one worker stamps and connections are created once;
  and past the fetch the job *owes* only what is on its list, stored under its
  key, dropped, or newer than the fetch. The stamp then moves `lastSyncedAt`
  over nothing but what `dropped` and `gaps` record.
* `SourcesAlwaysKnown`: `RowsKnowTheirSource`, with `SourceInv`: the list of an
  ingestion holds only what its account or file shows.
* `RowsAlwaysAnalysed`: `AnalysedUnlessInterrupted`, with `CoverInv`: each row
  not yet analysed is covered by an ingestion that has inserted and will search,
  or searches with the row read. This is where it matters that a first new row
  forces the analysis, and that an import begins once.

Only model-checked, for good: `SyncingEnds` (liveness).

## 6. Internal transfers and reconciliation

Modules: `TransferMatching`, `BalanceReference` (balances without a replay),
`MCTransferMatching`, `TransferMatching_proofs`.

What `SyncPipeline` treats as two steps is taken apart here: `ingest` is
`BeginIngest`, one `InsertRow` or `SkipRow` per row and `BeginSearch` (or
`NothingInserted`); `detectInternalTransfers` is `ReadOutgoing`, `ReadIncoming`
(two queries, in any order of rows, for neither has an `orderBy`), then per
withdrawal `MarkPair` or `NoCandidate`, and `EndSearch`; `reconcile` is
`ReadHistory`, per row `ReplayRow`, and where the balance falls below zero
`FindFlag`, `CreateFlag`, `Notify`, then the balance set back to zero.
`RemoveSource` deletes a connection or a wallet between any two of these.
`Fits` has the 48 hours and the one percent of the code; quantities are in
hundredths, so that the tolerance is exact.

| Run | Shows |
|---|---|
| `transfer_matching` | Four histories of four rows, two ingestions that overlap anywhere, one removed source, one death. Rows are hidden two by two, in pairs that fit, of two sources or of none recorded, and a row is in two pairs only of searches in progress together (`PairsSound`); a search that ended left nothing it read that it would have paired (`SearchExhausts`: the pairing is maximal, not the largest; an early choice may starve a later withdrawal); balances are those of the reference, each shortfall is flagged, and twice only by reconciliations that crossed (`ReplayExact`) |

Bounds: two withdrawals and two deposits that compete are the least in which an
early choice takes the only deposit a later withdrawal could have had; the other
books put both sides into one file and one account, at the turn of the year, and
a deficit followed by an inflow. Two ingestions are enough for every crossing of
two searches; `TransferMatching_proofs` has any number.

Proved in `TransferMatching_proofs`, for any rows, histories, sources and
number of overlapping ingestions, from the assumptions of `TransferMatching`
(types, finitely many rows and ingestions, `Nil` no source and no locals):

* `TypeCorrect`: `TypeOK`, with `LocalsHeld`: what was read is still in the
  table, and while a row is being flagged there is one.
* `PairsAlwaysSound` and `SearchesExhaust`: `PairsSound` and `SearchExhausts`,
  from `MatchInv`. `PairsSound` alone says nothing of a search in progress. The
  invariant adds that a source that was read is the row's own or gone
  (`LinksTold`, `Readings`); that a search's own pairs are of withdrawals behind
  it and deposits it has used (`OwnPairs`); that pairs of others among what it
  has read were made by searches it is noted to overlap with (`OthersPairs`,
  `SearchesNoted`, `RunsApart`); and that what it has passed over was used
  (`NothingLeft`).

* `ReplaysAreExact`: `ReplayExact`. A balance that is set back to zero whenever it
  falls below is the largest sum of the movements of any last stretch of the
  rows read; that is the reference (`BalanceReference`) and, of every replay in
  progress, the invariant `BalanceInv`, with the flags of the rows behind it.
  `FlagInv` counts: a notice follows a flag, and where no two reconciliations were
  about to make one, there is one flag at most, those about to be made included.

Every property of the run is proved.

## 7. Sessions

Modules: `Sessions`, `MCSessions`, `Sessions_proofs`. One user's row, his
refresh tokens, and requests that overlap.

`login` reads the row once: `BeginLogin` or `BeginFailingLogin`, then
`CountFailure` and `LockUser`, or `ResetFailures` and `IssueTokenPair`. `refresh`
is `BeginRefresh`, `Rotate`, `IssueTokenPair`; with a revoked token it is
`BeginReuse` and, within the period of grace, `FindCurrent`, which takes over the
newest live token, else `RevokeOnReuse`. `changePassword` and `resetPassword` are
`BeginChange`/`BeginReset`, `WritePassword`, `EndSessions`. `Rotate` writes
unconditionally, as the code does. Passwords, links and secrets are numbered.

| Run | Shows |
|---|---|
| `sessions` | Two requests under four allowances, each a theme. A login whose tokens no two requests replaced at once has at most one live token, and none next to another about to be issued (`OneLivePerSession`); after a change of password a live token of an older one is outstanding, straddled the change, or came from grace (`SessionsEndWithPassword`); failures exceed the limit by no more than the requests that had read the row (`FailuresBounded`); a factor that is on has had a code checked (`TwoFactorConfirmed`) |

Bounds: the four allowances (rotation of two sessions; change and reset;
lock-out; two factors) are explored side by side, since a request of one theme
meets another through the same row and tokens only. Two ticks let a lock, the
grace and a token run out.

Proved in `Sessions_proofs`, for any number of requests, any limits and any
allowances: `SessionTypes` (with `Shape`: what a request's locals name exists);
`FactorsConfirmed` (with `FactorInv`: a request that is about to enable has had
its code checked); `PasswordEndsSessions` (with `EndInv`: the same of what a
request holds before it issues, so that the exception must be noted on requests
and not only on tokens); `OneLiveToken` (with `OneInv`: of a session not
`forked`, the live tokens and the requests about to issue are together at most
one, a replaced token is revoked, and a rotation is of its own session);
`FailuresAlwaysBounded`: `FailuresBounded`, with `FailuresInv`: a failure that is
about to be counted is of one of as many requests as there are, each failure
past the limit is of a request that is to write the lock, and each tick, which may
end a lock, lets at most as many requests past it as there are. Every property of the run is proved, from
the named assumptions of `Sessions` (types; finitely many requests; limits that
are not zero).

## 8. The clients of exchanges and chains

Modules: `ExchangeClients` (what each client asks), `AdapterPaging` (how paging,
windows, retries and errors work), `MCAdapterPaging`, `AdapterPaging_proofs`.

Fourteen exchange clients, three stubs and two chain clients do the same in
different ways. `ExchangeClients` is a table: per client its listings in order,
each with what the answer shows and what is kept, whether it is read per
account, per symbol or per wallet, how it is paged, whether in windows, from
when, in which unit of time, and what keys its rows; the errors it retries; and
the level `verifyPermission` derives from a key's grants. A key is the
exchange's own identifier (`"id"`), or a name that other rows may have: the hash
of the transaction, taken before the identifier (`binance.adapter.ts:141` and
most others), or the number of a trade, which counts per symbol.

`AdapterPaging` is one `fetchTransactions` that reads a row of the table, while
rows arrive, the limit of the rate is met and requests fail: `OpenListing`,
`AskHoldings` and `ReadHoldings`, which make the symbols that are asked for of the
coins held and `COMMON_QUOTES` (`Asked`; for Coinbase the wallets of one page),
`OpenPair` for each of them, `Answer` (with `NextPage`, `NextWindow`,
`EndListing`), `Retry`, `PassOver` (the error of one symbol is caught),
`FailFetch`, `AnswerNoList` and `NoApiKey` (taken for an empty answer by the
Ethereum client), `Arrive`. Next to it runs `verifyPermission`, not awaited when
the connection is created and called again by the user: `ReadGrants` asks the
exchange, `StoreLevel` writes the answer, and the grants may change at any time
(`Regrant`).

| Run | Shows |
|---|---|
| `paging` | For every client, every spread of two to four rows over the windows, of one name or several, of symbols that are asked for and that are not, with a row that arrives and two errors: a fetch that succeeds hands over every row dated before it began, under a key no other row has, but for the losses named below (`RowsHandedOver`); no level that is stored is below what the key may do unless the grants changed after they were read for it (`LevelNotUnderstated`; Paribu's is a guess); paging ends (`PagingEnds`) |

What `RowsHandedOver` excepts is what these clients lose without an error:
a trade of a coin no longer held or against one that is not in
`COMMON_QUOTES`; a wallet beyond the only page of them; a symbol, wallet or answer
whose own error was passed over; an answer with more rows than its only page holds;
and rows of one order, transaction or number that the key does not tell apart.

Bounds: a page of two rows and windows of two ticks make each listing cross both
boundaries; listings read in the same way as an earlier one of the client get
short histories. One coin is held and asked for against two others; a fourth is
never asked for. Two errors exhaust the one retry, or meet two requests.
Accounts with rows are not verified, and verified accounts have no rows, since the
two share nothing but the connection; two calls and two sets of grants are the
least in which a later answer is stored first.
`PagingEnds` rests on `FairSpec`: every request is answered or fails, nothing
more; rows may keep arriving within the bound. That is an assumption on the
runtime: the clients call `fetch` and none sets a timeout or an abort signal, so a
request left open holds the only worker of the queue for as long as the
runtime's own limits allow.

Assumed of the exchanges, outside the source: range parameters mean what they
are called (inclusive of both ends where both are given); `idLessThan` and
backward cursors exclude the row they name; a cursor is returned exactly when
there is more; identifiers, where they key a row, are unique within an account.

Proved in `AdapterPaging_proofs`, for every account of every client of the table,
any page size, window, unit of time, retries, and rows that arrive as they may:

* `PagingTypes`: `TypeOK`.
* `EveryRowHandedOver`: `RowsHandedOver`, from `PagingInv`. Earlier listings
  (`EarlierHanded`) and earlier symbols (`PairsHanded`) have handed over what they
  had to; of the listing that is read (`PageHanded`) every row it has to hand over is
  collected, excused, or *due*: behind the cursor, or in a later window. The
  proof shows that a page moves the cursor past the rows it returned and no
  further, for each of the ways of paging, whatever rows share an instant, and that
  windows leave nothing between them. It uses of the table what `Fits` says of
  each listing, which is proved client by client.
* `LevelsNotUnderstated`: `LevelNotUnderstated`, from `LevelRead`: what is stored
  or about to be is unknown or the level the client derives of the grants,
  unless they have changed since.

Assumptions: `PagingAssumption` (types; a page holds a row; the clock starts no
earlier than the look-back; the bound on it is no earlier than the fetch), and
`AccountsAssumption`: the rows of an account are in the order of their times and
in the past. Nothing is assumed of the level that is stored: a level is read when a
connection is created and when its owner asks
(`exchange-integration.service.ts:57` and `:62`), never by a synchronisation, so
that grants changed at the exchange stay unknown until then (`outdated`).

This is where `dropped` of `SyncPipeline` comes from: each exception of
`RowsHandedOver` is a row that a synchronisation leaves out without an error.

## 9. The smaller services

Modules: those of the table, `Services` (their composition), `MCServices`,
`Services_proofs`.

Seven scenes in one run. Each module is a component of its own with its own
variables; they share no state, so `Services` plays one of them per behaviour
(drawn in `Init`), which keeps one run with one property per kind of promise.
What `Enrolment` explores is drawn too: `Allowances` bounds how many links or codes,
edits and mishaps (a death, a tick) a behaviour has.

| Module | Models | Scene and bounds |
|---|---|---|
| `Enrolment` | registration (three lookups, create, mail, code), verification of address and phone, new links and codes, an administrator's edit of a user | `enrolment`: two addresses, names and numbers; three links or codes and one death or tick, or two links and one edit |
| `StaffRegistry` | grant, revoke, remove behind `AdminGuard`, promotion from the command line | `registry`: three users, five calls |
| `AccountLinks` | documents, approval and rejection; invitation (limit of the plan in force, count, look-ups, row, mail), acceptance, removal; plans that end, begin and change; the accountant's coupon | `clients`: two clients, a plan of one slot or none, two invitations, two calls or changes of the plan; the accountant is new, or approved with his clients registered |
| `Prices` | the cache, the list of names with its time to live, the history of a coin, the central bank's rate with four days to fall back on (the client tries five; the comment, `tcmb.client.ts:14`, speaks of the nearest working day before, which a longer holiday puts out of reach: then there is no rate, and `Official` says so) | `prices`: two hours on both sides of a Turkish midnight, three conversions, one error, a rate published in between |
| `Reminders` | the daily job | `reminders`: two users, two days of a March, another month, the next March, two failures |
| `SupportDesk` | messages and status of a ticket; updates by staff who have read the ticket in an earlier request | `desk`: four messages, two updates, one death |
| `SharedReports` | generation and sharing of a report | `sharing`: three shares, two ticks |

| Property of `services` | Says |
|---|---|
| `AccountsProven` | An address counts as verified by a link mailed to it or an administrator's hand; the link and code an account waits for were sent, unless a request died first |
| `LimitsKept` | Someone is left to administer; an invitation has one of the slots it read and there is one coupon; nobody is reminded twice in a year or passed over: but for requests that cross between check and write, and mails that fail. A plan that ends or shrinks takes no link away, for only `inviteClient` asks for a slot: an accountant may then have more clients than slots, and has them for as long as he likes |
| `DecidedAsRead` | A link is accepted once and stays removed; an approval is of the documents looked at: but for what changed between reading and writing |
| `PricesSound` | A dollar rate is the official one of the trade's day in Turkey; all prices given for a coin and a day are the one that was cached, but for those whose store was refused |
| `TicketsAndLinksHold` | The last message of a user leaves the ticket open unless staff decided after they had read it, two writes crossed, a request died between its own, or staff decided on what they had read before it; a link once given opens its report until its end unless first shares overlapped |

Abstractions: an administrator's update of phone, role or name is left to the
components it concerns, and what it does to a replaced address (flag and links
stay) is modelled; one report and one ticket are followed, since others share
nothing with them; `convertToTRY` with a quote in dollars has no caller.

Proved in `Services_proofs`, for any numbers of users, clients, requests, days
and calls: `ScenesInvariant`, that the scene played keeps the invariant of its
component (`ScenesHold`), and from it one theorem for each property of the run:
`ServicesTypes` (`TypeOK`), `AccountsAreProven`, `LimitsAreKept`, `DecisionsAsRead`,
`PricesAreSound`, `TicketsAndLinksAreKept`. The invariants:

* `AccountInv` (`Enrolment`). A link is of one account from the moment it is drawn:
  a request that carries one to a row or a mail carries it alone, for an account
  whose address is the one it read unless an administrator vouched since
  (`LinkInv`). What a row waits for was sent, is carried by a request, or its
  account is in `silent` (`OnItsWay`).
* `RegistryInv` (`StaffRegistry`). Until deletions cross, a count is a lower bound,
  and a deletion that is due leaves someone (`CountHolds`).
* `ClientInv` and `ClientSlotInv` (`AccountLinks`). A request holds what its link
  says, or the link is noted to have changed (`ClientReadOrStale`); a request about to
  create has a slot of those it read, whatever the plan is by now, or another was
  noted to come after its count (`ClientSlotKept`).
* `PriceInv` (`Prices`). A rate a request carries is the official one of the day, or
  every later day it has passed had none, or a lookup failed (`Promises`);
  the cache and the answers follow.
* `ReminderInv` (`Reminders`). Whoever the job has left behind is logged
  (`LeftBehind`), and it is at one user whose mail of the year is not out (`AtOne`).
* `DeskInv` (`SupportDesk`). A status about to be written opens the ticket, follows
  a message of the staff, or is of staff who had read the ticket, up to a message
  they hold (`DeskSuits`).
* `ShareInv` (`SharedReports`). Two tokens about to be written while the report has
  none were drawn twice, and so was one that differs from that on file.

Assumptions: the seven named ones of `Services`, for types and bounds (finitely
many users; a calendar that is not empty), and `NilAssumption`.

## 10. What is not modelled

* Spam filter: `addToList` has no caller in the source, so the list changes at
  start-up only. Whether a coin is spam is a fixed set in `TransferMatching`.
* Dashboards and tax-loss harvesting: read-only computations over tables that
  `TaxLots` and `TransferMatching` keep. Profile, site content, visitor
  statistics, logs and audit: single-row reads and writes without a condition
  between them. Encryption, SMS and process set-up: no state of their own.
* Announcements and marking notifications as read: one query each.
* Text, layout, HTTP details. Real numbers: decimals are small whole numbers, so
  rounding of `Decimal` and `number` is not examined, except in the coupon
  discount and the tolerance of transfers. Trades of equal time in the tax
  calculation, and a quantity of zero, whose price would be NaN.
* The database is taken to run single statements atomically and to enforce its
  unique and foreign keys. One server process, as `ecosystem.config.js` starts.

## 11. What was found

Findings are violated runs with the sentence of the source they contradict:

1. `billing_renewal`: renewing early loses the time that is left.
2. `sync_two_wallets`: the second side of a transfer between own wallets is
   taken for a duplicate; the first then looks like coins given away.

Further claims of comments and messages are stated as operators next to the
model and refuted by adding them to the run named; they have no run of their
own, since the run they belong to already explores the behaviour:

| Claim | Module | Run | What happens |
|---|---|---|---|
| `OnlyPendingDecided` | `Billing` | `billing_overlap` | two overlapping decisions on a payment overwrite each other |
| `UpgradeOpensNoTerm` | `Billing` | `billing_overlap` | an upgrade approved late buys a full year for the difference |
| `OneLotPerTrade` | `FifoReference` | `tax_overlap` | overlapping calculations leave each lot twice |
| `EveryRowAnalysed` | `SyncPipeline` | `sync_recovery` | rows whose analysis a restart cut off stay unsearched until something new arrives |
| `BucketedInTurkey` | `TransferMatching` | `transfer_matching` | `taxYear` is the year of the server's clock (`transaction-aggregation.service.ts:50`), not the year in Turkey that `turkey-date.util.ts:1` asks for and the calculation uses: a row of the last hours of the year is listed under the other year |
| `MessageReopens` | `SupportDesk` | `services`, as `D!MessageReopens` in `desk` | a ticket is closed by staff who read it before the user's last message, which is then in a closed ticket with nothing having crossed (`support.service.ts:64`: a message opens it again) |
| `ApprovedWithDocs` | `AccountLinks` | `services`, as `A!ApprovedWithDocs` in `clients` | `approve` asks for no document: an accountant with none is verified (`schema.prisma:102` wants both uploaded) |
| `LargestOfItsName` | `Prices` | `services`, as `P!LargestOfItsName` in `prices` | of two coins of one name in the list, the smaller is priced (`coingecko.client.ts:26` hopes such clashes are rare) |

One thing met on the way that is not a matter of interleaving:
`checkClientSlotAvailable` (`subscription.service.ts:96`) turns a client limit of
null, which elsewhere means unlimited, into 0, before it is asked whether it is
null. `AccountLinks` has it so (`Slots`).

## 12. Proofs, assumptions, limits

| Module | Theorems about what the runs check |
|---|---|
| `Billing_proofs` | `TypeCorrect`, `ChargesAlways`, `DecidesOnce`, `DecisionsAreFinal`, `CompletedNameTheirs`, `TermsStayFixed`, `CouponsAccounted`, `LedgerImplemented` |
| `TaxLots_proofs` | `TypeCorrect`, `RowsAlwaysFollowBook`, `FifoIsExact`, `SummariesAreExact`, `RebuildsAreSound` |
| `SyncPipeline_proofs` | `TypeCorrect`, `SyncingAlwaysTended`, `NothingElseLost`, `SourcesAlwaysKnown`, `RowsAlwaysAnalysed` |
| `TransferMatching_proofs` | `TypeCorrect`, `PairsAlwaysSound`, `SearchesExhaust`, `ReplaysAreExact` |
| `Sessions_proofs` | `SessionTypes`, `FactorsConfirmed`, `PasswordEndsSessions`, `OneLiveToken`, `FailuresAlwaysBounded` |
| `AdapterPaging_proofs` | `PagingTypes`, `EveryRowHandedOver`, `LevelsNotUnderstated` |
| `Services_proofs` | `ServicesTypes`, `AccountsAreProven`, `LimitsAreKept`, `DecisionsAsRead`, `PricesAreSound`, `TicketsAndLinksAreKept` |
| `Sums_proofs` | lemmas only: recursion on numbers, and sums |

Every invariant and every action property of a passing run, and the refinement,
is stated by one of these theorems. All proofs have the same form: a
strengthening that holds initially, is kept by every action (one step of the
proof per action), and implies the property; an action property and the
refinement use that strengthening for the step. No assumption says anything of the
bounds but their types, save that some are not zero. What is assumed besides
types is: that requests, ingestions, rows and users are finitely many;
the order of the rows of an account, `AccountsAssumption` of `AdapterPaging`
(section 8); and the separateness of `Nil` and of ids.

Sums and balances over histories of any length are recursive *functions*
(`SumTo` of `Sums`, `Moved` of `BalanceReference`). That such a function exists and
satisfies its equation is proved in `Sums_proofs` (`RecursionExists`) from the least
counterexample (`LeastNumber`), since the induction theorems of the library
take an operator and cannot be used here. Two definitions were brought into a form that proofs can unfold: the
operators of `FifoReference` and `BalanceReference` take the history as a
parameter instead of reading the variable, and sum over positions.

Out of the prover's reach and left to TLC: liveness (`CalculationEnds`,
`SyncingEnds`, `PagingEnds`), for it rests on ENABLED. The two violated runs are
counterexamples and have nothing to prove.

## 13. Left to do

A composition of `TransferMatching` with the worker of `SyncPipeline`, whose
product is too large for TLC at the bounds that make either interesting, but which
the invariants `MatchInv` and `CoverInv` would carry; an abstract specification of
the lock and the sessions that `Sessions` implements, as `PaymentLedger` is of
`Billing`.
