--------------------------- MODULE AdapterPaging ---------------------------
(***************************************************************************)
(* fetchTransactions of one synchronisation: the listings of a client are  *)
(* read one after the other, page by page, while the account goes on, the  *)
(* exchange limits the rate and requests fail.  What it hands over decides *)
(* what is stored, for the next synchronisation starts after it.           *)
(***************************************************************************)
EXTENDS ExchangeClients, Integers, FiniteSets

CONSTANTS
  Accounts,      \* records of a client, its account and the time of the last fetch
  Coins, Nil,
  CommonQuotes,  \* COMMON_QUOTES, the coins against which trades are asked for
  LIMIT,         \* page size of every request
  WINDOW,        \* MAX_WINDOW_MS, in ticks
  LOOKBACK,      \* DEFAULT_LOOKBACK_MS
  SECOND, DAY,   \* ticks of the units in which some requests give times
  MAX_RETRIES,
  T0,            \* the time the fetch begins
  MaxTime,       \* bound on the clock
  MaxErrors      \* bound on errors

ASSUME PagingAssumption ==
  /\ LIMIT \in Nat \ {0} /\ SECOND \in Nat \ {0} /\ DAY \in Nat \ {0}
  /\ WINDOW \in Nat /\ LOOKBACK \in Nat /\ MAX_RETRIES \in Nat
  /\ T0 \in Nat /\ MaxTime \in Nat /\ MaxErrors \in Nat /\ T0 >= LOOKBACK /\ MaxTime >= T0
  /\ Nil \notin Nat \cup Levels \cup Coins /\ CommonQuotes \subseteq Coins

VARIABLES
  clock,
  account,   \* the account that is read (never changes)
  rows,      \* what the exchange or the chain has of it, oldest first
  pc,
  phase,     \* position of the listing
  todo, pair,   \* symbols or wallets still to be read, and the one that is
  start, win, until,  \* windowStart and now of the code
  cursor,    \* what asks for the next page
  attempt,
  part, got, \* rows of the listing (or the pair) so far, rows of the result
  passed,    \* history: listings and pairs whose failure was passed over
  errors,
  granted,   \* what the key may do at the exchange
  toVerify,  \* calls of verifyPermission that have not begun
  readings,  \* those that have asked the exchange and store the answer next
  level,     \* verifiedPermissionLevel
  outdated   \* history: the grants were changed after the stored level was read

verification == <<granted, toVerify, readings, level, outdated>>
vars == <<clock, account, rows, pc, phase, todo, pair, start, win, until, cursor, attempt,
          part, got, passed, errors, verification>>

\* order is what the exchange names the row by: the order of a trade or its
\* number, the hash of a transaction.
Row == {r \in [kind : Kinds, coin : Coins, quote : Coins \cup {Nil}, at : Nat, order : Nat] :
          r.quote # r.coin}
\* held: the coins with a balance, or the wallets of the only page of them.
Grants == SUBSET {"read", "trade", "withdraw"}
Calls == {"create", "user"}   \* who calls verifyPermission
Account == [client : Clients, rows : Seq(Row), held : SUBSET Coins, since : Nat \cup {Nil},
            late : Row \cup {Nil}, newestFirst : BOOLEAN, keyless : BOOLEAN,
            granted : Grants, regrants : SUBSET Grants, calls : SUBSET Calls]
Reply == [by : Calls, level : Levels, old : BOOLEAN]

\* The rows of an account lie in the past and in the order of their times.
ASSUME AccountsAssumption ==
  /\ Accounts \subseteq Account
  /\ \A a \in Accounts : \A i \in DOMAIN a.rows :
       a.rows[i].at <= T0 /\ \A j \in i..Len(a.rows) : a.rows[i].at <= a.rows[j].at

Client == account.client
L == Reads[Client][phase]
Since == account.since
\* The request tells times in this unit.
Ticks(listing) == CASE listing.unit = "ms" -> 1 [] listing.unit = "s" -> SECOND
                    [] listing.unit = "day" -> DAY
Told(t, listing) == t \div Ticks(listing)
\* The time from which the listing is asked for or filtered.
From(listing) ==
  CASE listing.from = "start" -> start
    [] listing.from = "since" /\ Since = Nil -> 0
    [] listing.from = "since" /\ Since # Nil -> Since
\* What a listing is read for: each of a set of symbols, or of wallets.
Pairs == Coins \X (Coins \cup {Nil})
PairOf(r, listing) == <<r.coin, IF listing.scope = "symbol" THEN r.quote ELSE Nil>>
Asked(listing) ==
  IF listing.scope = "symbol" THEN {s \in account.held \X CommonQuotes : s[1] # s[2]}
  ELSE account.held \X {Nil}

----------------------------------------------------------------------------
WindowEnd == IF L.windowed /\ win + WINDOW < until THEN win + WINDOW ELSE until
\* The pages after the first of these ask by identifier alone.
ById == L.paging \in {"fromId", "idLessThan"} /\ cursor # Nil
Matches(i) ==
  LET r == rows[i] IN
  /\ r.kind \in L.shown
  /\ L.scope # "account" => PairOf(r, L) = pair
  /\ L.side = "request" /\ ~ ById =>
       Told(r.at, L) >= Told(IF L.windowed THEN win ELSE From(L), L)
  /\ L.upto => Told(r.at, L) <= Told(WindowEnd, L)
Matching == {i \in DOMAIN rows : Matches(i)}

Descending ==
  \/ L.paging \in {"idLessThan", "backwards"}
  \/ (L.paging # "fromId" /\ account.newestFirst)
Before(i, j) == IF Descending THEN i > j ELSE i < j
\* The rows of a set from the n-th on, in the order of the listing.
FromNth(n, ids) == {i \in ids : Cardinality({j \in ids : Before(j, i)}) >= n}
\* What is left of the matching rows from the cursor on.
Left(matching) ==
  CASE cursor = Nil -> matching
    [] cursor # Nil /\ L.paging = "fromId" -> {i \in matching : i >= cursor}
    [] cursor # Nil /\ L.paging \in {"idLessThan", "backwards", "cursor"} ->
         {i \in matching : Before(cursor, i)}
    [] cursor # Nil /\ L.paging \in {"offset", "hasNext"} -> FromNth(cursor * LIMIT, matching)
\* The first page of it.
PageOf(left) == left \ FromNth(LIMIT, left)
Last(page) == CHOOSE i \in page : \A j \in page : j = i \/ Before(j, i)

\* Another page is asked for.
More(left, page) ==
  CASE L.paging = "one" -> FALSE
    [] L.paging \in {"fromId", "idLessThan", "offset"} -> Cardinality(page) = LIMIT
    [] L.paging \in {"cursor", "hasNext"} -> page # left
    [] L.paging = "backwards" -> Cardinality(page) = LIMIT /\ rows[Last(page)].at >= start
\* Fault: the number of the page stays.
SameCursor(page) ==
  CASE L.paging \in {"offset", "hasNext"} -> IF cursor = Nil THEN 0 ELSE cursor
    [] L.paging = "fromId" -> Last(page) + 1
    [] OTHER -> Last(page)
NextCursor(page) ==
  CASE L.paging \in {"offset", "hasNext"} -> IF cursor = Nil THEN 1 ELSE cursor + 1
    [] L.paging = "fromId" -> Last(page) + 1
    [] OTHER -> Last(page)
Kept(page) ==
  {i \in page : rows[i].kind \in L.kept /\ (L.side = "client" => rows[i].at >= From(L))}

----------------------------------------------------------------------------
outside == <<clock, account, rows, start, errors, verification>>

\* A stub throws: the synchronisation ends in error.
NotImplemented ==
  /\ pc = "next" /\ Client \in Stubs
  /\ pc' = "failed"
  /\ UNCHANGED <<phase, todo, pair, win, until, cursor, attempt, part, got, passed, outside>>

\* The key of the chain's explorer is not configured: no transactions.
NoApiKey ==
  /\ pc = "next" /\ phase = 1 /\ account.keyless /\ Client = "ethereum"
  /\ pc' = "done" /\ passed' = {<<p, Nil>> : p \in DOMAIN Reads[Client]}
  /\ UNCHANGED <<phase, todo, pair, win, until, cursor, attempt, part, got, outside>>

Reading == pc = "next" /\ Client \notin Stubs /\ ~ (account.keyless /\ Client = "ethereum")
Open == win' = start /\ until' = clock /\ cursor' = Nil

OpenListing ==
  /\ Reading /\ phase \in DOMAIN Reads[Client] /\ L.scope = "account"
  /\ Open
  /\ IF L.windowed /\ start >= clock
     THEN phase' = phase + 1 /\ UNCHANGED pc
     ELSE pc' = "page" /\ UNCHANGED phase
  /\ UNCHANGED <<todo, pair, attempt, part, got, passed, outside>>

\* The balances, or the wallets, are asked for first.
AskHoldings ==
  /\ Reading /\ phase \in DOMAIN Reads[Client] /\ L.scope # "account"
  /\ pc' = "holdings"
  /\ UNCHANGED <<phase, todo, pair, win, until, cursor, attempt, part, got, passed, outside>>

ReadHoldings ==
  /\ pc = "holdings"
  /\ todo' = Asked(L)
  /\ pc' = "pair" /\ attempt' = 0
  /\ UNCHANGED <<phase, pair, win, until, cursor, part, got, passed, outside>>

OpenPair(s) ==
  /\ pc = "pair" /\ s \in todo
  /\ todo' = todo \ {s} /\ pair' = s
  /\ Open
  /\ pc' = IF L.windowed /\ start >= clock THEN "pair" ELSE "page"
  /\ UNCHANGED <<phase, attempt, part, got, passed, outside>>

NoPairLeft ==
  /\ pc = "pair" /\ todo = {}
  /\ pc' = "next" /\ phase' = phase + 1
  /\ UNCHANGED <<todo, pair, win, until, cursor, attempt, part, got, passed, outside>>

----------------------------------------------------------------------------
NextPage(more, page) ==
  /\ more
  /\ part' = part \cup Kept(page) /\ cursor' = NextCursor(page) /\ attempt' = 0
  /\ UNCHANGED <<pc, phase, todo, pair, win, until, got, passed, outside>>

\* Fault: a tick is left out between two windows.
NextStartLate == WindowEnd + 2
NextStart == WindowEnd + 1

NextWindow(more, page) ==
  /\ ~ more /\ L.windowed /\ NextStart < until
  /\ part' = part \cup Kept(page) /\ cursor' = Nil /\ win' = NextStart /\ attempt' = 0
  /\ UNCHANGED <<pc, phase, todo, pair, until, got, passed, outside>>

\* Fault: the rows of the listing are carried into the next.
LeaveKeeping(found) ==
  /\ got' = got \cup found /\ part' = part \cup found /\ attempt' = 0
  /\ IF L.scope = "account" THEN pc' = "next" /\ phase' = phase + 1
     ELSE pc' = "pair" /\ UNCHANGED phase
  /\ UNCHANGED <<todo, pair, win, until, cursor, outside>>

\* The listing is over, or the pair.
Leave(found) ==
  /\ got' = got \cup found /\ part' = {} /\ attempt' = 0
  /\ IF L.scope = "account" THEN pc' = "next" /\ phase' = phase + 1
     ELSE pc' = "pair" /\ UNCHANGED phase
  /\ UNCHANGED <<todo, pair, win, until, cursor, outside>>

EndListing(more, page) ==
  /\ ~ more /\ ~ (L.windowed /\ NextStart < until)
  /\ Leave(part \cup Kept(page))
  /\ UNCHANGED passed

\* A page is answered.
Answer ==
  /\ pc = "page"
  /\ \E left \in {Left(Matching)} : \E page \in {PageOf(left)} : \E more \in {More(left, page)} :
       NextPage(more, page) \/ NextWindow(more, page) \/ EndListing(more, page)

\* An explorer's answer that is not a list counts as an empty one.
AnswerNoList ==
  /\ pc = "page" /\ Client = "ethereum" /\ errors < MaxErrors
  /\ errors' = errors + 1
  /\ got' = got /\ part' = {} /\ attempt' = 0
  /\ pc' = "next" /\ phase' = phase + 1
  /\ passed' = passed \cup {<<phase, Nil>>}
  /\ UNCHANGED <<clock, account, rows, start, verification, todo, pair, win, until, cursor>>

Finish ==
  /\ Reading /\ phase \notin DOMAIN Reads[Client]
  /\ pc' = "done"
  /\ UNCHANGED <<phase, todo, pair, win, until, cursor, attempt, part, got, passed, outside>>

----------------------------------------------------------------------------
Erring(e) ==
  /\ pc \in {"holdings", "page"} /\ errors < MaxErrors
  /\ errors' = errors + 1
  /\ UNCHANGED <<clock, account, rows, start, verification, phase, todo, pair, win, until, cursor>>
TriedAgain(e) == e \in Retried[Client] /\ attempt < MAX_RETRIES

\* Wait and repeat the request.
Retry(e) ==
  /\ Erring(e) /\ TriedAgain(e)
  /\ attempt' = attempt + 1
  /\ UNCHANGED <<pc, part, got, passed>>

\* An error of one symbol, or wallet, is caught and its rows are left out.
PassOver(e) ==
  /\ Erring(e) /\ ~ TriedAgain(e) /\ pc = "page" /\ L.scope # "account"
  /\ pc' = "pair" /\ part' = {} /\ attempt' = 0
  /\ passed' = passed \cup {<<phase, pair>>}
  /\ UNCHANGED got

FailFetch(e) ==
  /\ Erring(e) /\ ~ TriedAgain(e) /\ (pc = "holdings" \/ L.scope = "account")
  /\ pc' = "failed" /\ part' = {} /\ attempt' = 0 /\ got' = {}
  /\ UNCHANGED passed

----------------------------------------------------------------------------
fetching == <<pc, phase, todo, pair, start, win, until, cursor, attempt, part, got, passed>>

\* verifyPermission, called and not awaited when the connection is created and
\* again by the user, asks the exchange, or fails to,
ReadGrants(call) ==
  /\ call \in toVerify /\ Client \notin Chains
  /\ toVerify' = toVerify \ {call}
  /\ \E answer \in {"UNKNOWN", Level(Client, granted)} :
       readings' = readings \cup {[by |-> call, level |-> answer, old |-> FALSE]}
  /\ UNCHANGED <<granted, level, outdated, clock, account, rows, errors, fetching>>
\* and stores the answer, whatever has happened since.
StoreLevel(r) ==
  /\ r \in readings
  /\ readings' = readings \ {r} /\ level' = r.level /\ outdated' = r.old
  /\ UNCHANGED <<granted, toVerify, clock, account, rows, errors, fetching>>
\* The user changes what the key may do, at the exchange.
Regrant(g) ==
  /\ g \in account.regrants \ {granted}
  /\ granted' = g /\ outdated' = TRUE
  /\ readings' = {[r EXCEPT !.old = TRUE] : r \in readings}
  /\ UNCHANGED <<toVerify, level, clock, account, rows, errors, fetching>>
Verify ==
  \/ \E call \in Calls : ReadGrants(call)
  \/ \E r \in readings : StoreLevel(r)
  \/ \E g \in Grants : Regrant(g)

\* Time passes, and the account shows a row more.
Arrive ==
  /\ account.late # Nil /\ Len(rows) = Len(account.rows)
  /\ clock' \in {clock, clock + 1} /\ clock' <= MaxTime
  /\ rows' = Append(rows, [account.late EXCEPT !.at = clock'])
  /\ UNCHANGED <<account, errors, verification, fetching>>

Init ==
  /\ clock = T0 /\ account \in Accounts /\ rows = account.rows
  /\ pc = "next" /\ phase = 1 /\ todo = {} /\ pair = Nil
  /\ start = (IF account.since = Nil THEN T0 - LOOKBACK ELSE account.since)
  /\ win = start /\ until = T0 /\ cursor = Nil /\ attempt = 0
  /\ part = {} /\ got = {} /\ passed = {} /\ errors = 0
  /\ granted = account.granted /\ toVerify = account.calls /\ readings = {}
  /\ level = "UNKNOWN" /\ outdated = FALSE

Step ==
  \/ NotImplemented \/ NoApiKey \/ OpenListing \/ AskHoldings \/ ReadHoldings
  \/ (\E s \in Pairs : OpenPair(s)) \/ NoPairLeft
  \/ Answer \/ AnswerNoList \/ Finish
  \/ \E e \in Errors : Retry(e) \/ PassOver(e) \/ FailFetch(e)
Next == Step \/ Verify \/ Arrive

Spec == Init /\ [][Next]_vars
\* Every request is answered, or fails.
FairSpec == Spec /\ WF_vars(Step)

----------------------------------------------------------------------------
TypeOK ==
  /\ clock \in T0..MaxTime /\ account \in Account /\ rows \in Seq(Row)
  /\ pc \in {"next", "holdings", "pair", "page", "done", "failed"}
  /\ phase \in 1..(Len(Reads[Client]) + 1)
  /\ todo \in SUBSET Pairs /\ pair \in Pairs \cup {Nil}
  /\ start \in Nat /\ win \in Nat /\ until \in T0..clock /\ cursor \in Nat \cup {Nil}
  /\ attempt \in 0..MAX_RETRIES /\ (pc \in {"next", "pair", "done"} => attempt = 0)
  /\ part \in SUBSET DOMAIN rows /\ (pc # "page" => part = {})
  /\ got \in SUBSET DOMAIN rows /\ errors \in 0..MaxErrors
  /\ granted \in Grants /\ toVerify \subseteq Calls /\ readings \subseteq Reply
  /\ level \in Levels /\ outdated \in BOOLEAN

\* externalId
\* Fault: the time is left out.
KeyOfOrder(i, listing) == IF listing.key = "id" THEN <<i>> ELSE <<rows[i].order>>
KeyOf(i, listing) ==
  CASE listing.key = "id" -> <<i>>
    [] listing.key = "name" -> <<rows[i].order>>
    [] listing.key = "fill" -> <<rows[i].order, rows[i].at>>
    [] listing.key = "fillSecond" -> <<rows[i].order, rows[i].at \div SECOND>>
    [] listing.key = "tx" -> <<rows[i].order, rows[i].coin>>

\* What an answer of one page has to hold next to row i.
SameAnswer(i, listing) ==
  {j \in DOMAIN rows :
     /\ rows[j].kind \in listing.shown
     /\ listing.scope # "account" => PairOf(rows[j], listing) = PairOf(rows[i], listing)
     /\ listing.side = "request" => Told(rows[j].at, listing) >= Told(From(listing), listing)
     /\ listing.windowed =>
          (rows[j].at - start) \div (WINDOW + 1) = (rows[i].at - start) \div (WINDOW + 1)}
\* Row i is one of several of an order, a transaction or a number that differ in
\* no more: two coins moved by one transaction are, and two rows without a hash
\* where nothing else is taken.
OneOfMany(i, listing) ==
  \E j \in DOMAIN rows \ {i} :
    /\ rows[j].order = rows[i].order
    /\ CASE listing.key = "id" -> FALSE
         [] listing.key = "name" -> TRUE
         [] listing.key = "fill" -> rows[j].at = rows[i].at
         [] listing.key = "fillSecond" -> rows[j].at \div SECOND = rows[i].at \div SECOND
         [] listing.key = "tx" -> rows[j].coin = rows[i].coin

\* The symbol of row i, or its wallet, is not among those that are asked for.
Unasked(i, listing) ==
  \/ listing.scope # "account" /\ rows[i].coin \notin account.held
  \/ listing.scope = "symbol" /\ rows[i].quote \notin CommonQuotes

\* A fetch that succeeds hands over, under a key of its own, every row of the
\* time before it began, whatever the paging, the windows, the errors and the
\* rows that arrive meanwhile, but for: a trade of a coin no longer held or
\* against one not in COMMON_QUOTES, a wallet beyond the only page of them, a
\* symbol, wallet or answer whose own error was passed over, an answer with more
\* rows than its only page holds, and rows of one order, transaction or number
\* that the key does not tell apart.
RowsHandedOver ==
  pc = "done" =>
    \A p \in DOMAIN Reads[Client], i \in DOMAIN rows :
      LET listing == Reads[Client][p] IN
      rows[i].kind \in listing.kept /\ rows[i].at >= From(listing) /\ rows[i].at < T0 =>
        \/ /\ i \in got
           /\ \A j \in got \ {i} :
                rows[j].kind \in listing.kept => KeyOf(j, listing) # KeyOf(i, listing)
        \/ <<p, PairOf(rows[i], listing)>> \in passed \/ <<p, Nil>> \in passed
        \/ Unasked(i, listing)
        \/ listing.paging = "one" /\ Cardinality(SameAnswer(i, listing)) > LIMIT
        \/ OneOfMany(i, listing)

\* A level that is stored is not less than the key may do, so that nobody is told
\* a key cannot withdraw that can, unless the grants were changed after they were
\* read for it; calls of verifyPermission that overlap store their answers in any
\* order.  Paribu's level is a guess.
LevelNotUnderstated ==
  ~ outdated =>
    /\ level = "READ_ONLY" => granted \subseteq {"read"} \/ Client = "paribu"
    /\ level = "TRADE" => "withdraw" \notin granted

\* Paging and retrying come to an end, whatever arrives and fails.
PagingEnds == <>(pc \in {"done", "failed"})
=============================================================================
