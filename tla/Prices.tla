------------------------------- MODULE Prices -------------------------------
(***************************************************************************)
(* What a trade is worth in lira: the cache of daily prices, the central   *)
(* bank's rate with its fallback to earlier days, and the coins of the     *)
(* price service with their names.  Requests overlap at every await, and   *)
(* what is cached once is never asked for again.                           *)
(***************************************************************************)
EXTENDS Integers, FiniteSets, Sequences

CONSTANTS
  Requests,    \* conversions in progress at once
  Coins,       \* symbols, the dollar aside
  Hours,       \* hours (UTC) trades are dated
  WorkDays,    \* days the central bank publishes a rate for
  Markets,     \* lists the price service may give: [Coins -> Seq(Nat)], by market value
  Nil,
  TTL,         \* SYMBOL_MAP_TTL_MS, in ticks
  Today,       \* the day whose rate is published at the first tick
  MaxTime, MaxRuns, MaxErrors  \* bounds

VARIABLES
  clock,
  names,     \* symbolToId
  loadedAt,  \* symbolMapLoadedAt
  cache,     \* priceCache table, prices in lira by asset and day
  pc, work,  \* the await each request is at, and its locals
  runs, errors,
  answers    \* history: the prices given

vars == <<clock, names, loadedAt, cache, pc, work, runs, errors, answers>>

Dollar == "USD"
\* The price of a coin is the identifier of the coin priced, a rate the day it
\* is of.  excused (history): a day with a rate was passed over.
Entry == [price : Nat, excused : BOOLEAN]
Answer == [asset : Coins \cup {Dollar}, hour : Hours, price : Nat \cup {Nil},
           excused : BOOLEAN, kept : BOOLEAN]
Steps == {"idle", "cache", "load", "history", "rate", "store"}
Local == [asset : Coins \cup {Dollar}, hour : Hours, cached : BOOLEAN, attempt : 0..4,
          price : Nat \cup {Nil}, excused : BOOLEAN]

\* Fault: the day in UTC.
UtcDay(hour) == hour \div 24
\* toTurkeyDate
TurkeyDay(hour) == (hour + 3) \div 24
\* toDateOnly is the midnight of that day; getRate shifts it once more.
Midnight(hour) == 24 * TurkeyDay(hour)

Goto(r, step, locals) ==
  /\ pc' = [pc EXCEPT ![r] = step]
  /\ work' = [work EXCEPT ![r] = locals]
Reply(r, price, excused, kept) ==
  /\ Goto(r, "idle", Nil)
  /\ answers' = answers \cup {[asset |-> work[r].asset, hour |-> work[r].hour,
                               price |-> price, excused |-> excused, kept |-> kept]}

----------------------------------------------------------------------------
\* convertAmountToTRY of dollars asks for the rate; other amounts and
\* convertToTRY ask for the price.
Begin(r, asset, hour, cached) ==
  /\ pc[r] = "idle" /\ runs < MaxRuns
  /\ ~ cached => asset = Dollar
  /\ runs' = runs + 1
  /\ Goto(r, IF cached THEN "cache" ELSE "rate",
          [asset |-> asset, hour |-> hour, cached |-> cached, attempt |-> 0,
           price |-> Nil, excused |-> FALSE])
  /\ UNCHANGED <<clock, names, loadedAt, cache, errors, answers>>

Key(r) == <<work[r].asset, TurkeyDay(work[r].hour)>>
Fresh == loadedAt # Nil /\ clock - loadedAt < TTL /\ \E c \in Coins : names[c] # Nil

\* resolveId, and the request for the price of that coin.
Resolve(r, known) ==
  IF known[work[r].asset] = Nil THEN Reply(r, Nil, FALSE, FALSE)
  ELSE /\ Goto(r, "history", [work[r] EXCEPT !.price = known[work[r].asset]])
       /\ UNCHANGED answers

\* getPrice
FindCached(r) ==
  /\ pc[r] = "cache"
  /\ LET entry == cache[Key(r)] IN
     CASE entry # Nil -> Reply(r, entry.price, entry.excused, TRUE)
       [] entry = Nil /\ work[r].asset = Dollar -> Goto(r, "rate", work[r]) /\ UNCHANGED answers
       [] entry = Nil /\ work[r].asset # Dollar /\ Fresh -> Resolve(r, names)
       [] OTHER -> Goto(r, "load", work[r]) /\ UNCHANGED answers
  /\ UNCHANGED <<clock, names, loadedAt, cache, runs, errors>>

\* ensureSymbolMap: of the coins of one symbol the last in the list is kept.
NamesOf(market) ==
  [c \in Coins |-> IF market[c] = <<>> THEN Nil ELSE market[c][Len(market[c])]]
LoadNames(r, market) ==
  /\ pc[r] = "load"
  /\ names' = NamesOf(market) /\ loadedAt' = clock
  /\ Resolve(r, NamesOf(market))
  /\ UNCHANGED <<clock, cache, runs, errors>>

\* getHistoricalPrice: a price, or an answer without one.
ReadHistory(r) ==
  /\ pc[r] = "history"
  /\ \/ Goto(r, "store", work[r]) /\ UNCHANGED answers
     \/ Reply(r, Nil, FALSE, FALSE)
  /\ UNCHANGED <<clock, names, loadedAt, cache, runs, errors>>

----------------------------------------------------------------------------
\* getRate: the day and the four before it, one request each.
Published(day) == day \in WorkDays /\ (day < Today \/ clock > 0)
RateDay(r) ==
  TurkeyDay(IF work[r].cached THEN Midnight(work[r].hour) ELSE work[r].hour) - work[r].attempt

FoundRate(r, day, excused) ==
  IF work[r].cached
  THEN /\ Goto(r, "store", [work[r] EXCEPT !.price = day, !.excused = excused])
       /\ UNCHANGED answers
  ELSE Reply(r, day, excused, FALSE)

AskRate(r) ==
  /\ pc[r] = "rate" /\ Published(RateDay(r))
  /\ FoundRate(r, RateDay(r), work[r].excused)
  /\ UNCHANGED <<clock, names, loadedAt, cache, runs, errors>>

\* No rate for the day, not yet, or an error that is taken for one: the day before.
NoRate(r) ==
  /\ pc[r] = "rate"
  /\ IF Published(RateDay(r)) THEN errors < MaxErrors /\ errors' = errors + 1 ELSE UNCHANGED errors
  /\ LET missed == work[r].excused \/ RateDay(r) \in WorkDays IN
     IF work[r].attempt = 4 THEN Reply(r, Nil, missed, FALSE)
     ELSE /\ Goto(r, "rate", [work[r] EXCEPT !.attempt = @ + 1, !.excused = missed])
          /\ UNCHANGED answers
  /\ UNCHANGED <<clock, names, loadedAt, cache, runs>>

----------------------------------------------------------------------------
\* Fault: an upsert.
Overwrite(r) ==
  /\ pc[r] = "store"
  /\ cache' = [cache EXCEPT ![Key(r)] = [price |-> work[r].price, excused |-> work[r].excused]]
  /\ Reply(r, work[r].price, work[r].excused, TRUE)
  /\ UNCHANGED <<clock, names, loadedAt, runs, errors>>

\* The first price stays; any error of the create is swallowed.
Store(r) ==
  /\ pc[r] = "store"
  /\ \/ /\ cache[Key(r)] = Nil
        /\ cache' = [cache EXCEPT ![Key(r)] = [price |-> work[r].price,
                                               excused |-> work[r].excused]]
        /\ Reply(r, work[r].price, work[r].excused, TRUE)
        /\ UNCHANGED errors
     \/ /\ IF cache[Key(r)] = Nil THEN errors < MaxErrors /\ errors' = errors + 1
           ELSE UNCHANGED errors
        /\ Reply(r, work[r].price, work[r].excused, FALSE)
        /\ UNCHANGED cache
  /\ UNCHANGED <<clock, names, loadedAt, runs>>

\* A request throws: the limit of the price service, the network, the database.
Throw(r) ==
  /\ pc[r] \notin {"idle", "store"} /\ errors < MaxErrors
  /\ errors' = errors + 1
  /\ Goto(r, "idle", Nil)
  /\ UNCHANGED <<clock, names, loadedAt, cache, runs, answers>>

Tick ==
  /\ clock < MaxTime
  /\ clock' = clock + 1
  /\ UNCHANGED <<names, loadedAt, cache, pc, work, runs, errors, answers>>

Days == {TurkeyDay(h) : h \in Hours}
Init ==
  /\ clock = 0 /\ names = [c \in Coins |-> Nil] /\ loadedAt = Nil
  /\ cache = [k \in (Coins \cup {Dollar}) \X Days |-> Nil]
  /\ pc = [r \in Requests |-> "idle"] /\ work = [r \in Requests |-> Nil]
  /\ runs = 0 /\ errors = 0 /\ answers = {}

Convert(r) ==
  \/ \E asset \in Coins \cup {Dollar}, hour \in Hours, cached \in BOOLEAN :
       Begin(r, asset, hour, cached)
  \/ FindCached(r) \/ (\E market \in Markets : LoadNames(r, market)) \/ ReadHistory(r)
  \/ AskRate(r) \/ NoRate(r) \/ Store(r) \/ Throw(r)
Next == Tick \/ \E r \in Requests : Convert(r)
Spec == Init /\ [][Next]_vars

----------------------------------------------------------------------------
TypeOK ==
  /\ clock \in 0..MaxTime /\ names \in [Coins -> Nat \cup {Nil}]
  /\ loadedAt \in 0..clock \cup {Nil}
  /\ cache \in [(Coins \cup {Dollar}) \X Days -> Entry \cup {Nil}]
  /\ pc \in [Requests -> Steps] /\ work \in [Requests -> Local \cup {Nil}]
  /\ \A r \in Requests : work[r] = Nil <=> pc[r] = "idle"
  /\ runs \in 0..MaxRuns /\ errors \in 0..MaxErrors /\ answers \in SUBSET Answer

\* The rate of a day: that of the last day with one, of the five up to it that
\* getRate asks for.  tcmb.client.ts:14-16 speaks of the nearest working day
\* before, which holidays of more than four days put out of its reach.
Recent(day) == {d \in WorkDays : day - 4 <= d /\ d <= day}
Official(day) ==
  IF Recent(day) = {} THEN Nil ELSE CHOOSE d \in Recent(day) : \A e \in Recent(day) : e <= d

\* A dollar rate, from the cache or not, is the official one of the trade's day
\* in Turkey (however often the offset is added), unless a day that has a rate
\* was passed over: it was not yet published, or the answer was an error.
RateOfTheDay ==
  \A a \in answers : \A day \in 0..(a.hour \div 24 + 1) :
    a.asset = Dollar /\ 24 * day - 3 <= a.hour /\ a.hour < 24 * day + 21 =>
      a.excused \/ a.price = Official(day)

\* All prices getPrice gives for a coin and a day are the one in the cache, but
\* for requests that found none there and were not the first to store theirs.
AnswersAgree ==
  \A a \in answers :
    LET entry == cache[<<a.asset, TurkeyDay(a.hour)>>]
    IN a.kept => entry # Nil /\ entry.price = a.price

PricesSound == RateOfTheDay /\ AnswersAgree

\* coingecko.client.ts says that the list is cut to spare it name clashes.  A
\* coin is priced as the largest of its name: not so where a list has two.
LargestOfItsName ==
  \A c \in Coins :
    names[c] # Nil => \E market \in Markets : market[c] # <<>> /\ names[c] = market[c][1]
=============================================================================
