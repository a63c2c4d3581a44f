-------------------------- MODULE TransferMatching --------------------------
(***************************************************************************)
(* What ingest does to one user's transactions: it writes the rows, looks  *)
(* for transfers between the user's own accounts (detectInternalTransfers) *)
(* and replays the rest for balances below zero (reconcile).  Every query  *)
(* is a step, and ingestions (worker, imports) of the user may overlap.    *)
(***************************************************************************)
EXTENDS Integers, Sequences, FiniteSets

CONSTANTS
  Ingests,       \* ingestions of the user that may be in progress at once
  Rows,          \* normalised transactions
  Assets,        \* coin symbols
  SpamAssets,    \* those isSpam says yes to
  Sources,       \* exchange connections and wallets
  Removable,     \* those that may be deleted meanwhile
  Nil,           \* no source: a row of a CSV, or of a removed connection
  Books,         \* possible histories: [Rows -> Entry]
  YearTurn,      \* the hour, UTC, at which the year changes
  ServerOffset,  \* hours the server's time zone is ahead of UTC
  MaxRuns,       \* bound on ingestions begun
  MaxAborts      \* bound on ingestions that die at an await

inflowTypes == {"BUY", "DEPOSIT", "TRANSFER_IN", "STAKING_REWARD",
                "AIRDROP", "MINING_REWARD", "LP_REWARD"}
OutgoingTypes == {"WITHDRAWAL", "TRANSFER_OUT"}
IncomingTypes == {"DEPOSIT", "TRANSFER_IN"}
TransactionType == inflowTypes \cup OutgoingTypes \cup {"SELL", "SWAP", "FEE"}

\* Quantities are in hundredths, so that the tolerance is a whole number.
Entry == [type : TransactionType, asset : Assets, quantity : Nat,
          hour : Int, origin : Sources \cup {Nil}]

ASSUME BookAssumption ==
  /\ Nil \notin Sources /\ Removable \subseteq Sources /\ SpamAssets \subseteq Assets
  /\ Books \subseteq [Rows -> Entry] /\ IsFiniteSet(Rows) /\ IsFiniteSet(Ingests)
ASSUME BoundAssumption ==
  MaxRuns \in Nat /\ MaxAborts \in Nat /\ YearTurn \in Int /\ ServerOffset \in Int

VARIABLES
  book,      \* the entries, chosen once
  stored,    \* rows of the transaction table
  link,      \* exchangeConnectionId or walletAddressId of a stored row
  taxYear,   \* its taxYear column
  internal,  \* rows with isInternalTransfer
  flags,     \* unresolved NEGATIVE_BALANCE flags of each row
  notices,   \* notifications sent about each row
  removed,   \* sources removed so far
  pc,        \* the await each ingestion is at
  job,       \* its locals
  runs,      \* ingestions begun so far
  aborts,    \* ingestions that died so far
  pairs,     \* history: what was marked together, and by which search
  overlaps,  \* history: searches that were in progress together
  contended  \* history: rows two ingestions were about to flag together

tables  == <<stored, link, taxYear, internal, flags, notices, removed>>
history == <<pairs, overlaps, contended>>
vars == <<book, tables, pc, job, runs, aborts, history>>

TRANSFER_MATCH_WINDOW_HOURS == 48
Distance(a, b) == IF a <= b THEN b - a ELSE a - b

\* getFullYear on the server, and the year in Turkey that the calculation uses.
FullYear(t) == IF t + ServerOffset >= YearTurn THEN 1 ELSE 0
TurkeyYear(t) == IF t + 3 >= YearTurn THEN 1 ELSE 0

Seen  == [id : Rows, link : Sources \cup {Nil}]
Steps == {"idle", "insert", "outgoing", "incoming", "match", "history",
          "replay", "flag:find", "flag:create", "notify"}
Job == [run : 1..MaxRuns, items : SUBSET Rows, inserted : BOOLEAN,
        outgoing : Seq(Seen), incoming : Seq(Seen), used : SUBSET Rows,
        at : Nat \ {0}, rows : Seq(Rows), balance : [Assets -> Int]]
ASSUME NilAssumption == Nil \notin Job

----------------------------------------------------------------------------
Ids(s) == {s[k].id : k \in DOMAIN s}

\* findMany without orderBy: the rows of S in any order.
AnyOrder(S) ==
  {s \in [1..Cardinality(S) -> S] : \A j, k \in DOMAIN s : s[j] = s[k] => j = k}
Unmarked(types) == {r \in stored \ internal : book[r].type \in types}
ReadRows(S) == {[k \in DOMAIN s |-> [id |-> s[k], link |-> link[s[k]]]] : s \in AnyOrder(S)}

\* orderBy timestamp; equal ones in any order.
ByTime(S) ==
  {s \in AnyOrder(S) : \A j, k \in DOMAIN s : j < k => book[s[j]].hour <= book[s[k]].hour}
Spam(r) == book[r].asset \in SpamAssets

sameSource(out, inc) == out.link # Nil /\ out.link = inc.link

\* Asset, 48 hours, one percent.  0/0 and x/0 are never within the tolerance.
Fits(o, i) ==
  /\ book[i].asset = book[o].asset
  /\ Distance(book[i].hour, book[o].hour) <= TRANSFER_MATCH_WINDOW_HOURS
  /\ book[o].quantity > 0
  /\ 100 * Distance(book[i].quantity, book[o].quantity) <= book[o].quantity

\* Fault: a deposit already used by this search is taken again.
CandidatesReused(j, out) ==
  {k \in DOMAIN j.incoming :
     ~ sameSource(out, j.incoming[k]) /\ Fits(out.id, j.incoming[k].id)}
\* Fault: deposits of the same source are taken.
CandidatesOfAnySource(j, out) ==
  {k \in DOMAIN j.incoming :
     j.incoming[k].id \notin j.used /\ Fits(out.id, j.incoming[k].id)}
\* Fault: a deposit that comes before the withdrawal is not looked at.
CandidatesAfter(j, out) ==
  {k \in DOMAIN j.incoming :
     /\ j.incoming[k].id \notin j.used /\ ~ sameSource(out, j.incoming[k])
     /\ Fits(out.id, j.incoming[k].id)
     /\ book[j.incoming[k].id].hour >= book[out.id].hour}

\* Positions that incoming.find would accept for the withdrawal out.
Candidates(j, out) ==
  {k \in DOMAIN j.incoming :
     /\ j.incoming[k].id \notin j.used
     /\ ~ sameSource(out, j.incoming[k])
     /\ Fits(out.id, j.incoming[k].id)}
\* find returns the first.
Chosen(j, out) == CHOOSE k \in Candidates(j, out) : \A m \in Candidates(j, out) : k <= m

Goto(p, step, locals) ==
  /\ pc' = [pc EXCEPT ![p] = step]
  /\ job' = [job EXCEPT ![p] = locals]
\* Fault: the request is over and its locals are kept.
FinishKeeping(p) == Goto(p, "idle", job[p])
Finish(p) == Goto(p, "idle", Nil)

Searching(p) == pc[p] \in {"outgoing", "incoming", "match"}
Searches == {job[p].run : p \in {q \in Ingests : Searching(q)}}

----------------------------------------------------------------------------
\* ingest: the rows, one create each, any order of the source's answer.
BeginIngest(p, items) ==
  /\ pc[p] = "idle" /\ runs < MaxRuns
  /\ runs' = runs + 1
  /\ Goto(p, "insert",
          [run |-> runs + 1, items |-> items, inserted |-> FALSE,
           outgoing |-> <<>>, incoming |-> <<>>, used |-> {}, at |-> 1,
           rows |-> <<>>, balance |-> [a \in Assets |-> 0]])
  /\ UNCHANGED <<book, tables, aborts, history>>

InsertRow(p, r) ==
  /\ pc[p] = "insert" /\ r \in job[p].items \ stored
  /\ book[r].origin \notin removed
  /\ stored' = stored \cup {r}
  /\ link' = [link EXCEPT ![r] = book[r].origin]
  /\ taxYear' = [taxYear EXCEPT ![r] = FullYear(book[r].hour)]
  /\ Goto(p, "insert", [job[p] EXCEPT !.items = @ \ {r}, !.inserted = TRUE])
  /\ UNCHANGED <<book, internal, flags, notices, removed, runs, aborts, history>>

\* P2002: it is there.  A row of a removed source is refused, logged and passed.
SkipRow(p, r) ==
  /\ pc[p] = "insert" /\ r \in job[p].items
  /\ r \in stored \/ book[r].origin \in removed
  /\ Goto(p, "insert", [job[p] EXCEPT !.items = @ \ {r}])
  /\ UNCHANGED <<book, tables, runs, aborts, history>>

\* The search begins only when a row was inserted.
BeginSearch(p) ==
  /\ pc[p] = "insert" /\ job[p].items = {} /\ job[p].inserted
  /\ Goto(p, "outgoing", job[p])
  /\ overlaps' = overlaps \cup {{job[p].run, s} : s \in Searches}
  /\ UNCHANGED <<book, tables, runs, aborts, pairs, contended>>

NothingInserted(p) ==
  /\ pc[p] = "insert" /\ job[p].items = {} /\ ~ job[p].inserted
  /\ Finish(p)
  /\ UNCHANGED <<book, tables, runs, aborts, history>>

----------------------------------------------------------------------------
\* detectInternalTransfers.
ReadOutgoing(p) ==
  /\ pc[p] = "outgoing"
  /\ \E s \in ReadRows(Unmarked(OutgoingTypes)) :
       Goto(p, "incoming", [job[p] EXCEPT !.outgoing = s])
  /\ UNCHANGED <<book, tables, runs, aborts, history>>

ReadIncoming(p) ==
  /\ pc[p] = "incoming"
  /\ \E s \in ReadRows(Unmarked(IncomingTypes)) :
       Goto(p, "match", [job[p] EXCEPT !.incoming = s, !.used = {}, !.at = 1])
  /\ UNCHANGED <<book, tables, runs, aborts, history>>

AtOutgoing(p) == pc[p] = "match" /\ job[p].at <= Len(job[p].outgoing)
Out(p) == job[p].outgoing[job[p].at]

MarkPair(p) ==
  /\ AtOutgoing(p) /\ Candidates(job[p], Out(p)) # {}
  /\ LET inc == job[p].incoming[Chosen(job[p], Out(p))]
     IN /\ internal' = internal \cup {Out(p).id, inc.id}
        /\ pairs' = pairs \cup {[out |-> Out(p).id, in |-> inc.id, run |-> job[p].run]}
        /\ Goto(p, "match", [job[p] EXCEPT !.used = @ \cup {inc.id}, !.at = @ + 1])
  /\ UNCHANGED <<book, stored, link, taxYear, flags, notices, removed, runs, aborts,
                 overlaps, contended>>

NoCandidate(p) ==
  /\ AtOutgoing(p) /\ Candidates(job[p], Out(p)) = {}
  /\ Goto(p, "match", [job[p] EXCEPT !.at = @ + 1])
  /\ UNCHANGED <<book, tables, runs, aborts, history>>

EndSearch(p) ==
  /\ pc[p] = "match" /\ job[p].at > Len(job[p].outgoing)
  /\ Goto(p, "history", job[p])
  /\ UNCHANGED <<book, tables, runs, aborts, history>>

----------------------------------------------------------------------------
\* reconcile: the balance of each coin, set back to zero below zero.
ReadHistory(p) ==
  /\ pc[p] = "history"
  /\ \E s \in ByTime({r \in stored \ internal : ~ Spam(r)}) :
       Goto(p, "replay", [job[p] EXCEPT !.rows = s, !.at = 1,
                                        !.balance = [a \in Assets |-> 0]])
  /\ UNCHANGED <<book, tables, runs, aborts, history>>

Row(p) == job[p].rows[job[p].at]
AtRow(p) == pc[p] = "replay" /\ job[p].at <= Len(job[p].rows)
Signed(e) == IF e.type \in inflowTypes THEN e.quantity ELSE - e.quantity
NextBalance(p) == job[p].balance[book[Row(p)].asset] + Signed(book[Row(p)])
NextRow(p, balance) ==
  Goto(p, "replay", [job[p] EXCEPT !.balance[book[Row(p)].asset] = balance, !.at = @ + 1])

ReplayRow(p) ==
  /\ AtRow(p)
  /\ IF NextBalance(p) < 0 THEN Goto(p, "flag:find", job[p]) ELSE NextRow(p, NextBalance(p))
  /\ UNCHANGED <<book, tables, runs, aborts, history>>

\* Fault: the balance is left below zero.
KeepNegative(p) == NextRow(p, NextBalance(p))
AfterFlag(p) == NextRow(p, 0)

\* Fault: open flags are not looked for.
FindNoFlag(p) ==
  /\ pc[p] = "flag:find"
  /\ Goto(p, "flag:create", job[p])
  /\ UNCHANGED <<book, tables, runs, aborts, pairs, overlaps, contended>>

\* Fault: any open flag of the user will do.
FindAnyFlag(p) ==
  /\ pc[p] = "flag:find"
  /\ IF \E r \in Rows : flags[r] > 0 THEN AfterFlag(p) ELSE Goto(p, "flag:create", job[p])
  /\ UNCHANGED <<book, tables, runs, aborts, pairs, overlaps, contended>>

FindFlag(p) ==
  /\ pc[p] = "flag:find"
  /\ IF flags[Row(p)] > 0 THEN AfterFlag(p) ELSE Goto(p, "flag:create", job[p])
  /\ contended' = contended \cup
       {Row(q) : q \in {q \in Ingests : pc[q] = "flag:create" /\ Row(q) = Row(p)}}
  /\ UNCHANGED <<book, tables, runs, aborts, pairs, overlaps>>

CreateFlag(p) ==
  /\ pc[p] = "flag:create"
  /\ flags' = [flags EXCEPT ![Row(p)] = @ + 1]
  /\ Goto(p, "notify", job[p])
  /\ UNCHANGED <<book, stored, link, taxYear, internal, notices, removed, runs, aborts, history>>

\* flagDataIssue
Notify(p) ==
  /\ pc[p] = "notify"
  /\ notices' = [notices EXCEPT ![Row(p)] = @ + 1]
  /\ AfterFlag(p)
  /\ UNCHANGED <<book, stored, link, taxYear, internal, flags, removed, runs, aborts, history>>

EndReplay(p) ==
  /\ pc[p] = "replay" /\ job[p].at > Len(job[p].rows)
  /\ Finish(p)
  /\ UNCHANGED <<book, tables, runs, aborts, history>>

----------------------------------------------------------------------------
\* A query fails or the process stops.
Abort(p) ==
  /\ pc[p] # "idle" /\ aborts < MaxAborts
  /\ aborts' = aborts + 1
  /\ Finish(p)
  /\ UNCHANGED <<book, tables, runs, history>>

\* A connection or wallet is deleted: the schema sets the keys of its rows to null.
RemoveSource(s) ==
  /\ s \in Removable \ removed
  /\ removed' = removed \cup {s}
  /\ link' = [r \in Rows |-> IF link[r] = s THEN Nil ELSE link[r]]
  /\ UNCHANGED <<book, stored, taxYear, internal, flags, notices, pc, job, runs, aborts, history>>

Init ==
  /\ book \in Books
  /\ stored = {} /\ internal = {} /\ removed = {}
  /\ link = [r \in Rows |-> Nil] /\ taxYear = [r \in Rows |-> 0]
  /\ flags = [r \in Rows |-> 0] /\ notices = [r \in Rows |-> 0]
  /\ pc = [p \in Ingests |-> "idle"] /\ job = [p \in Ingests |-> Nil]
  /\ runs = 0 /\ aborts = 0
  /\ pairs = {} /\ overlaps = {} /\ contended = {}

\* What one source answers; the rows of a removed one are not asked for.
Batches == {S \in SUBSET Rows \ {{}} :
              \E s \in (Sources \ removed) \cup {Nil} : \A r \in S : book[r].origin = s}

Ingest(p) ==
  \/ \E items \in Batches : BeginIngest(p, items)
  \/ \E r \in Rows : InsertRow(p, r) \/ SkipRow(p, r)
  \/ BeginSearch(p) \/ NothingInserted(p)
Detect(p) ==
  ReadOutgoing(p) \/ ReadIncoming(p) \/ MarkPair(p) \/ NoCandidate(p) \/ EndSearch(p)
Reconcile(p) ==
  ReadHistory(p) \/ ReplayRow(p) \/ FindFlag(p) \/ CreateFlag(p) \/ Notify(p) \/ EndReplay(p)

Next ==
  \/ \E p \in Ingests : Ingest(p) \/ Detect(p) \/ Reconcile(p) \/ Abort(p)
  \/ \E s \in Sources : RemoveSource(s)
Spec == Init /\ [][Next]_vars

----------------------------------------------------------------------------
TypeOK ==
  /\ book \in Books
  /\ stored \in SUBSET Rows /\ internal \in SUBSET stored /\ removed \in SUBSET Sources
  /\ link \in [Rows -> Sources \cup {Nil}] /\ taxYear \in [Rows -> {0, 1}]
  /\ flags \in [Rows -> Nat] /\ notices \in [Rows -> Nat]
  /\ runs \in 0..MaxRuns /\ aborts \in 0..MaxAborts
  /\ pc \in [Ingests -> Steps] /\ job \in [Ingests -> Job \cup {Nil}]
  /\ \A p \in Ingests : job[p] = Nil <=> pc[p] = "idle"
  /\ pairs \in SUBSET [out : Rows, in : Rows, run : 1..MaxRuns]
  /\ overlaps \in SUBSET SUBSET (1..MaxRuns) /\ contended \in SUBSET Rows

PairsFit ==
  /\ internal = {x.out : x \in pairs} \cup {x.in : x \in pairs}
  /\ \A x \in pairs :
       /\ book[x.out].type \in OutgoingTypes /\ book[x.in].type \in IncomingTypes
       /\ Fits(x.out, x.in)
       /\ book[x.out].origin = book[x.in].origin => book[x.out].origin \in removed \cup {Nil}

PairsApart ==
  \A x, y \in pairs :
    x # y /\ {x.out, x.in} \cap {y.out, y.in} # {} => {x.run, y.run} \in overlaps /\ x.run # y.run

\* detectInternalTransfers hides rows from the tax calculation only two by
\* two: a withdrawal with a deposit of the same coin, near in time and amount,
\* of another source - unless the source of both was no longer recorded (a
\* CSV file, or a connection removed by then).  A row is in two pairs only if
\* two searches that were in progress together made them: each keeps its own
\* usedIncomingIds and its own reading.
PairsSound == PairsFit /\ PairsApart

\* When a search ends, nothing it read is left that it would have paired,
\* whatever other searches did meanwhile: the greedy choice is maximal.
SearchExhausts ==
  \A p \in Ingests :
    pc[p] = "history" =>
      \A m \in DOMAIN job[p].outgoing, k \in DOMAIN job[p].incoming :
        LET out == job[p].outgoing[m]
            inc == job[p].incoming[k]
        IN Fits(out.id, inc.id) /\ ~ sameSource(out, inc) =>
             out.id \in internal \/ inc.id \in internal

\* reconcile flags a row once, unless another reconciliation was between its
\* own search for the flag and the creation; and no one is told of a flag that
\* is not there.
FlaggedOnce ==
  \A r \in Rows : notices[r] <= flags[r] /\ (r \notin contended => flags[r] <= 1)

\* The comment's claim (turkey-date.util.ts:1): the tax year of an instant is the
\* year in Turkey, or a trade of the last three hours of the year in UTC falls
\* into the wrong one.
BucketedInTurkey == \A r \in stored : taxYear[r] = TurkeyYear(book[r].hour)
=============================================================================
