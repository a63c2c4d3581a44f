--------------------------- MODULE MCAdapterPaging ---------------------------
(***************************************************************************)
(* Instances of AdapterPaging: for every client, three or four rows of one *)
(* kind spread over the windows in every way, of one order, transaction or   *)
(* number or of several, and of one symbol or of two.                      *)
(***************************************************************************)
EXTENDS AdapterPaging

CONSTANTS c1, c2, c3, c4

MCCoins == {c1, c2, c3, c4}
\* Only c1 is held, or the wallet of the page.
MCCommonQuotes == {c2, c3}
\* Two or three rows over the time since the look-back, or four early ones.
Times(n) == IF n = 4 THEN 1..2 ELSE 1..3
Spread(n) == {f \in [1..n -> Times(n)] : \A i \in 1..(n - 1) : f[i] <= f[i + 1]}
\* The second of the rows may be of another symbol that is asked for, of a quote
\* that is not, or of a coin that is not held; elsewhere it may be of another coin.
Symbols(kind) == IF kind = "trade" THEN {<<c1, c2>>, <<c1, c3>>, <<c1, c4>>, <<c4, c2>>}
                 ELSE {<<c1, Nil>>, <<c2, Nil>>}
Symbol(i, kind, second) ==
  IF i = 2 THEN second ELSE IF kind = "trade" THEN <<c1, c2>> ELSE <<c1, Nil>>
Histories(kind, one, second, lengths) ==
  UNION {{[i \in 1..n |-> [kind |-> kind, coin |-> Symbol(i, kind, second)[1],
                           quote |-> Symbol(i, kind, second)[2], at |-> f[i],
                           order |-> IF one THEN 1 ELSE i]] : f \in Spread(n)} : n \in lengths}

\* Rows with names of their own, and rows with one name: of one order or one
\* transaction, or with one number in two symbols.
Apart(kind, listing, lengths) ==
  UNION {Histories(kind, FALSE, second, lengths) :
           second \in (IF listing.scope = "account" THEN {Symbol(1, kind, Nil)} ELSE Symbols(kind))}
Alike(kind, listing, lengths) ==
  IF listing.key = "id" THEN {}
  ELSE UNION {Histories(kind, TRUE, second, lengths) :
                second \in {s \in Symbols(kind) :
                              IF listing.scope = "symbol" THEN s = <<c1, c3>>
                              ELSE kind = "trade" => s = <<c1, c2>>}}

\* A connection whose account has the history and shows another row of its kind
\* in the course of the fetch.
Known(client, history, newest, since) ==
  [client |-> client, rows |-> history, held |-> {c1}, since |-> since,
   late |-> [history[1] EXCEPT !.order = 9], newestFirst |-> newest, keyless |-> FALSE,
   granted |-> {"read"}, regrants |-> {}, calls |-> {}]
\* An earlier listing of the client is read in the same way.
Again(client, p) ==
  \E q \in 1..(p - 1) :
    \A f \in {"paging", "scope", "windowed"} : Reads[client][q][f] = Reads[client][p][f]
OfListing(client, listing, lengths, longer) ==
  {Known(client, h, newest, since) :
     h \in UNION {Apart(kind, listing, lengths) \cup Alike(kind, listing, lengths)
                  \cup Histories(kind, FALSE, Symbol(1, kind, Nil), longer) : kind \in listing.kept},
     newest \in (IF listing.paging \in {"one", "offset", "hasNext", "cursor"}
                 THEN BOOLEAN ELSE {FALSE}),
     since \in {Nil, 2}}

\* A connection to an account without rows, and one that is verified twice while
\* the grants of its key are changed and changed back.
New(client, since, keyless) ==
  [client |-> client, rows |-> <<>>, held |-> {c1, c2}, since |-> since, late |-> Nil,
   newestFirst |-> FALSE, keyless |-> keyless, granted |-> {"read"}, regrants |-> {}, calls |-> {}]
Verified(client, g) ==
  [New(client, T0, FALSE) EXCEPT !.held = {}, !.granted = g, !.calls = Calls,
                                 !.regrants = {g, {"read", "withdraw"}}]
MCAccounts ==
  {New(client, since, keyless) : client \in Clients, since \in {2, T0}, keyless \in BOOLEAN}
  \cup {Verified(client, g) : client \in Clients, g \in Grants}
  \cup UNION {UNION {OfListing(client, Reads[client][p],
                               IF Again(client, p) THEN {2} ELSE {3},
                               IF Again(client, p) THEN {} ELSE {4}) :
                       p \in DOMAIN Reads[client]} :
                client \in Clients}
=============================================================================
