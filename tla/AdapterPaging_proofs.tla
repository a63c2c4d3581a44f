------------------------ MODULE AdapterPaging_proofs ------------------------
(***************************************************************************)
(* A fetch loses no row it has to hand over: what a page does not show is  *)
(* shown by a later page, a later window or a later listing.               *)
(***************************************************************************)
EXTENDS AdapterPaging, Sums_proofs, FiniteSetTheorems

\* The order in which a listing gives rows i and j.
Precedes(down, i, j) == IF down THEN i > j ELSE i < j
\* How many of a set of rows come before row i, and the first n of the set.
Rank(down, ids, i) == Cardinality({j \in ids : Precedes(down, j, i)})
First(down, ids, n) == {i \in ids : Rank(down, ids, i) < n}

LEMMA Ordered ==
  ASSUME NEW down
  PROVE  /\ \A i, j, k \in Nat :
              Precedes(down, i, j) /\ Precedes(down, j, k) => Precedes(down, i, k)
         /\ \A i, j \in Nat : i = j \/ Precedes(down, i, j) \/ Precedes(down, j, i)
         /\ \A i, j \in Nat : Precedes(down, i, j) => i # j /\ ~ Precedes(down, j, i)
BY DEF Precedes

LEMMA Ranked ==
  ASSUME NEW down, NEW ids \in SUBSET Nat, IsFiniteSet(ids), NEW i
  PROVE  /\ IsFiniteSet({j \in ids : Precedes(down, j, i)}) /\ Rank(down, ids, i) \in Nat
         /\ IsFiniteSet(First(down, ids, i)) /\ First(down, ids, i) \subseteq ids
<1>1. {j \in ids : Precedes(down, j, i)} \subseteq ids /\ First(down, ids, i) \subseteq ids
  BY DEF First
<1> QED
  BY <1>1, FS_Subset, FS_CardinalityType DEF Rank

\* A row that comes before another has the lesser rank.
LEMMA RankGrows ==
  ASSUME NEW down, NEW ids \in SUBSET Nat, IsFiniteSet(ids), NEW i \in ids, NEW k \in ids,
         Precedes(down, i, k)
  PROVE  Rank(down, ids, i) < Rank(down, ids, k)
<1> DEFINE A == {j \in ids : Precedes(down, j, i)}
<1> DEFINE B == {j \in ids : Precedes(down, j, k)}
<1>1. i \in Nat /\ k \in Nat /\ A \subseteq B /\ i \in B /\ i \notin A
  BY Ordered
<1>2. IsFiniteSet(A) /\ IsFiniteSet(B)
  BY Ranked
<1>3. Rank(down, ids, i) = Cardinality(A) /\ Rank(down, ids, k) = Cardinality(B)
  BY DEF Rank
<1> HIDE DEF A, B
<1>4. Cardinality(A) <= Cardinality(B) /\ (Cardinality(A) = Cardinality(B) => A = B)
  BY <1>1, <1>2, FS_Subset
<1>5. Cardinality(A) \in Nat /\ Cardinality(B) \in Nat
  BY <1>2, FS_CardinalityType
<1> QED
  BY <1>1, <1>3, <1>4, <1>5

LEMMA RankOrders ==
  ASSUME NEW down, NEW ids \in SUBSET Nat, IsFiniteSet(ids), NEW i \in ids, NEW k \in ids,
         Rank(down, ids, i) < Rank(down, ids, k)
  PROVE  Precedes(down, i, k)
<1>1. Rank(down, ids, i) \in Nat /\ Rank(down, ids, k) \in Nat /\ i \in Nat /\ k \in Nat
  BY Ranked
<1>2. ~ Precedes(down, k, i)
  BY <1>1, RankGrows
<1>3. i # k
  BY <1>1
<1> QED
  BY <1>1, <1>2, <1>3, Ordered

\* If the set has more than its first n, these are n at least.
LEMMA FirstAreFull ==
  ASSUME NEW down, NEW ids \in SUBSET Nat, IsFiniteSet(ids), NEW n \in Nat,
         NEW k \in ids, Rank(down, ids, k) >= n
  PROVE  Cardinality(First(down, ids, n)) >= n
<1> DEFINE T == {Rank(down, ids, j) : j \in {l \in ids : Rank(down, ids, l) >= n}}
<1>1. \A j \in ids : Rank(down, ids, j) \in Nat
  BY Ranked
<1>2. T \in SUBSET Nat /\ T # {}
  BY <1>1
<1>3. PICK t \in T : \A u \in T : t <= u
  <2> HIDE DEF T
  <2> QED BY <1>2, LeastNumber
<1>4. PICK j \in ids :
        /\ Rank(down, ids, j) >= n
        /\ \A l \in ids : Rank(down, ids, l) >= n => Rank(down, ids, j) <= Rank(down, ids, l)
  BY <1>3
<1> DEFINE B == {l \in ids : Precedes(down, l, j)}
<1>5. ASSUME NEW l \in B PROVE l \in First(down, ids, n)
  <2>1. l \in ids /\ Rank(down, ids, l) < Rank(down, ids, j)
    BY RankGrows
  <2>2. Rank(down, ids, l) \in Nat /\ Rank(down, ids, j) \in Nat
    BY Ranked
  <2>3. ~ (Rank(down, ids, l) >= n)
    BY <1>4, <2>1, <2>2
  <2> QED
    BY <2>1, <2>2, <2>3 DEF First
<1>6. B \subseteq First(down, ids, n)
  BY <1>5
<1>7. IsFiniteSet(First(down, ids, n)) /\ Rank(down, ids, j) = Cardinality(B)
  BY Ranked DEF Rank
<1> HIDE DEF B
<1>8. Cardinality(B) <= Cardinality(First(down, ids, n))
  BY <1>6, <1>7, FS_Subset
<1>9. Cardinality(First(down, ids, n)) \in Nat /\ Cardinality(B) \in Nat
  BY <1>6, <1>7, FS_CardinalityType, FS_Subset
<1> QED
  BY <1>4, <1>7, <1>8, <1>9

\* A set of rows that is not empty has a last one.
LEMMA LastRow ==
  ASSUME NEW down, NEW ids \in SUBSET Nat, IsFiniteSet(ids), ids # {}
  PROVE  \E i \in ids : \A j \in ids : j = i \/ Precedes(down, j, i)
<1> DEFINE C == Cardinality(ids)
<1> DEFINE T == {C - Rank(down, ids, j) : j \in ids}
<1>1. ASSUME NEW j \in ids PROVE Rank(down, ids, j) \in Nat /\ C - Rank(down, ids, j) \in Nat
  <2>1. {l \in ids : Precedes(down, l, j)} \subseteq ids
    OBVIOUS
  <2>2. Rank(down, ids, j) <= C
    BY <2>1, FS_Subset DEF Rank
  <2>3. Rank(down, ids, j) \in Nat /\ C \in Nat
    BY Ranked, FS_CardinalityType
  <2> HIDE DEF C
  <2> QED
    BY <2>2, <2>3
<1>2. T \in SUBSET Nat /\ T # {}
  BY <1>1
<1>3. PICK t \in T : \A u \in T : t <= u
  <2> HIDE DEF T
  <2> QED BY <1>2, LeastNumber
<1>4. PICK i \in ids : \A j \in ids : C - Rank(down, ids, i) <= C - Rank(down, ids, j)
  BY <1>3
<1>5. C \in Nat
  BY FS_CardinalityType
<1> HIDE DEF C
<1>6. ASSUME NEW j \in ids PROVE ~ Precedes(down, i, j)
  BY <1>1, <1>4, <1>5, RankGrows
<1>7. \A j \in ids : j = i \/ Precedes(down, j, i)
  BY <1>6, Ordered
<1> QED
  BY <1>7

\* The first n are n at most.
LEMMA FirstAreFew ==
  ASSUME NEW down, NEW ids \in SUBSET Nat, IsFiniteSet(ids), NEW n \in Nat
  PROVE  Cardinality(First(down, ids, n)) <= n /\ Cardinality(First(down, ids, n)) \in Nat
<1> DEFINE F == First(down, ids, n)
<1>1. IsFiniteSet(F) /\ F \subseteq ids
  BY Ranked
<1>2. CASE F = {}
  BY <1>2, FS_EmptySet
<1>3. CASE F # {}
  <2>1. PICK i \in F : \A j \in F : j = i \/ Precedes(down, j, i)
    BY <1>1, <1>3, LastRow
  <2> DEFINE B == {j \in ids : Precedes(down, j, i)}
  <2>2. F \ {i} \subseteq B /\ IsFiniteSet(B)
    BY <1>1, <2>1, Ranked
  <2>3. Cardinality(B) < n /\ Cardinality(B) \in Nat
    BY <2>1, <2>2, FS_CardinalityType DEF First, Rank
  <2> HIDE DEF B
  <2>4. Cardinality(F \ {i}) <= Cardinality(B) /\ Cardinality(F \ {i}) = Cardinality(F) - 1
    BY <1>1, <2>1, <2>2, FS_Subset, FS_RemoveElement
  <2>5. Cardinality(F) \in Nat
    BY <1>1, FS_CardinalityType
  <2> QED
    BY <2>3, <2>4, <2>5
<1> QED
  BY <1>2, <1>3

\* What is not among the first n comes after them; fewer than n are all.
LEMMA PageOfAll ==
  ASSUME NEW down, NEW ids \in SUBSET Nat, IsFiniteSet(ids), NEW n \in Nat \ {0}
  PROVE  /\ Cardinality(First(down, ids, n)) # n => First(down, ids, n) = ids
         /\ First(down, ids, n) # ids => First(down, ids, n) # {}
         /\ \A i \in First(down, ids, n), j \in ids \ First(down, ids, n) : Precedes(down, i, j)
<1> DEFINE F == First(down, ids, n)
<1>1. F \subseteq ids /\ \A j \in ids : Rank(down, ids, j) \in Nat
  BY Ranked
<1>2. Cardinality(F) <= n /\ Cardinality(F) \in Nat
  BY FirstAreFew
<1>3. ASSUME NEW j \in ids \ F PROVE Rank(down, ids, j) >= n
  BY <1>1, <1>3 DEF First
<1>4. ASSUME F # ids PROVE Cardinality(F) = n
  <2>1. PICK j \in ids \ F : TRUE
    BY <1>1, <1>4
  <2>2. Cardinality(F) >= n
    BY <1>3, FirstAreFull
  <2> HIDE DEF F
  <2> QED
    BY <1>2, <2>2
<1>5. F # ids => F # {}
  BY <1>4, FS_EmptySet
<1>6. ASSUME NEW i \in F, NEW j \in ids \ F PROVE Precedes(down, i, j)
  <2>1. Rank(down, ids, i) < n /\ i \in ids
    BY DEF First
  <2>2. Rank(down, ids, i) < Rank(down, ids, j)
    BY <1>1, <1>3, <2>1
  <2> QED
    BY <2>1, <2>2, RankOrders
<1> QED
  BY <1>4, <1>5, <1>6

\* What is neither among the first n nor among the m after them.
LEMMA PageOfRest ==
  ASSUME NEW down, NEW ids \in SUBSET Nat, IsFiniteSet(ids), NEW n \in Nat, NEW m \in Nat,
         NEW left, left = ids \ First(down, ids, n),
         NEW i \in left, i \notin First(down, left, m)
  PROVE  Rank(down, ids, i) >= n + m
<1> DEFINE F == First(down, ids, n)
<1> DEFINE A == {j \in ids : Precedes(down, j, i)}
<1> DEFINE B == {j \in left : Precedes(down, j, i)}
<1>1. F \subseteq ids /\ IsFiniteSet(F) /\ IsFiniteSet(A) /\ \A j \in ids : Rank(down, ids, j) \in Nat
  <2>1. F \subseteq ids /\ A \subseteq ids
    BY DEF First
  <2>2. \A j \in ids : Rank(down, ids, j) \in Nat
    BY Ranked
  <2> QED
    BY <2>1, <2>2, FS_Subset
<1>2. i \in ids /\ left \subseteq ids /\ IsFiniteSet(left) /\ left \in SUBSET Nat
  BY FS_Subset
<1>3. IsFiniteSet(B) /\ Rank(down, left, i) \in Nat /\ Rank(down, left, i) = Cardinality(B)
  <2>1. B \subseteq left /\ Rank(down, left, i) = Cardinality(B)
    BY DEF Rank
  <2> HIDE DEF B
  <2> QED
    BY <1>2, <2>1, FS_Subset, FS_CardinalityType
<1>4. Cardinality(B) >= m
  BY <1>3 DEF First
<1>5. Rank(down, ids, i) >= n
  BY <1>1, <1>2 DEF First
<1>6. Cardinality(F) >= n
  BY <1>2, <1>5, FirstAreFull
<1>7. ASSUME NEW j \in F PROVE Precedes(down, j, i)
  <2>1. Rank(down, ids, j) < n /\ j \in ids
    BY DEF First
  <2>2. Rank(down, ids, j) < Rank(down, ids, i)
    BY <1>1, <1>2, <1>5, <2>1
  <2> QED
    BY <1>2, <2>1, <2>2, RankOrders
<1>8. F \cup B \subseteq A /\ F \cap B = {}
  BY <1>1, <1>2, <1>7
<1>9. Rank(down, ids, i) = Cardinality(A)
  BY DEF Rank
<1> HIDE DEF A, B, F
<1>10. Cardinality(F \cup B) = Cardinality(F) + Cardinality(B) - Cardinality(F \cap B)
  BY <1>1, <1>3, FS_Union
<1>11. Cardinality(F \cup B) <= Cardinality(A) /\ Cardinality(F \cap B) = 0
  BY <1>1, <1>8, FS_Subset, FS_EmptySet
<1>12. Cardinality(F) \in Nat /\ Cardinality(B) \in Nat /\ Cardinality(A) \in Nat
  BY <1>1, <1>3, FS_CardinalityType
<1> QED
  BY <1>4, <1>6, <1>9, <1>10, <1>11, <1>12

----------------------------------------------------------------------------
\* What the table of the clients says of every listing.
Fits(listing) ==
  /\ listing \in Listing /\ listing.kept \subseteq listing.shown
  /\ listing.windowed =>
       /\ listing.from = "start" /\ listing.side = "request" /\ listing.upto
       /\ listing.paging \in {"one", "offset", "cursor"}
       /\ listing.paging = "one" => listing.unit = "ms"
  /\ listing.paging = "backwards" => listing.from = "start"

LEMMA PlainFits ==
  ASSUME NEW kinds \in SUBSET Kinds
  PROVE  /\ Fits(OnePage(kinds)) /\ OnePage(kinds).kept = kinds
         /\ \A paging \in Pagings : Fits(Paged(kinds, paging)) /\ ~ Paged(kinds, paging).windowed
         /\ \A paging \in {"one", "offset", "cursor"} : Fits(Windowed(kinds, paging))
BY DEF Fits, Listing, OnePage, Paged, Windowed, Pagings

\* Of the listings that are changed, none is asked for in windows of another
\* unit or filtered by the client.
LEMMA ChangedFit ==
  ASSUME NEW listing, Fits(listing)
  PROVE  /\ Fits(PerSymbol(listing)) /\ Fits(Ended(listing)) /\ Fits(Named(listing))
         /\ PerSymbol(listing).windowed = listing.windowed
         /\ Ended(listing).windowed = listing.windowed
         /\ ~ listing.windowed => Fits(Filtered(listing)) /\ ~ Filtered(listing).windowed
         /\ listing.paging # "one" \/ ~ listing.windowed =>
              \A unit \in {"ms", "s", "day"} :
                Fits(In(unit, listing)) /\ In(unit, listing).windowed = listing.windowed
         /\ \A key \in {"id", "name", "fill", "fillSecond", "tx"} : Fits(KeyedBy(key, listing))
         /\ \A kinds \in SUBSET Kinds : listing.kept \subseteq kinds => Fits(Showing(kinds, listing))
BY DEF Fits, Listing, PerSymbol, Filtered, Ended, In, KeyedBy, Named, Showing

AllFit(listings) == listings \in Seq(Listing) /\ \A p \in DOMAIN listings : Fits(listings[p])

LEMMA TuplesFit ==
  ASSUME NEW a, NEW b, NEW c, Fits(a), Fits(b), Fits(c)
  PROVE  AllFit(<<>>) /\ AllFit(<<a>>) /\ AllFit(<<a, b>>) /\ AllFit(<<a, b, c>>)
BY DEF AllFit, Fits

LEMMA ListingsFit == \A client \in Clients : AllFit(Reads[client])
<1> DEFINE D == Windowed(Deposits, "one")
<1> DEFINE W == Windowed(Withdrawals, "one")
<1>1. /\ Deposits \in SUBSET Kinds /\ Withdrawals \in SUBSET Kinds /\ Trades \in SUBSET Kinds
      /\ {"deposit", "withdrawal"} \in SUBSET Kinds /\ {"native"} \in SUBSET Kinds
      /\ {"token"} \in SUBSET Kinds /\ {"native", "zero"} \in SUBSET Kinds
      /\ {"deposit", "withdrawal", "other"} \in SUBSET Kinds
      /\ {"deposit", "withdrawal", "trade"} \in SUBSET Kinds
      /\ {"deposit", "withdrawal", "trade", "other"} \in SUBSET Kinds
  BY DEF Deposits, Withdrawals, Trades, Kinds
<1>2. Fits(D) /\ Fits(W) /\ Fits(Named(D)) /\ Fits(Named(W))
  <2>1. Fits(D) /\ Fits(W)
    BY <1>1, PlainFits
  <2> HIDE DEF D, W
  <2> QED
    BY <2>1, ChangedFit
<1>3. \A paging \in Pagings : Fits(Paged(Trades, paging)) /\ Fits(PerSymbol(Paged(Trades, paging)))
  BY <1>1, PlainFits, ChangedFit
<1>4. AllFit(Binance) /\ AllFit(BinanceTr) /\ AllFit(Mexc) /\ AllFit(Bitget)
  BY <1>2, <1>3, TuplesFit DEF Binance, BinanceTr, Mexc, Bitget, Pagings
<1>5. AllFit(Htx)
  <2>1. Fits(Filtered(Paged(Deposits, "backwards"))) /\ Fits(Filtered(Paged(Withdrawals, "backwards")))
    BY <1>1, PlainFits, ChangedFit DEF Pagings
  <2>2. Fits(PerSymbol(Windowed(Trades, "one")))
    BY <1>1, PlainFits, ChangedFit
  <2> QED
    BY <2>1, <2>2, TuplesFit DEF Htx
<1>6. AllFit(Bybit)
  <2>1. /\ Fits(Windowed(Trades, "cursor")) /\ Fits(Paged(Deposits, "cursor"))
        /\ Fits(Paged(Withdrawals, "cursor"))
    BY <1>1, PlainFits DEF Pagings
  <2>2. Fits(Named(Paged(Deposits, "cursor"))) /\ Fits(Named(Paged(Withdrawals, "cursor")))
    BY <2>1, ChangedFit
  <2> QED
    BY <2>1, <2>2, TuplesFit DEF Bybit
<1>7. AllFit(Gateio)
  <2>1. \A kinds \in {Deposits, Withdrawals, Trades} :
          Fits(Windowed(kinds, "offset")) /\ Windowed(kinds, "offset").paging = "offset"
    BY <1>1, PlainFits DEF Windowed, Paged, OnePage
  <2>2. \A kinds \in {Deposits, Withdrawals, Trades} : Fits(In("s", Windowed(kinds, "offset")))
    BY <2>1, ChangedFit
  <2>3. \A kinds \in {Deposits, Withdrawals, Trades} :
          Fits(Named(In("s", Windowed(kinds, "offset"))))
    BY <2>2, ChangedFit
  <2> QED
    BY <2>3, TuplesFit DEF Gateio
<1>8. AllFit(Paribu)
  <2> DEFINE A == Paged({"deposit", "withdrawal"}, "one")
  <2> DEFINE T == Paged(Trades, "offset")
  <2>1. Fits(A) /\ A.kept = {"deposit", "withdrawal"} /\ ~ A.windowed /\ Fits(T) /\ ~ T.windowed
    BY <1>1, PlainFits DEF Pagings, Paged, OnePage
  <2> HIDE DEF A, T
  <2> DEFINE B == Showing({"deposit", "withdrawal", "other"}, A)
  <2>2. Fits(B) /\ B.windowed = A.windowed
    <3>1. Fits(B)
      BY <1>1, <2>1, ChangedFit
    <3> QED
      BY <2>1, <3>1 DEF Showing, Fits, Listing
  <2>3. Fits(In("day", Ended(B)))
    <3> HIDE DEF B
    <3>1. Fits(Ended(B)) /\ ~ Ended(B).windowed
      BY <2>1, <2>2, ChangedFit
    <3> QED
      BY <3>1, ChangedFit
  <2>4. Fits(KeyedBy("fill", In("day", Ended(T))))
    <3>1. Fits(Ended(T)) /\ ~ Ended(T).windowed
      BY <2>1, ChangedFit
    <3>2. Fits(In("day", Ended(T)))
      BY <3>1, ChangedFit
    <3> QED
      BY <3>2, ChangedFit
  <2> QED
    BY <2>3, <2>4, TuplesFit DEF Paribu, A, T
<1>9. AllFit(Icrypex)
  <2> DEFINE T == Paged(Trades, "hasNext")
  <2>1. Fits(T) /\ ~ T.windowed
    BY <1>1, PlainFits DEF Pagings
  <2> HIDE DEF T
  <2>2. Fits(Ended(T)) /\ ~ Ended(T).windowed
    BY <2>1, ChangedFit
  <2>3. Fits(In("s", Ended(T)))
    BY <2>2, ChangedFit
  <2>4. Fits(KeyedBy("fillSecond", In("s", Ended(T))))
    BY <2>3, ChangedFit
  <2> QED
    BY <2>4, TuplesFit DEF Icrypex, T
<1>10. \A kinds \in SUBSET Kinds : Fits(OnePage(kinds)) /\ ~ OnePage(kinds).windowed
                                   /\ OnePage(kinds).kept = kinds
  BY PlainFits DEF OnePage
<1>11. AllFit(Okx) /\ AllFit(Kucoin) /\ AllFit(Btcturk)
  <2>1. \A kinds \in {Deposits, Withdrawals, Trades} : Fits(Named(OnePage(kinds)))
    BY <1>1, <1>10, ChangedFit
  <2> QED
    BY <1>1, <1>10, <2>1, TuplesFit DEF Okx, Kucoin, Btcturk
<1>12. \A kinds, shown \in SUBSET Kinds :
         kinds \subseteq shown =>
           Fits(Showing(shown, OnePage(kinds))) /\ ~ Showing(shown, OnePage(kinds)).windowed
  <2> SUFFICES ASSUME NEW kinds \in SUBSET Kinds, NEW shown \in SUBSET Kinds,
                      kinds \subseteq shown
               PROVE  Fits(Showing(shown, OnePage(kinds)))
                      /\ ~ Showing(shown, OnePage(kinds)).windowed
    OBVIOUS
  <2>1. Fits(Showing(shown, OnePage(kinds)))
    BY <1>10, ChangedFit
  <2> QED
    BY <2>1 DEF Showing, OnePage
<1>13. AllFit(Kraken)
  BY <1>1, <1>10, <1>12, ChangedFit, TuplesFit DEF Kraken
<1>14. AllFit(Coinbase)
  <2> DEFINE C == Showing({"deposit", "withdrawal", "trade", "other"},
                          OnePage({"deposit", "withdrawal", "trade"}))
  <2>1. Fits(C) /\ ~ C.windowed
    BY <1>1, <1>12
  <2> HIDE DEF C
  <2>2. Fits(Filtered(C))
    BY <2>1, ChangedFit
  <2>3. Fits([Filtered(C) EXCEPT !.scope = "each"])
    BY <2>2 DEF Fits, Listing
  <2> QED
    BY <2>3, TuplesFit DEF Coinbase, C
<1>15. AllFit(EthereumLike) /\ AllFit(Bitcoin)
  <2>1. Fits(Filtered(Showing({"native", "zero"}, OnePage({"native"}))))
    BY <1>1, <1>12, ChangedFit
  <2>2. Fits(Filtered(OnePage({"token"})))
    BY <1>1, <1>10, ChangedFit
  <2> QED
    BY <2>1, <2>2, ChangedFit, TuplesFit DEF EthereumLike, Bitcoin
<1>16. AllFit(Stub)
  BY DEF AllFit, Stub
<1> QED
  BY <1>4, <1>5, <1>6, <1>7, <1>8, <1>9, <1>11, <1>13, <1>14, <1>15, <1>16 DEF Clients, Reads

LEMMA LevelsSound ==
  ASSUME NEW client \in Clients, NEW may \in SUBSET {"read", "trade", "withdraw"}
  PROVE  /\ Level(client, may) \in Levels
         /\ Level(client, may) = "READ_ONLY" => may \subseteq {"read"} \/ client = "paribu"
         /\ Level(client, may) = "TRADE" => "withdraw" \notin may
<1>1. \A otherwise \in {"READ_ONLY", "UNKNOWN", "TRADE"} :
        LET got1 == Highest(may, otherwise) IN
        /\ got1 \in Levels
        /\ got1 = "TRADE" => "withdraw" \notin may
        /\ got1 = "READ_ONLY" => may \subseteq {"read"}
  BY DEF Highest, Levels
<1>2. IfRead(may) \in {"READ_ONLY", "UNKNOWN"}
  BY DEF IfRead
<1>3. /\ BybitLevel(may) \in Levels
      /\ BybitLevel(may) = "READ_ONLY" => may \subseteq {"read"}
      /\ BybitLevel(may) = "TRADE" => "withdraw" \notin may
  BY <1>1 DEF BybitLevel, Levels
<1> QED
  BY <1>1, <1>2, <1>3 DEF Level, BinanceLevel, BinanceTrLevel, MexcLevel, OkxLevel, KucoinLevel,
     ParibuLevel, BitgetLevel, HtxLevel, IcrypexLevel, GateioLevel, Levels

----------------------------------------------------------------------------
\* Row i is one that listing p has to hand over.
Wanted(p, i) ==
  LET listing == Reads[Client][p] IN
  rows[i].kind \in listing.kept /\ rows[i].at >= From(listing) /\ rows[i].at < T0
\* The ways in which it may be left out.
Excused(p, i) ==
  LET listing == Reads[Client][p] IN
  \/ <<p, PairOf(rows[i], listing)>> \in passed \/ <<p, Nil>> \in passed
  \/ Unasked(i, listing)
  \/ listing.paging = "one" /\ Cardinality(SameAnswer(i, listing)) > LIMIT
Handed(p, i) == Wanted(p, i) => i \in got \/ Excused(p, i)

\* The account stays, and its rows stay in the order of their times.
Listed ==
  /\ account \in Accounts
  /\ start = (IF account.since = Nil THEN T0 - LOOKBACK ELSE account.since)
  /\ \A i \in DOMAIN rows :
       rows[i].at <= clock /\ \A j \in i..Len(rows) : rows[i].at <= rows[j].at

\* Where the fetch is.
Placed ==
  /\ pc \in {"holdings", "pair", "page"} => phase \in DOMAIN Reads[Client]
  /\ pc \in {"holdings", "pair"} => L.scope # "account"
  /\ pc = "page" /\ L.scope # "account" => pair \in Pairs
  /\ pc = "page" =>
       /\ L.paging = "one" => cursor = Nil
       /\ L.windowed => \E n \in 0..win : win = start + n * (WINDOW + 1)
       /\ ~ L.windowed => win = start

EarlierHanded ==
  pc # "failed" => \A p \in DOMAIN Reads[Client], i \in DOMAIN rows : p < phase => Handed(p, i)
DoneHanded == pc = "done" => \A p \in DOMAIN Reads[Client], i \in DOMAIN rows : Handed(p, i)
\* The coins that are no longer to be read have been.
PairsHanded ==
  pc \in {"pair", "page"} /\ L.scope # "account" =>
    \A i \in DOMAIN rows :
      PairOf(rows[i], L) \notin todo /\ (pc = "page" => PairOf(rows[i], L) # pair) => Handed(phase, i)
\* A row of the listing that is read has been handed over or will be by a later
\* page or a later window.
Due(i) == (L.windowed /\ rows[i].at > WindowEnd) \/ i \in Left(Matching)
PageHanded ==
  pc = "page" =>
    \A i \in DOMAIN rows :
      Wanted(phase, i) /\ (L.scope # "account" => PairOf(rows[i], L) = pair) =>
        i \in part \cup got \/ Excused(phase, i) \/ Due(i)

\* What a call has read, and what is stored, is of the grants unless they were
\* changed since.
LevelRead ==
  /\ \A r \in readings : r.old \/ r.level \in {"UNKNOWN", Level(Client, granted)}
  /\ outdated \/ level \in {"UNKNOWN", Level(Client, granted)}

PagingInv ==
  /\ TypeOK /\ Listed /\ Placed /\ LevelRead
  /\ EarlierHanded /\ DoneHanded /\ PairsHanded /\ PageHanded

LEMMA Bounds ==
  /\ LIMIT \in Nat \ {0} /\ SECOND \in Nat \ {0} /\ DAY \in Nat \ {0}
  /\ WINDOW \in Nat /\ LOOKBACK \in Nat /\ MAX_RETRIES \in Nat
  /\ T0 \in Nat /\ MaxTime \in Nat /\ MaxErrors \in Nat /\ T0 >= LOOKBACK /\ MaxTime >= T0
  /\ Nil \notin Nat /\ Nil \notin Levels /\ Nil \notin Coins /\ CommonQuotes \in SUBSET Coins
BY PagingAssumption

LEMMA Accounted ==
  ASSUME TypeOK
  PROVE  /\ account \in Account /\ Client \in Clients /\ account.held \in SUBSET Coins
         /\ account.newestFirst \in BOOLEAN /\ Since \in Nat \cup {Nil}
         /\ account.granted \in Grants /\ account.calls \in SUBSET Calls
         /\ account.regrants \in SUBSET Grants
         /\ Reads[Client] \in Seq(Listing) /\ DOMAIN Reads[Client] = 1..Len(Reads[Client])
         /\ Len(Reads[Client]) \in Nat
         /\ \A p \in DOMAIN Reads[Client] : Fits(Reads[Client][p]) /\ Reads[Client][p] \in Listing
<1>1. account \in Account /\ Client \in Clients /\ account.held \in SUBSET Coins
      /\ account.newestFirst \in BOOLEAN /\ Since \in Nat \cup {Nil}
      /\ account.granted \in Grants /\ account.calls \in SUBSET Calls
      /\ account.regrants \in SUBSET Grants
  BY DEF TypeOK, Account, Client, Since
<1>2. AllFit(Reads[Client])
  BY <1>1, ListingsFit
<1> QED
  BY <1>1, <1>2 DEF AllFit, Fits

LEMMA RowsTyped ==
  ASSUME TypeOK
  PROVE  /\ DOMAIN rows = 1..Len(rows) /\ Len(rows) \in Nat /\ IsFiniteSet(DOMAIN rows)
         /\ DOMAIN rows \subseteq Nat
         /\ \A i \in DOMAIN rows :
              /\ rows[i].at \in Nat /\ rows[i].coin \in Coins /\ rows[i].kind \in Kinds
              /\ rows[i].quote \in Coins \cup {Nil} /\ rows[i].quote # rows[i].coin
<1>1. rows \in Seq(Row)
  BY DEF TypeOK
<1>2. DOMAIN rows = 1..Len(rows) /\ Len(rows) \in Nat /\ \A i \in DOMAIN rows : rows[i] \in Row
  BY <1>1
<1>3. IsFiniteSet(1..Len(rows))
  BY <1>2, FS_Interval
<1> QED
  BY <1>2, <1>3 DEF Row

\* The operators of AdapterPaging in terms of ranks.
LEMMA NthIs ==
  ASSUME NEW ids, NEW n \in Nat
  PROVE  /\ \A i, j : Before(i, j) = Precedes(Descending, i, j)
         /\ ids \in SUBSET Nat /\ IsFiniteSet(ids) => FromNth(n, ids) = ids \ First(Descending, ids, n)
<1>1. \A i, j : Before(i, j) = Precedes(Descending, i, j)
  BY DEF Before, Precedes
<1>2. \A i : {j \in ids : Before(j, i)} = {j \in ids : Precedes(Descending, j, i)}
  BY <1>1
<1>3. ASSUME ids \in SUBSET Nat, IsFiniteSet(ids)
      PROVE  FromNth(n, ids) = ids \ First(Descending, ids, n)
  <2>1. \A i \in ids : Rank(Descending, ids, i) \in Nat
    BY <1>3, Ranked
  <2> QED
    BY <1>2, <2>1 DEF FromNth, First, Rank
<1> QED
  BY <1>1, <1>3

\* What is left of a listing, its first page and that page's last row.
LEMMA PageIs ==
  ASSUME TypeOK, Listed, Placed, pc = "page",
         NEW left, left = Left(Matching), NEW page, page = PageOf(left)
  PROVE  /\ L \in Listing /\ Fits(L) /\ Matching \subseteq DOMAIN rows /\ left \subseteq Matching
         /\ IsFiniteSet(left) /\ left \in SUBSET Nat /\ IsFiniteSet(Matching)
         /\ page = First(Descending, left, LIMIT) /\ page \subseteq left
         /\ cursor # Nil /\ L.paging \in {"offset", "hasNext"} =>
              left = Matching \ First(Descending, Matching, cursor * LIMIT)
         /\ page # {} =>
              Last(page) \in page /\ \A j \in page : j = Last(page) \/ Precedes(Descending, j, Last(page))
<1>1. phase \in DOMAIN Reads[Client] /\ L.paging = "one" => cursor = Nil
  BY DEF Placed
<1>2. L \in Listing /\ Fits(L) /\ L.paging \in Pagings
  BY <1>1, Accounted DEF L, Listing, Placed
<1>3. Matching \subseteq DOMAIN rows /\ IsFiniteSet(Matching) /\ Matching \in SUBSET Nat
  BY RowsTyped, FS_Subset DEF Matching
<1>4. \A n \in Nat : FromNth(n, Matching) = Matching \ First(Descending, Matching, n)
  BY <1>3, NthIs
<1>5. cursor # Nil => cursor \in Nat /\ cursor * LIMIT \in Nat
  BY Bounds DEF TypeOK
<1>6. left \subseteq Matching
  BY <1>1, <1>2, <1>4, <1>5 DEF Left, Pagings, Placed
<1>7. IsFiniteSet(left) /\ left \in SUBSET Nat
  BY <1>3, <1>6, FS_Subset
<1>8. page = First(Descending, left, LIMIT)
  BY <1>7, NthIs, Bounds DEF PageOf, First
<1>9. page \subseteq left /\ IsFiniteSet(page)
  BY <1>7, <1>8, FS_Subset DEF First
<1>10. ASSUME page # {}
       PROVE  Last(page) \in page
              /\ \A j \in page : j = Last(page) \/ Precedes(Descending, j, Last(page))
  <2>1. \E i \in page : \A j \in page : j = i \/ Precedes(Descending, j, i)
    BY <1>7, <1>9, <1>10, LastRow
  <2>2. \E i \in page : \A j \in page : j = i \/ Before(j, i)
    BY <2>1 DEF Before, Precedes
  <2>3. Last(page) \in page /\ \A j \in page : j = Last(page) \/ Before(j, Last(page))
    BY <2>2 DEF Last
  <2> QED
    BY <2>3 DEF Before, Precedes
<1>11. cursor # Nil /\ L.paging \in {"offset", "hasNext"} =>
         left = Matching \ First(Descending, Matching, cursor * LIMIT)
  BY <1>4, <1>5 DEF Left
<1> QED
  BY <1>2, <1>3, <1>6, <1>7, <1>8, <1>9, <1>10, <1>11

----------------------------------------------------------------------------
\* Types, the rows and the place of the fetch

Shape == TypeOK /\ Listed /\ Placed /\ LevelRead
Progress ==
  /\ pc \in {"next", "holdings", "pair", "page", "done", "failed"}
  /\ phase \in 1..(Len(Reads[Client]) + 1)
  /\ todo \in SUBSET Pairs /\ pair \in Pairs \cup {Nil}
  /\ win \in Nat /\ until \in T0..clock /\ cursor \in Nat \cup {Nil}
  /\ attempt \in 0..MAX_RETRIES /\ (pc \in {"next", "pair", "done"} => attempt = 0)
  /\ part \in SUBSET DOMAIN rows /\ (pc # "page" => part = {})
  /\ got \in SUBSET DOMAIN rows /\ errors \in 0..MaxErrors

LEMMA ShapeFrom ==
  ASSUME Shape, UNCHANGED <<clock, account, rows, start, verification>>, Progress', Placed'
  PROVE  Shape'
<1>1. Client' = Client
  BY DEF Client
<1>2. TypeOK'
  BY <1>1 DEF Shape, TypeOK, Progress, verification
<1>3. Listed'
  BY DEF Shape, Listed
<1> QED
  BY <1>1, <1>2, <1>3 DEF Shape, LevelRead, verification

LEMMA ShapeInit == ASSUME Init PROVE Shape
<1>1. /\ account \in Account /\ account \in Accounts /\ rows = account.rows
      /\ \A i \in DOMAIN rows : rows[i].at <= T0 /\ \A j \in i..Len(rows) : rows[i].at <= rows[j].at
  BY AccountsAssumption DEF Init, Client
<1>2. /\ account.since \in Nat \cup {Nil} /\ rows \in Seq(Row) /\ level \in Levels
      /\ granted \in Grants /\ toVerify \subseteq Calls
  BY <1>1 DEF Account, Init, Levels
<1>3. start \in Nat
  BY <1>2, Bounds DEF Init
<1>4. Client \in Clients
  BY <1>1 DEF Client, Account
<1>5. Len(Reads[Client]) \in Nat
  BY <1>4, ListingsFit DEF AllFit
<1>6. TypeOK
  <2>1. phase \in 1..(Len(Reads[Client]) + 1)
    BY <1>5 DEF Init
  <2>2. /\ todo \in SUBSET Pairs /\ pair \in Pairs \cup {Nil} /\ win \in Nat /\ clock \in T0..MaxTime
        /\ until \in T0..clock /\ attempt \in 0..MAX_RETRIES /\ errors \in 0..MaxErrors
    BY <1>3, Bounds DEF Init
  <2> QED
    BY <1>1, <1>2, <1>3, <2>1, <2>2 DEF TypeOK, Init
<1>7. Listed
  BY <1>1 DEF Listed, Init
<1>8. Placed
  BY DEF Placed, Init
<1>9. LevelRead
  BY DEF LevelRead, Init
<1> QED
  BY <1>6, <1>7, <1>8, <1>9 DEF Shape

\* A listing is opened at the start.
LEMMA ShapeOpens ==
  ASSUME Shape, UNCHANGED outside, UNCHANGED <<attempt, part, got, passed>>, Open,
         pc \in {"next", "pair"}, phase \in DOMAIN Reads[Client], pc' \in {"next", "pair", "page"},
         phase' \in {phase, phase + 1}, todo' \in SUBSET Pairs, pair' \in Pairs \cup {Nil},
         pc' = "page" => phase' = phase /\ (L.scope # "account" => pair' \in Pairs),
         pc' = "pair" => phase' = phase /\ L.scope # "account"
  PROVE  Shape'
<1>1. Client' = Client /\ (phase' = phase => L' = L) /\ DOMAIN Reads[Client] = 1..Len(Reads[Client])
      /\ Len(Reads[Client]) \in Nat
  BY Accounted DEF Client, L, Shape, outside
<1>2. Progress'
  BY <1>1, Bounds DEF Shape, TypeOK, Progress, Open, outside
<1>3. Placed'
  <2>1. start \in Nat /\ start = start + 0 * (WINDOW + 1) /\ 0 \in 0..start
    BY Bounds DEF Shape, TypeOK
  <2>2. win' = start' /\ start' = start
    BY DEF Open, outside
  <2> QED
    BY <1>1, <2>1, <2>2 DEF Placed, Open
<1> QED
  BY <1>2, <1>3, ShapeFrom DEF outside

LEMMA OpensListing == ASSUME Shape, OpenListing PROVE Shape'
<1>1. /\ phase' \in {phase, phase + 1} /\ pc' \in {"next", "page"} /\ (pc' = "page" => phase' = phase)
      /\ todo' = todo /\ pair' = pair /\ Open /\ pc = "next" /\ L.scope = "account"
      /\ phase \in DOMAIN Reads[Client]
      /\ UNCHANGED outside /\ UNCHANGED <<attempt, part, got, passed>>
  BY DEF OpenListing, Reading
<1>2. todo' \in SUBSET Pairs /\ pair' \in Pairs \cup {Nil}
  BY <1>1 DEF Shape, TypeOK
<1> QED
  BY <1>1, <1>2, ShapeOpens

LEMMA OpensPair == ASSUME Shape, NEW c \in Pairs, OpenPair(c) PROVE Shape'
<1>1. /\ phase' = phase /\ pc' \in {"pair", "page"} /\ todo' = todo \ {c} /\ pair' = c /\ Open
      /\ pc = "pair" /\ UNCHANGED outside /\ UNCHANGED <<attempt, part, got, passed>>
  BY DEF OpenPair
<1>2. phase \in DOMAIN Reads[Client] /\ L.scope # "account"
  BY <1>1 DEF Shape, Placed
<1>3. todo' \in SUBSET Pairs /\ pair' \in Pairs
  BY <1>1 DEF Shape, TypeOK
<1> QED
  BY <1>1, <1>2, <1>3, ShapeOpens

\* The steps between the listings, and the errors.
LEMMA ShapeMoves ==
  ASSUME Shape,
         \/ NotImplemented \/ NoApiKey \/ AskHoldings \/ ReadHoldings \/ NoPairLeft \/ Finish
         \/ AnswerNoList \/ \E e \in Errors : Retry(e) \/ PassOver(e) \/ FailFetch(e)
  PROVE  Shape'
<1>1. UNCHANGED <<clock, account, rows, start, verification, win, until, cursor, pair>>
      /\ Client' = Client /\ (phase' = phase => L' = L)
  BY DEF NotImplemented, NoApiKey, AskHoldings, ReadHoldings, NoPairLeft, Finish, AnswerNoList,
     Retry, PassOver, FailFetch, Erring, outside, Client, L
<1>2. DOMAIN Reads[Client] = 1..Len(Reads[Client]) /\ Len(Reads[Client]) \in Nat
      /\ \A listing : Asked(listing) \in SUBSET Pairs
  BY Accounted, Bounds DEF Shape, Asked, Pairs
<1>3. Progress' /\ Placed'
  <2>1. CASE NotImplemented
    BY <1>1, <1>2, <2>1, Bounds DEF NotImplemented, Shape, TypeOK, Progress, Placed, outside
  <2>2. CASE NoApiKey
    BY <1>1, <1>2, <2>2, Bounds DEF NoApiKey, Shape, TypeOK, Progress, Placed, outside
  <2>3. CASE AskHoldings
    BY <1>1, <1>2, <2>3, Bounds DEF AskHoldings, Reading, Shape, TypeOK, Progress, Placed, outside
  <2>4. CASE ReadHoldings
    BY <1>1, <1>2, <2>4, Bounds DEF ReadHoldings, Shape, TypeOK, Progress, Placed, outside
  <2>5. CASE NoPairLeft
    BY <1>1, <1>2, <2>5, Bounds DEF NoPairLeft, Shape, TypeOK, Progress, Placed, outside
  <2>6. CASE Finish
    BY <1>1, <1>2, <2>6, Bounds DEF Finish, Reading, Shape, TypeOK, Progress, Placed, outside
  <2>7. CASE AnswerNoList
    BY <1>1, <1>2, <2>7, Bounds DEF AnswerNoList, Shape, TypeOK, Progress, Placed
  <2>8. ASSUME NEW e \in Errors, Retry(e) PROVE Progress' /\ Placed'
    BY <1>1, <1>2, <2>8, Bounds DEF Retry, TriedAgain, Erring, Shape, TypeOK, Progress, Placed
  <2>9. ASSUME NEW e \in Errors, PassOver(e) PROVE Progress' /\ Placed'
    BY <1>1, <1>2, <2>9, Bounds DEF PassOver, Erring, Shape, TypeOK, Progress, Placed
  <2>10. ASSUME NEW e \in Errors, FailFetch(e) PROVE Progress' /\ Placed'
    BY <1>1, <1>2, <2>10, Bounds DEF FailFetch, Erring, Shape, TypeOK, Progress, Placed
  <2> QED
    BY <2>1, <2>2, <2>3, <2>4, <2>5, <2>6, <2>7, <2>8, <2>9, <2>10
<1> QED
  BY <1>1, <1>3, ShapeFrom

\* The calls of verifyPermission leave the fetch as it is.
LEMMA VerifiedApart ==
  ASSUME Verify
  PROVE  UNCHANGED <<clock, account, rows, errors, fetching>>
BY DEF Verify, ReadGrants, StoreLevel, Regrant

LEMMA ShapeVerified == ASSUME Shape, Verify PROVE Shape'
<1>1. /\ UNCHANGED <<clock, account, rows, errors, fetching>>
      /\ Client' = Client /\ L' = L /\ Client \in Clients
      /\ account.regrants \in SUBSET Grants /\ granted \in Grants
      /\ toVerify \subseteq Calls /\ readings \subseteq Reply /\ level \in Levels
      /\ outdated \in BOOLEAN
  BY VerifiedApart, Accounted DEF fetching, Client, L, Shape, TypeOK
<1>2. /\ granted' \in Grants /\ toVerify' \subseteq Calls /\ readings' \subseteq Reply
      /\ level' \in Levels /\ outdated' \in BOOLEAN /\ LevelRead'
  <2>1. ASSUME NEW call \in Calls, ReadGrants(call)
        PROVE  /\ granted' \in Grants /\ toVerify' \subseteq Calls /\ readings' \subseteq Reply
               /\ level' \in Levels /\ outdated' \in BOOLEAN /\ LevelRead'
    <3>1. PICK answer \in {"UNKNOWN", Level(Client, granted)} :
            readings' = readings \cup {[by |-> call, level |-> answer, old |-> FALSE]}
      BY <2>1 DEF ReadGrants
    <3>2. answer \in Levels
      BY <1>1, LevelsSound DEF Levels, Grants
    <3>3. [by |-> call, level |-> answer, old |-> FALSE] \in Reply
      BY <3>2 DEF Reply
    <3>4. readings' \subseteq Reply /\ UNCHANGED <<granted, level, outdated>> /\ toVerify' \subseteq Calls
      BY <1>1, <2>1, <3>1, <3>3 DEF ReadGrants
    <3>5. LevelRead'
      BY <1>1, <3>1, <3>4 DEF LevelRead, Shape
    <3> QED
      BY <1>1, <3>4, <3>5
  <2>2. ASSUME NEW r \in readings, StoreLevel(r)
        PROVE  /\ granted' \in Grants /\ toVerify' \subseteq Calls /\ readings' \subseteq Reply
               /\ level' \in Levels /\ outdated' \in BOOLEAN /\ LevelRead'
    <3>1. /\ readings' \subseteq readings /\ level' = r.level /\ outdated' = r.old
          /\ UNCHANGED <<granted, toVerify>>
      BY <2>2 DEF StoreLevel
    <3>2. r.level \in Levels /\ r.old \in BOOLEAN
      BY <1>1 DEF Reply
    <3>3. LevelRead'
      BY <1>1, <3>1 DEF LevelRead, Shape
    <3> QED
      BY <1>1, <3>1, <3>2, <3>3
  <2>3. ASSUME NEW g \in Grants, Regrant(g)
        PROVE  /\ granted' \in Grants /\ toVerify' \subseteq Calls /\ readings' \subseteq Reply
               /\ level' \in Levels /\ outdated' \in BOOLEAN /\ LevelRead'
    <3>1. /\ granted' = g /\ outdated' = TRUE /\ UNCHANGED <<toVerify, level>>
          /\ readings' = {[r EXCEPT !.old = TRUE] : r \in readings}
      BY <2>3 DEF Regrant
    <3>2. \A r \in readings : [r EXCEPT !.old = TRUE] \in Reply /\ [r EXCEPT !.old = TRUE].old
      BY <1>1 DEF Reply
    <3>3. readings' \subseteq Reply /\ LevelRead'
      BY <3>1, <3>2 DEF LevelRead
    <3> QED
      BY <1>1, <3>1, <3>3
  <2> QED
    BY <2>1, <2>2, <2>3 DEF Verify
<1>3. TypeOK'
  BY <1>1, <1>2 DEF fetching, Shape, TypeOK
<1>4. Listed' /\ Placed'
  BY <1>1 DEF fetching, Shape, Listed, Placed
<1> QED
  BY <1>2, <1>3, <1>4 DEF Shape

\* A row that arrives is the last, and of the time its fetch runs in.
LEMMA Arrives ==
  ASSUME Shape, Arrive
  PROVE  /\ clock' \in clock..MaxTime /\ clock' >= T0 /\ rows' \in Seq(Row)
         /\ Len(rows') = Len(rows) + 1 /\ DOMAIN rows' = DOMAIN rows \cup {Len(rows) + 1}
         /\ \A i \in DOMAIN rows : rows'[i] = rows[i]
         /\ rows'[Len(rows) + 1].at = clock'
         /\ UNCHANGED <<account, errors, verification, fetching>> /\ Client' = Client /\ L' = L
<1>1. rows \in Seq(Row) /\ clock \in T0..MaxTime /\ account.late \in Row \cup {Nil}
  BY Accounted DEF Shape, TypeOK, Account
<1>2. account.late \in Row /\ clock' \in clock..MaxTime /\ clock' \in Nat
  BY <1>1, Bounds DEF Arrive
<1> DEFINE row == [account.late EXCEPT !.at = clock']
<1>3. row \in Row /\ row.at = clock'
  BY <1>2 DEF Row
<1>4. rows' = Append(rows, row)
  BY DEF Arrive
<1> HIDE DEF row
<1>5. /\ rows' \in Seq(Row) /\ Len(rows') = Len(rows) + 1
      /\ DOMAIN rows' = DOMAIN rows \cup {Len(rows) + 1}
      /\ \A i \in DOMAIN rows : rows'[i] = rows[i]
      /\ rows'[Len(rows) + 1] = row
  BY <1>1, <1>3, <1>4
<1>6. UNCHANGED <<account, errors, verification, fetching>> /\ Client' = Client /\ L' = L
  BY DEF Arrive, Client, L, fetching
<1> QED
  BY <1>1, <1>2, <1>3, <1>5, <1>6, Bounds

LEMMA ShapeArrives == ASSUME Shape, Arrive PROVE Shape'
<1>1. /\ clock' \in clock..MaxTime /\ clock' >= T0 /\ rows' \in Seq(Row)
      /\ Len(rows') = Len(rows) + 1 /\ DOMAIN rows' = DOMAIN rows \cup {Len(rows) + 1}
      /\ \A i \in DOMAIN rows : rows'[i] = rows[i]
      /\ rows'[Len(rows) + 1].at = clock'
      /\ UNCHANGED <<account, errors, verification, fetching>> /\ Client' = Client /\ L' = L
  BY Arrives
<1>2. TypeOK'
  BY <1>1, Bounds DEF Shape, TypeOK, fetching, verification
<1>3. Listed'
  <2>1. ASSUME NEW i \in DOMAIN rows'
        PROVE  rows'[i].at <= clock' /\ \A j \in i..Len(rows') : rows'[i].at <= rows'[j].at
    <3>1. \A k \in DOMAIN rows : rows[k].at \in Nat /\ rows[k].at <= clock
      BY RowsTyped DEF Shape, Listed
    <3>2. clock \in Nat /\ clock' \in Nat /\ clock <= clock' /\ Len(rows) \in Nat
          /\ DOMAIN rows = 1..Len(rows)
      BY <1>1, RowsTyped, Bounds DEF Shape, TypeOK
    <3>3. CASE i \in DOMAIN rows
      <4>1. rows'[i].at <= clock'
        BY <1>1, <3>1, <3>2, <3>3
      <4>2. ASSUME NEW j \in i..Len(rows') PROVE rows'[i].at <= rows'[j].at
        <5>1. j \in DOMAIN rows \/ j = Len(rows) + 1
          BY <1>1, <3>2, <3>3
        <5>2. j \in DOMAIN rows => j \in i..Len(rows)
          BY <3>2, <3>3
        <5> QED
          BY <1>1, <3>3, <4>1, <5>1, <5>2 DEF Shape, Listed
      <4> QED
        BY <4>1, <4>2
    <3>4. CASE i = Len(rows) + 1
      BY <1>1, <3>2, <3>4
    <3> QED
      BY <1>1, <3>3, <3>4
  <2> QED
    BY <1>1, <2>1 DEF Shape, Listed, fetching
<1>4. Placed' /\ LevelRead'
  BY <1>1 DEF Shape, Placed, LevelRead, fetching, verification
<1> QED
  BY <1>2, <1>3, <1>4 DEF Shape

\* What a page that is answered leaves.
LEMMA ShapeAnswered == ASSUME Shape, Answer PROVE Shape'
<1>1. PICK left, page, more :
        /\ left = Left(Matching) /\ page = PageOf(left) /\ more = More(left, page)
        /\ NextPage(more, page) \/ NextWindow(more, page) \/ EndListing(more, page)
  BY DEF Answer
<1>2. left = Left(Matching) /\ page = PageOf(left) /\ more = More(left, page) /\ pc = "page"
  BY <1>1 DEF Answer
<1>3. /\ L \in Listing /\ Fits(L) /\ left \subseteq DOMAIN rows
      /\ page \subseteq left /\ page = First(Descending, left, LIMIT)
      /\ IsFiniteSet(left) /\ left \in SUBSET Nat
      /\ page # {} => Last(page) \in page
  BY <1>2, PageIs DEF Shape
<1>4. page \subseteq DOMAIN rows /\ Kept(page) \subseteq DOMAIN rows /\ DOMAIN rows \subseteq Nat
  BY <1>3, RowsTyped DEF Kept, Shape
<1>5. /\ UNCHANGED <<clock, account, rows, start, verification, errors, todo, pair, until>>
      /\ Client' = Client /\ (phase' = phase => L' = L)
  BY <1>1 DEF NextPage, NextWindow, EndListing, Leave, outside, Client, L
<1>6. /\ DOMAIN Reads[Client] = 1..Len(Reads[Client]) /\ Len(Reads[Client]) \in Nat
      /\ phase \in DOMAIN Reads[Client]
  BY <1>2, Accounted DEF Shape, Placed
<1>7. CASE NextPage(more, page)
  <2>1. L.paging # "one" /\ page # {}
    <3>1. more
      BY <1>7 DEF NextPage
    <3>2. page # left \/ Cardinality(page) = LIMIT
      BY <1>2, <1>3, <3>1 DEF More, Listing, Pagings
    <3>3. page # {}
      BY <1>3, <3>2, PageOfAll, FS_EmptySet, Bounds
    <3> QED
      BY <1>2, <1>3, <3>1, <3>3 DEF More
  <2>2. NextCursor(page) \in Nat
    <3>1. Last(page) \in Nat
      BY <1>3, <2>1
    <3>2. cursor \in Nat \cup {Nil}
      BY DEF Shape, TypeOK
    <3> QED
      BY <3>1, <3>2 DEF NextCursor
  <2>3. Progress'
    BY <1>2, <1>4, <1>5, <1>7, <2>2, Bounds DEF NextPage, Shape, TypeOK, Progress, outside
  <2>4. Placed'
    BY <1>2, <1>5, <1>7, <2>1 DEF NextPage, Shape, Placed, outside
  <2> QED
    BY <1>5, <2>3, <2>4, ShapeFrom
<1>8. CASE NextWindow(more, page)
  <2>1. L.windowed /\ win \in Nat /\ until \in Nat /\ start \in Nat /\ NextStart < until
    BY <1>8, Bounds DEF NextWindow, Shape, TypeOK
  <2>2. NextStart = win + (WINDOW + 1)
    BY <2>1, Bounds DEF NextStart, WindowEnd
  <2>3. PICK n \in 0..win : win = start + n * (WINDOW + 1)
    BY <1>2, <2>1 DEF Shape, Placed
  <2>4. n + 1 \in 0..NextStart /\ NextStart = start + (n + 1) * (WINDOW + 1)
    BY <2>1, <2>2, <2>3, Bounds
  <2>5. Progress'
    BY <1>2, <1>4, <1>5, <1>8, <2>1, <2>2, Bounds DEF NextWindow, Shape, TypeOK, Progress, outside
  <2>6. win' = NextStart /\ cursor' = Nil /\ pc' = pc /\ phase' = phase
    BY <1>8 DEF NextWindow
  <2>7. Placed'
    BY <1>2, <1>5, <1>6, <2>1, <2>4, <2>6 DEF Shape, Placed
  <2> QED
    BY <1>5, <2>5, <2>7, ShapeFrom
<1>9. CASE EndListing(more, page)
  <2>1. got \cup (part \cup Kept(page)) \in SUBSET DOMAIN rows
    BY <1>4 DEF Shape, TypeOK
  <2>2. Progress'
    BY <1>2, <1>5, <1>6, <1>9, <2>1, Bounds
       DEF EndListing, Leave, Shape, TypeOK, Progress, outside
  <2>3. Placed'
    BY <1>2, <1>5, <1>6, <1>9 DEF EndListing, Leave, Shape, Placed, outside
  <2> QED
    BY <1>5, <2>2, <2>3, ShapeFrom
<1> QED
  BY <1>1, <1>7, <1>8, <1>9

LEMMA ShapeStep == ASSUME Shape, Next \/ UNCHANGED vars PROVE Shape'
<1>1. CASE UNCHANGED vars
  <2>1. Client' = Client /\ L' = L
    BY <1>1 DEF vars, Client, L
  <2> QED
    BY <1>1, <2>1 DEF vars, verification, Shape, TypeOK, Listed, Placed, LevelRead
<1> QED
  BY <1>1, OpensListing, OpensPair, ShapeMoves, ShapeVerified, ShapeArrives, ShapeAnswered
     DEF Next, Step

----------------------------------------------------------------------------
\* Times

LEMMA DivisionGrows ==
  ASSUME NEW a \in Nat, NEW b \in Nat, NEW k \in Nat \ {0}, a <= b
  PROVE  a \div k <= b \div k /\ a \div k \in Nat /\ b \div k \in Nat
OBVIOUS

LEMMA ToldGrows ==
  ASSUME NEW listing \in Listing, NEW a \in Nat, NEW b \in Nat, a <= b
  PROVE  Told(a, listing) <= Told(b, listing)
<1>1. Ticks(listing) \in Nat \ {0}
  BY Bounds DEF Ticks, Listing
<1> QED
  BY <1>1, DivisionGrows DEF Told

LEMMA FromIs ==
  ASSUME TypeOK, NEW listing \in Listing
  PROVE  From(listing) \in Nat /\ (listing.from = "start" => From(listing) = start)
BY Accounted DEF From, Listing, TypeOK

\* A row of the listing that is read, and within its window, matches.
Current(i) == L.scope # "account" => PairOf(rows[i], L) = pair
WantedMatch ==
  \A i \in DOMAIN rows :
    Wanted(phase, i) /\ Current(i) /\ (L.windowed => win <= rows[i].at /\ rows[i].at <= WindowEnd) =>
      i \in Matching

LEMMA WantedRowsMatch == Shape /\ pc = "page" => WantedMatch
<1> SUFFICES ASSUME Shape, pc = "page", NEW i \in DOMAIN rows, Wanted(phase, i), Current(i),
                    L.windowed => win <= rows[i].at /\ rows[i].at <= WindowEnd
             PROVE  i \in Matching
  BY DEF WantedMatch
<1>1. L \in Listing /\ Fits(L) /\ L = Reads[Client][phase]
  BY Accounted DEF Shape, Placed, L
<1>2. rows[i].at \in Nat /\ win \in Nat /\ From(L) \in Nat /\ until \in Nat /\ until >= T0
      /\ WindowEnd \in Nat
  BY <1>1, RowsTyped, FromIs, Bounds DEF Shape, TypeOK, WindowEnd
<1>3. rows[i].kind \in L.shown /\ From(L) <= rows[i].at /\ rows[i].at < T0
  BY <1>1 DEF Wanted, Fits
<1>4. Told(rows[i].at, L) >= Told(IF L.windowed THEN win ELSE From(L), L)
  <2>1. \A t \in Nat : t <= rows[i].at => Told(t, L) <= Told(rows[i].at, L)
    BY <1>1, <1>2, ToldGrows
  <2>2. \A t \in Nat : Told(t, L) \in Nat
    BY <1>1, Bounds DEF Told, Ticks, Listing
  <2> QED
    BY <1>2, <1>3, <2>1, <2>2
<1>5. Told(rows[i].at, L) <= Told(WindowEnd, L)
  <2>1. rows[i].at <= WindowEnd
    BY <1>2, <1>3, Bounds DEF WindowEnd
  <2> QED
    BY <1>1, <1>2, <2>1, ToldGrows
<1> QED
  BY <1>3, <1>4, <1>5 DEF Matching, Matches, Current

LEMMA WindowOf ==
  ASSUME NEW a \in Nat, NEW w \in Nat, NEW n \in Nat, n * (w + 1) <= a, a <= n * (w + 1) + w
  PROVE  a \div (w + 1) = n
<1> DEFINE k == w + 1
<1> DEFINE q == a \div k
<1>1. k \in Nat \ {0} /\ q \in Nat /\ k * q <= a /\ a < k * q + k
  OBVIOUS
<1>2. n * k <= a /\ a < n * k + k
  OBVIOUS
<1> HIDE DEF k, q
<1>3. ASSUME q < n PROVE FALSE
  <2>1. q + 1 <= n
    BY <1>1, <1>3
  <2>2. k * (q + 1) <= k * n
    BY <1>1, <2>1
  <2> QED
    BY <1>1, <1>2, <2>2
<1>4. ASSUME n < q PROVE FALSE
  <2>1. n + 1 <= q
    BY <1>1, <1>4
  <2>2. k * (n + 1) <= k * q
    BY <1>1, <2>1
  <2> QED
    BY <1>1, <1>2, <2>2
<1>5. q = n
  BY <1>1, <1>3, <1>4
<1> QED
  BY <1>5 DEF q, k

\* What is left of a listing after a cursor.
LeftOf(paging, down, c, ids) ==
  IF c = Nil THEN ids
  ELSE IF paging \in {"offset", "hasNext"} THEN ids \ First(down, ids, c * LIMIT)
  ELSE IF paging = "fromId" THEN {i \in ids : i >= c} ELSE {i \in ids : Precedes(down, c, i)}
WhatIsLeft == Left(Matching) = LeftOf(L.paging, Descending, cursor, Matching)

LEMMA LeftIs == Shape /\ pc = "page" => WhatIsLeft
<1> SUFFICES ASSUME Shape, pc = "page" PROVE WhatIsLeft
  OBVIOUS
<1>1. L \in Listing /\ (cursor # Nil /\ L.paging \in {"offset", "hasNext"} =>
        Left(Matching) = Matching \ First(Descending, Matching, cursor * LIMIT))
  BY PageIs DEF Shape
<1>2. L.paging = "one" => cursor = Nil
  BY DEF Shape, Placed
<1>3. cursor = Nil => Left(Matching) = Matching
  BY DEF Left
<1>4. \A i, j : Before(i, j) = Precedes(Descending, i, j)
  BY NthIs
<1>5. cursor # Nil /\ L.paging = "fromId" => Left(Matching) = {i \in Matching : i >= cursor}
  BY DEF Left
<1>6. cursor # Nil /\ L.paging \in {"idLessThan", "backwards", "cursor"} =>
        Left(Matching) = {i \in Matching : Precedes(Descending, cursor, i)}
  BY <1>4 DEF Left
<1> QED
  BY <1>1, <1>2, <1>3, <1>5, <1>6 DEF WhatIsLeft, LeftOf, Listing, Pagings

\* At the start of a listing, or of a window, all of it is due.
AllDue ==
  \A i \in DOMAIN rows :
    Wanted(phase, i) /\ Current(i) /\ (L.windowed => win <= rows[i].at) => Due(i)
LEMMA OpenedIsDue == Shape /\ pc = "page" /\ cursor = Nil => AllDue
<1> SUFFICES ASSUME Shape, pc = "page", cursor = Nil, NEW i \in DOMAIN rows,
                    Wanted(phase, i), Current(i), L.windowed => win <= rows[i].at
             PROVE  Due(i)
  BY DEF AllDue
<1>1. Left(Matching) = Matching
  BY LeftIs DEF WhatIsLeft, LeftOf
<1>2. rows[i].at \in Nat /\ WindowEnd \in Nat
  BY RowsTyped, Bounds DEF Shape, TypeOK, WindowEnd
<1>3. ~ (L.windowed /\ rows[i].at > WindowEnd) => i \in Matching
  BY <1>2, WantedRowsMatch DEF WantedMatch
<1> QED
  BY <1>1, <1>3 DEF Due

----------------------------------------------------------------------------
\* A page

\* All rows of a window of one page, or of a request of one page, are in the
\* answer that the excuse counts.
LEMMA OneAnswer ==
  ASSUME Shape, pc = "page", L.paging = "one", NEW i \in Matching
  PROVE  Matching \subseteq SameAnswer(i, L)
<1>1. L \in Listing /\ Fits(L) /\ cursor = Nil
  BY Accounted DEF Shape, Placed, L
<1>2. /\ win \in Nat /\ start \in Nat /\ until \in Nat /\ WindowEnd \in Nat
      /\ L.windowed => WindowEnd <= win + WINDOW
  BY Bounds DEF Shape, TypeOK, WindowEnd
<1>3. \A t \in Nat : Told(t, L) \in Nat
  BY <1>1, Bounds DEF Told, Ticks, Listing
<1>4. \A a, b \in Nat : a <= b => Told(a, L) <= Told(b, L)
  BY <1>1, ToldGrows
<1>5. From(L) \in Nat /\ (L.windowed => From(L) = start)
  BY <1>1, FromIs DEF Shape, Fits
<1>6. L.windowed => \E n \in 0..win : win = start + n * (WINDOW + 1)
  BY DEF Shape, Placed
<1>7. ASSUME L.windowed PROVE From(L) <= win
  <2>1. PICK n \in 0..win : win = start + n * (WINDOW + 1)
    BY <1>6, <1>7
  <2>2. n * (WINDOW + 1) \in Nat
    BY <2>1, <1>2, Bounds
  <2> QED
    BY <1>2, <1>5, <1>7, <2>1, <2>2
<1>8. ASSUME NEW j \in Matching
      PROVE  /\ j \in DOMAIN rows /\ rows[j].kind \in L.shown /\ rows[j].at \in Nat
             /\ L.scope # "account" => PairOf(rows[j], L) = pair
             /\ L.side = "request" => Told(rows[j].at, L) >= Told(From(L), L)
             /\ L.windowed => \E n \in Nat : /\ win = start + n * (WINDOW + 1)
                                             /\ (rows[j].at - start) \div (WINDOW + 1) = n
  <2>1. Matches(j) /\ j \in DOMAIN rows
    BY DEF Matching
  <2>2. rows[j].at \in Nat
    BY <2>1, RowsTyped DEF Shape
  <2>3. ~ ById
    BY <1>1 DEF ById
  <2>4. L.side = "request" => Told(rows[j].at, L) >= Told(IF L.windowed THEN win ELSE From(L), L)
    BY <2>1, <2>3 DEF Matches
  <2>5. L.side = "request" => Told(rows[j].at, L) >= Told(From(L), L)
    <3>1. L.windowed => Told(From(L), L) <= Told(win, L)
      BY <1>2, <1>4, <1>5, <1>7
    <3> QED
      BY <1>2, <1>3, <1>5, <2>2, <2>4, <3>1
  <2>6. ASSUME L.windowed
        PROVE  \E n \in Nat : /\ win = start + n * (WINDOW + 1)
                              /\ (rows[j].at - start) \div (WINDOW + 1) = n
    <3>1. PICK n \in 0..win : win = start + n * (WINDOW + 1)
      BY <1>6, <2>6
    <3>2. L.side = "request" /\ L.upto /\ L.unit = "ms"
      BY <1>1, <2>6 DEF Fits
    <3>3. \A t \in Nat : Told(t, L) = t
      BY <3>2 DEF Told, Ticks
    <3>4. win <= rows[j].at /\ rows[j].at <= WindowEnd
      BY <1>2, <2>1, <2>2, <2>4, <2>6, <3>2, <3>3 DEF Matches
    <3>5. n * (WINDOW + 1) \in Nat /\ n \in Nat
      BY <1>2, <3>1, Bounds
    <3>6. rows[j].at - start \in Nat /\ n * (WINDOW + 1) <= rows[j].at - start
          /\ rows[j].at - start <= n * (WINDOW + 1) + WINDOW
      BY <1>2, <2>2, <2>6, <3>1, <3>4, <3>5, Bounds
    <3>7. (rows[j].at - start) \div (WINDOW + 1) = n
      BY <3>5, <3>6, WindowOf, Bounds
    <3> QED
      BY <3>1, <3>5, <3>7
  <2> QED
    BY <2>1, <2>2, <2>5, <2>6 DEF Matches
<1>9. ASSUME NEW j \in Matching, L.windowed
      PROVE  (rows[j].at - start) \div (WINDOW + 1) = (rows[i].at - start) \div (WINDOW + 1)
  <2>1. PICK n \in Nat : /\ win = start + n * (WINDOW + 1)
                         /\ (rows[j].at - start) \div (WINDOW + 1) = n
    BY <1>8, <1>9
  <2>2. PICK m \in Nat : /\ win = start + m * (WINDOW + 1)
                         /\ (rows[i].at - start) \div (WINDOW + 1) = m
    BY <1>8, <1>9
  <2>3. ASSUME NEW s \in Nat, NEW k \in Nat \ {0}, s + n * k = s + m * k PROVE n = m
    BY <2>3
  <2>4. n = m
    <3>1. start \in Nat /\ WINDOW + 1 \in Nat \ {0}
      BY <1>2, Bounds
    <3>2. start + n * (WINDOW + 1) = start + m * (WINDOW + 1)
      BY <2>1, <2>2
    <3> QED
      BY <2>3, <3>1, <3>2
  <2> QED
    BY <2>1, <2>2, <2>4
<1> QED
  BY <1>8, <1>9 DEF SameAnswer

\* A wanted row that a last page does not show is excused.
LEMMA LastPageShows ==
  ASSUME Shape, pc = "page", NEW left, left = Left(Matching), NEW page, page = PageOf(left),
         ~ More(left, page), NEW i \in left, i \notin page, Wanted(phase, i)
  PROVE  Excused(phase, i)
<1>1. /\ L \in Listing /\ Fits(L) /\ left \subseteq Matching /\ Matching \subseteq DOMAIN rows
      /\ IsFiniteSet(left) /\ left \in SUBSET Nat /\ IsFiniteSet(Matching)
      /\ page = First(Descending, left, LIMIT) /\ page \subseteq left
      /\ page # {} => Last(page) \in page
  BY PageIs DEF Shape
<1>2. Cardinality(page) = LIMIT /\ page # {} /\ \A j \in page : Precedes(Descending, j, i)
  BY <1>1, PageOfAll, Bounds
<1>3. L.paging \notin {"fromId", "idLessThan", "offset", "cursor", "hasNext"}
  BY <1>2 DEF More
<1>4. CASE L.paging = "one"
  <2>1. Matching \subseteq SameAnswer(i, L)
    BY <1>1, <1>4, OneAnswer
  <2>2. page \cup {i} \subseteq SameAnswer(i, L)
    BY <1>1, <2>1
  <2>3. IsFiniteSet(SameAnswer(i, L))
    <3>1. SameAnswer(i, L) \subseteq DOMAIN rows
      BY DEF SameAnswer
    <3> QED
      BY <3>1, RowsTyped, FS_Subset DEF Shape
  <2>4. IsFiniteSet(page) /\ Cardinality(page \cup {i}) = LIMIT + 1
    <3>1. IsFiniteSet(page)
      BY <1>1, FS_Subset
    <3> QED
      BY <1>2, <3>1, FS_AddElement
  <2>5. Cardinality(page \cup {i}) <= Cardinality(SameAnswer(i, L))
    BY <2>2, <2>3, FS_Subset
  <2>6. Cardinality(SameAnswer(i, L)) \in Nat
    BY <2>3, FS_CardinalityType
  <2>7. Cardinality(SameAnswer(i, L)) > LIMIT
    BY <2>4, <2>5, <2>6, Bounds
  <2> QED
    BY <1>4, <2>7 DEF Excused, L
<1>5. CASE L.paging = "backwards"
  <2>1. Last(page) \in page /\ rows[Last(page)].at < start
    <3>1. Last(page) \in page /\ Last(page) \in DOMAIN rows
      BY <1>1, <1>2
    <3>2. rows[Last(page)].at \in Nat /\ start \in Nat
      BY <3>1, RowsTyped DEF Shape, TypeOK
    <3> QED
      BY <1>2, <1>5, <3>1, <3>2 DEF More
  <2>2. Precedes(TRUE, Last(page), i)
    BY <1>2, <1>5, <2>1 DEF Descending, Precedes
  <2>3. i \in DOMAIN rows /\ Last(page) \in i..Len(rows)
    BY <1>1, <2>1, <2>2, RowsTyped DEF Precedes, Shape
  <2>4. rows[i].at <= rows[Last(page)].at
    BY <2>3 DEF Shape, Listed
  <2>5. rows[i].at >= start
    BY <1>1, <1>5, FromIs DEF Wanted, Fits, Shape, L
  <2>6. rows[i].at \in Nat /\ rows[Last(page)].at \in Nat /\ start \in Nat
    BY <1>1, <2>1, <2>3, RowsTyped DEF Shape, TypeOK
  <2> QED
    BY <2>1, <2>4, <2>5, <2>6
<1> QED
  BY <1>1, <1>3, <1>4, <1>5 DEF Listing, Pagings

\* A row that a page does not show is left for the next.
LEMMA NextPageHas ==
  ASSUME Shape, pc = "page", NEW left, left = Left(Matching), NEW page, page = PageOf(left),
         NEW more, more = More(left, page), NextPage(more, page), NEW i \in left, i \notin page
  PROVE  Due(i)'
<1>1. /\ L \in Listing /\ Fits(L) /\ left \subseteq Matching /\ Matching \subseteq DOMAIN rows
      /\ IsFiniteSet(left) /\ left \in SUBSET Nat
      /\ IsFiniteSet(Matching) /\ Matching \in SUBSET Nat
      /\ page = First(Descending, left, LIMIT) /\ page \subseteq left
      /\ page # {} => Last(page) \in page
      /\ cursor # Nil /\ L.paging \in {"offset", "hasNext"} =>
           left = Matching \ First(Descending, Matching, cursor * LIMIT)
  BY PageIs, RowsTyped DEF Shape
<1>2. page # {} /\ \A j \in page : Precedes(Descending, j, i)
  BY <1>1, PageOfAll, Bounds
<1>3. /\ UNCHANGED <<pc, phase, todo, pair, win, until, clock, account, rows, start>>
      /\ cursor' = NextCursor(page) /\ more
  BY DEF NextPage, outside
<1>4. Client' = Client /\ L' = L /\ Descending' = Descending
  BY <1>3 DEF Client, L, Descending
<1>5. Shape' /\ WhatIsLeft'
  <2>1. Shape'
    BY ShapeAnswered DEF Answer
  <2>2. (Shape /\ pc = "page" => WhatIsLeft)'
    BY LeftIs, PTL
  <2> QED
    BY <1>3, <2>1, <2>2
<1>6. Matching \subseteq Matching' /\ (L.paging \in {"offset", "hasNext"} => Matching' = Matching)
  <2>1. L.paging \in {"fromId", "idLessThan"} => cursor' # Nil
    <3>1. Last(page) \in Nat
      BY <1>1, <1>2
    <3> QED
      BY <1>3, <3>1, Bounds DEF NextCursor
  <2>2. (ById => ById') /\ (L.paging \in {"offset", "hasNext"} => ~ ById /\ ~ ById')
    BY <1>4, <2>1 DEF ById
  <2>3. WindowEnd' = WindowEnd /\ From(L)' = From(L)
    BY <1>3, <1>4 DEF WindowEnd, From, Since
  <2>4. ASSUME NEW j \in DOMAIN rows
        PROVE  /\ Matches(j) => Matches(j)'
               /\ L.paging \in {"offset", "hasNext"} => Matches(j)' = Matches(j)
    BY <1>3, <1>4, <2>2, <2>3 DEF Matches, Told, Ticks
  <2> QED
    BY <1>3, <2>4 DEF Matching
<1>7. i \in LeftOf(L.paging, Descending, cursor', Matching')
  <2>1. Last(page) \in Nat /\ i \in Nat /\ i \in Matching' /\ Precedes(Descending, Last(page), i)
    BY <1>1, <1>2, <1>6
  <2>2. CASE L.paging = "one"
    BY <1>3, <2>2 DEF More
  <2>3. CASE L.paging = "fromId"
    <3>1. ~ Descending
      BY <2>3 DEF Descending
    <3>2. cursor' = Last(page) + 1 /\ cursor' # Nil
      BY <1>3, <2>1, <2>3, Bounds DEF NextCursor
    <3> QED
      BY <2>1, <2>3, <3>1, <3>2 DEF LeftOf, Precedes
  <2>4. CASE L.paging \in {"idLessThan", "backwards", "cursor"}
    <3>1. cursor' = Last(page) /\ cursor' # Nil
      BY <1>3, <2>1, <2>4, Bounds DEF NextCursor
    <3> QED
      BY <2>1, <2>4, <3>1 DEF LeftOf
  <2>5. CASE L.paging \in {"offset", "hasNext"}
    <3> DEFINE n == IF cursor = Nil THEN 0 ELSE cursor
    <3>1. n \in Nat /\ cursor' = n + 1 /\ cursor' # Nil /\ cursor' \in Nat
          /\ n * LIMIT \in Nat /\ cursor' * LIMIT = n * LIMIT + LIMIT
      <4>1. cursor \in Nat \cup {Nil} /\ cursor' = (IF cursor = Nil THEN 1 ELSE cursor + 1)
        BY <1>3, <2>5 DEF NextCursor, Shape, TypeOK
      <4>2. n \in Nat /\ cursor' = n + 1
        BY <4>1
      <4>3. \A k \in Nat : k * LIMIT \in Nat /\ (k + 1) * LIMIT = k * LIMIT + LIMIT /\ k + 1 # Nil
        BY Bounds
      <4> HIDE DEF n
      <4> QED
        BY <4>2, <4>3
    <3>2. First(Descending, Matching, 0) = {}
      <4>1. \A j \in Matching : Rank(Descending, Matching, j) \in Nat
        BY <1>1, Ranked
      <4> QED
        BY <4>1 DEF First
    <3>3. left = Matching \ First(Descending, Matching, n * LIMIT)
      <4>1. CASE cursor = Nil
        <5>1. left = Matching
          BY <4>1 DEF Left
        <5>2. n * LIMIT = 0
          BY <4>1, Bounds
        <5> QED
          BY <3>2, <5>1, <5>2
      <4> QED
        BY <1>1, <2>5, <4>1
    <3> HIDE DEF n
    <3>4. Rank(Descending, Matching, i) >= n * LIMIT + LIMIT
      BY <1>1, <3>1, <3>3, PageOfRest, Bounds
    <3>5. Rank(Descending, Matching, i) \in Nat
      BY <1>1, Ranked
    <3>6. i \notin First(Descending, Matching, cursor' * LIMIT)
      BY <3>1, <3>4, <3>5, Bounds DEF First
    <3>7. Matching' = Matching
      BY <1>6, <2>5
    <3> QED
      BY <2>1, <2>5, <3>1, <3>6, <3>7 DEF LeftOf
  <2> QED
    BY <1>1, <2>2, <2>3, <2>4, <2>5 DEF Listing, Pagings
<1>8. i \in Left(Matching)'
  BY <1>4, <1>5, <1>7 DEF WhatIsLeft
<1> QED
  BY <1>8 DEF Due

----------------------------------------------------------------------------
\* Rows that have been handed over

Hands == EarlierHanded /\ DoneHanded /\ PairsHanded /\ PageHanded

LEMMA HandedStays ==
  ASSUME UNCHANGED <<account, rows, start>>, passed \subseteq passed', NEW p, NEW i
  PROVE  /\ Client' = Client /\ Wanted(p, i)' = Wanted(p, i) /\ (Excused(p, i) => Excused(p, i)')
         /\ got \subseteq got' /\ Handed(p, i) => Handed(p, i)'
<1>1. Client' = Client /\ \A listing : From(listing)' = From(listing)
  BY DEF Client, From, Since
<1>2. Wanted(p, i)' = Wanted(p, i)
  BY <1>1 DEF Wanted
<1>3. \A listing : SameAnswer(i, listing)' = SameAnswer(i, listing)
  BY <1>1 DEF SameAnswer, Told, Ticks, PairOf
<1>4. Excused(p, i) => Excused(p, i)'
  BY <1>1, <1>3 DEF Excused, Unasked, PairOf
<1> QED
  BY <1>1, <1>2, <1>4 DEF Handed

\* A wanted row lies between the start and the time the fetch began.
LEMMA WantedWhen ==
  ASSUME Shape, NEW p \in DOMAIN Reads[Client], NEW i \in DOMAIN rows, Wanted(p, i)
  PROVE  /\ rows[i].at \in Nat /\ rows[i].at < T0 /\ T0 <= clock /\ T0 \in Nat /\ clock \in Nat
         /\ start \in Nat /\ rows[i].coin \in Coins
         /\ Reads[Client][p].windowed => start <= rows[i].at
<1>1. Reads[Client][p] \in Listing /\ Fits(Reads[Client][p])
  BY Accounted DEF Shape
<1>2. From(Reads[Client][p]) \in Nat
      /\ (Reads[Client][p].windowed => From(Reads[Client][p]) = start)
  BY <1>1, FromIs DEF Shape, Fits
<1>3. rows[i].at \in Nat /\ rows[i].coin \in Coins
  BY RowsTyped DEF Shape
<1> QED
  BY <1>2, <1>3, Bounds DEF Wanted, Shape, TypeOK

LEMMA HandsInit == ASSUME Init PROVE Hands
<1>1. DOMAIN Reads[Client] = 1..Len(Reads[Client]) /\ phase = 1 /\ pc = "next"
  BY ShapeInit, Accounted DEF Shape, Init
<1> QED
  BY <1>1 DEF Hands, EarlierHanded, DoneHanded, PairsHanded, PageHanded

LEMMA OpenedHands == Shape /\ pc = "page" /\ cursor = Nil /\ win = start => PageHanded
<1> SUFFICES ASSUME Shape, pc = "page", cursor = Nil, win = start, NEW i \in DOMAIN rows,
                    Wanted(phase, i), Current(i)
             PROVE  Due(i)
  BY DEF PageHanded, Current
<1>1. phase \in DOMAIN Reads[Client] /\ L = Reads[Client][phase]
  BY DEF Shape, Placed, L
<1>2. L.windowed => win <= rows[i].at
  BY <1>1, WantedWhen
<1> QED
  BY <1>2, OpenedIsDue DEF AllDue

LEMMA ListingOpensHands == ASSUME Shape, Hands, OpenListing PROVE Hands'
<1>1. /\ UNCHANGED <<account, rows, start, clock, passed, got>> /\ Open
      /\ pc = "next" /\ phase \in DOMAIN Reads[Client] /\ L.scope = "account"
      /\ \/ L.windowed /\ start >= clock /\ phase' = phase + 1 /\ pc' = pc
         \/ phase' = phase /\ pc' = "page"
  BY DEF OpenListing, Reading, outside
<1>2. Client' = Client /\ (phase' = phase => L' = L)
  BY <1>1 DEF Client, L
<1>3. EarlierHanded'
  <2> SUFFICES ASSUME NEW p \in DOMAIN Reads[Client], NEW i \in DOMAIN rows, p < phase'
               PROVE  Handed(p, i)'
    BY <1>1, <1>2 DEF EarlierHanded
  <2>1. Handed(p, i) => Handed(p, i)'
    BY <1>1, HandedStays
  <2>2. CASE p < phase
    BY <1>1, <2>1, <2>2 DEF Hands, EarlierHanded
  <2>3. CASE ~ (p < phase)
    <3>1. p = phase /\ L.windowed /\ start >= clock
      BY <1>1, <2>3, Accounted DEF Shape
    <3>2. ~ Wanted(p, i)
      BY <3>1, WantedWhen DEF L
    <3> QED
      BY <2>1, <3>2 DEF Handed
  <2> QED
    BY <2>2, <2>3
<1>4. PageHanded'
  <2>1. Shape'
    BY OpensListing
  <2>2. (Shape /\ pc = "page" /\ cursor = Nil /\ win = start => PageHanded)'
    BY OpenedHands, PTL
  <2> QED
    BY <1>1, <2>1, <2>2 DEF PageHanded, Open
<1>5. DoneHanded' /\ PairsHanded'
  BY <1>1, <1>2 DEF DoneHanded, PairsHanded
<1> QED
  BY <1>3, <1>4, <1>5 DEF Hands

LEMMA PairOpensHands == ASSUME Shape, Hands, NEW c \in Pairs, OpenPair(c) PROVE Hands'
<1>1. /\ UNCHANGED <<account, rows, start, clock, passed, got, phase>> /\ Open
      /\ pc = "pair" /\ c \in todo /\ todo' = todo \ {c} /\ pair' = c
      /\ pc' = IF L.windowed /\ start >= clock THEN "pair" ELSE "page"
  BY DEF OpenPair, outside
<1>2. Client' = Client /\ L' = L /\ phase \in DOMAIN Reads[Client] /\ L.scope # "account"
  BY <1>1 DEF Client, L, Shape, Placed
<1>3. EarlierHanded'
  BY <1>1, <1>2, HandedStays DEF Hands, EarlierHanded
<1>4. PageHanded'
  <2>1. Shape'
    BY OpensPair
  <2>2. (Shape /\ pc = "page" /\ cursor = Nil /\ win = start => PageHanded)'
    BY OpenedHands, PTL
  <2> QED
    BY <1>1, <2>1, <2>2 DEF PageHanded, Open
<1>5. PairsHanded'
  <2> SUFFICES ASSUME NEW p, p = phase, NEW i \in DOMAIN rows, PairOf(rows[i], L) \notin todo',
                      pc' = "page" => PairOf(rows[i], L) # c
               PROVE  Handed(p, i)'
    BY <1>1, <1>2 DEF PairsHanded
  <2>1. Handed(p, i) => Handed(p, i)'
    BY <1>1, HandedStays
  <2>2. CASE PairOf(rows[i], L) = c
    <3>1. L.windowed /\ start >= clock
      BY <1>1, <2>2
    <3>2. ~ Wanted(p, i)
      BY <1>2, <3>1, WantedWhen DEF L
    <3> QED
      BY <1>1, <2>1, <3>2 DEF Handed
  <2>3. CASE PairOf(rows[i], L) # c
    BY <1>1, <1>2, <2>1, <2>3 DEF Hands, PairsHanded
  <2> QED
    BY <2>2, <2>3
<1>6. DoneHanded'
  BY <1>1 DEF DoneHanded
<1> QED
  BY <1>3, <1>4, <1>5, <1>6 DEF Hands

\* The steps between the listings, and the errors.
LEMMA MovesHands ==
  ASSUME Shape, Hands,
         \/ NotImplemented \/ NoApiKey \/ AskHoldings \/ ReadHoldings \/ NoPairLeft \/ Finish
         \/ AnswerNoList \/ \E e \in Errors : PassOver(e) \/ FailFetch(e)
  PROVE  Hands'
<1>1. UNCHANGED <<account, rows, start>> /\ Client' = Client /\ (phase' = phase => L' = L)
  BY DEF NotImplemented, NoApiKey, AskHoldings, ReadHoldings, NoPairLeft, Finish, AnswerNoList,
     PassOver, FailFetch, Erring, outside, Client, L
<1>2. DOMAIN Reads[Client] = 1..Len(Reads[Client]) /\ Len(Reads[Client]) \in Nat
      /\ phase \in 1..(Len(Reads[Client]) + 1)
  BY Accounted DEF Shape, TypeOK
<1>3. ASSUME passed \subseteq passed', got' = got, NEW p, NEW i, Handed(p, i) PROVE Handed(p, i)'
  BY <1>1, <1>3, HandedStays
<1>4. CASE NotImplemented \/ \E e \in Errors : FailFetch(e)
  BY <1>4 DEF NotImplemented, FailFetch, Hands, EarlierHanded, DoneHanded, PairsHanded, PageHanded
<1>5. CASE NoApiKey
  <2>1. pc' = "done" /\ phase' = 1 /\ passed' = {<<p, Nil>> : p \in DOMAIN Reads[Client]}
    BY <1>5 DEF NoApiKey
  <2>2. \A p \in DOMAIN Reads[Client] : \A i : Handed(p, i)'
    BY <1>1, <2>1 DEF Handed, Excused
  <2> QED
    BY <1>1, <1>2, <2>1, <2>2 DEF Hands, EarlierHanded, DoneHanded, PairsHanded, PageHanded
<1>6. CASE AskHoldings
  BY <1>1, <1>3, <1>6 DEF AskHoldings, Reading, Hands, EarlierHanded, DoneHanded, PairsHanded,
     PageHanded
<1>7. CASE ReadHoldings
  <2>1. pc = "holdings" /\ pc' = "pair" /\ phase' = phase /\ passed' = passed /\ got' = got
        /\ todo' = Asked(L) /\ L.scope # "account"
    BY <1>7 DEF ReadHoldings, Shape, Placed
  <2>2. phase \in DOMAIN Reads[Client] /\ L = Reads[Client][phase]
    BY <2>1 DEF Shape, Placed, L
  <2>3. ASSUME NEW p, p = phase, NEW i \in DOMAIN rows, PairOf(rows[i], L) \notin todo'
        PROVE  Handed(p, i)'
    <3>1. Handed(p, i) => Handed(p, i)'
      BY <1>3, <2>1
    <3>2. rows[i].coin \in Coins /\ rows[i].quote # rows[i].coin /\ account.held \in SUBSET Coins
      BY RowsTyped, Accounted DEF Shape
    <3>3. Unasked(i, L)
      BY <2>1, <2>3, <3>2 DEF Unasked, Asked, PairOf
    <3> QED
      BY <2>2, <2>3, <3>1, <3>3 DEF Handed, Excused
  <2>4. EarlierHanded' /\ PairsHanded'
    BY <1>1, <1>3, <2>1, <2>3 DEF Hands, EarlierHanded, PairsHanded
  <2> QED
    BY <2>1, <2>4 DEF Hands, DoneHanded, PageHanded
<1>8. CASE NoPairLeft
  <2>1. pc = "pair" /\ pc' = "next" /\ phase' = phase + 1 /\ passed' = passed /\ got' = got
        /\ todo = {} /\ L.scope # "account"
    BY <1>8 DEF NoPairLeft, Shape, Placed
  <2>2. EarlierHanded'
    <3> SUFFICES ASSUME NEW p \in DOMAIN Reads[Client], NEW i \in DOMAIN rows, p < phase + 1
                 PROVE  Handed(p, i)
      BY <1>1, <1>3, <2>1 DEF EarlierHanded
    <3>1. CASE p < phase
      BY <2>1, <3>1 DEF Hands, EarlierHanded
    <3>2. CASE p = phase
      BY <2>1, <3>2 DEF Hands, PairsHanded
    <3> QED
      BY <1>2, <3>1, <3>2
  <2> QED
    BY <2>1, <2>2 DEF Hands, DoneHanded, PairsHanded, PageHanded
<1>9. CASE Finish
  <2>1. pc = "next" /\ pc' = "done" /\ phase' = phase /\ passed' = passed /\ got' = got
        /\ phase \notin DOMAIN Reads[Client]
    BY <1>9 DEF Finish, Reading
  <2>2. \A p \in DOMAIN Reads[Client] : p < phase
    BY <1>2, <2>1
  <2> QED
    BY <1>1, <1>3, <2>1, <2>2 DEF Hands, EarlierHanded, DoneHanded, PairsHanded, PageHanded
<1>10. CASE AnswerNoList
  <2>1. pc = "page" /\ pc' = "next" /\ phase' = phase + 1 /\ got' = got
        /\ passed' = passed \cup {<<phase, Nil>>}
    BY <1>10 DEF AnswerNoList
  <2>2. EarlierHanded'
    <3> SUFFICES ASSUME NEW p \in DOMAIN Reads[Client], NEW i \in DOMAIN rows, p < phase + 1
                 PROVE  Handed(p, i)'
      BY <1>1, <2>1 DEF EarlierHanded
    <3>1. CASE p < phase
      BY <1>3, <2>1, <3>1 DEF Hands, EarlierHanded
    <3>2. CASE p = phase
      <4>1. <<p, Nil>> \in passed'
        BY <2>1, <3>2
      <4> QED
        BY <4>1 DEF Handed, Excused
    <3> QED
      BY <1>2, <3>1, <3>2
  <2> QED
    BY <2>1, <2>2 DEF Hands, DoneHanded, PairsHanded, PageHanded
<1>11. ASSUME NEW e \in Errors, PassOver(e) PROVE Hands'
  <2>1. pc = "page" /\ pc' = "pair" /\ phase' = phase /\ got' = got /\ todo' = todo
        /\ passed' = passed \cup {<<phase, pair>>} /\ L.scope # "account"
    BY <1>11 DEF PassOver, Erring
  <2>2. ASSUME NEW p, p = phase, NEW i \in DOMAIN rows, PairOf(rows[i], L) \notin todo
        PROVE  Handed(p, i)'
    <3>1. CASE PairOf(rows[i], L) = pair
      <4>1. L = Reads[Client][p] /\ <<p, pair>> \in passed'
        BY <2>1, <2>2 DEF L
      <4>2. (<<p, PairOf(rows[i], Reads[Client][p])>> \in passed)'
        BY <1>1, <2>2, <3>1, <4>1 DEF PairOf
      <4> QED
        BY <4>2 DEF Handed, Excused
    <3>2. CASE PairOf(rows[i], L) # pair
      BY <1>3, <2>1, <2>2, <3>2 DEF Hands, PairsHanded
    <3> QED
      BY <3>1, <3>2
  <2>3. EarlierHanded' /\ PairsHanded'
    BY <1>1, <1>3, <2>1, <2>2 DEF Hands, EarlierHanded, PairsHanded
  <2> QED
    BY <2>1, <2>3 DEF Hands, DoneHanded, PageHanded
<1> QED
  BY <1>4, <1>5, <1>6, <1>7, <1>8, <1>9, <1>10, <1>11

\* A request that is repeated, a permission that is read and a step of nobody
\* leave all as it was.
LEMMA QuietHands ==
  ASSUME Hands, UNCHANGED <<clock, account, rows, pc, phase, todo, pair, start, win, until, cursor,
                            part, got, passed>>
  PROVE  Hands'
<1>1. Client' = Client /\ L' = L /\ WindowEnd' = WindowEnd /\ Descending' = Descending
  BY DEF Client, L, WindowEnd, Descending
<1>2. \A p, i : Handed(p, i)' = Handed(p, i) /\ Wanted(p, i)' = Wanted(p, i)
                /\ Excused(p, i)' = Excused(p, i)
  BY <1>1 DEF Handed, Wanted, Excused, Unasked, PairOf, From, Since, SameAnswer, Told, Ticks
<1>3. Matching' = Matching
  BY <1>1 DEF Matching, Matches, ById, Told, Ticks, From, Since
<1>4. Left(Matching)' = Left(Matching)
  BY <1>1, <1>3 DEF Left, FromNth, Before
<1>5. EarlierHanded' /\ DoneHanded' /\ PairsHanded'
  BY <1>1, <1>2 DEF Hands, EarlierHanded, DoneHanded, PairsHanded
<1>6. PageHanded'
  BY <1>1, <1>2, <1>4 DEF Hands, PageHanded, Due
<1> QED
  BY <1>5, <1>6 DEF Hands

\* A row that arrives is not wanted, and no other is lost by it.
LEMMA ArrivesHands == ASSUME Shape, Hands, Arrive PROVE Hands'
<1>1. /\ clock' \in clock..MaxTime /\ clock' >= T0 /\ rows' \in Seq(Row)
      /\ Len(rows') = Len(rows) + 1 /\ DOMAIN rows' = DOMAIN rows \cup {Len(rows) + 1}
      /\ \A i \in DOMAIN rows : rows'[i] = rows[i]
      /\ rows'[Len(rows) + 1].at = clock'
      /\ UNCHANGED <<account, errors, verification, fetching>> /\ Client' = Client /\ L' = L
  BY Arrives
<1>2. /\ UNCHANGED <<account, pc, phase, todo, pair, start, win, until, cursor, part, got, passed>>
      /\ WindowEnd' = WindowEnd /\ Descending' = Descending
      /\ \A listing : From(listing)' = From(listing)
      /\ \A t, listing : Told(t, listing)' = Told(t, listing)
  BY <1>1 DEF fetching, WindowEnd, Descending, From, Since, Told, Ticks
<1>3. IsFiniteSet(DOMAIN rows) /\ IsFiniteSet(DOMAIN rows') /\ DOMAIN rows' \subseteq Nat
  <2>1. IsFiniteSet(DOMAIN rows) /\ DOMAIN rows \subseteq Nat /\ Len(rows) \in Nat
    BY RowsTyped DEF Shape
  <2>2. IsFiniteSet(DOMAIN rows \cup {Len(rows) + 1})
    BY <2>1, FS_AddElement
  <2> QED
    BY <1>1, <2>1, <2>2
<1>4. ASSUME NEW p, NEW i \in DOMAIN rows' \ DOMAIN rows PROVE ~ Wanted(p, i)'
  <2>1. rows'[i].at = clock' /\ clock' \in Nat /\ clock' >= T0 /\ T0 \in Nat
    BY <1>1, <1>4, Bounds DEF Shape, TypeOK
  <2> QED
    BY <2>1 DEF Wanted
<1>5. ASSUME NEW p, NEW i \in DOMAIN rows
      PROVE  Wanted(p, i)' = Wanted(p, i) /\ (Excused(p, i) => Excused(p, i)')
  <2>1. Wanted(p, i)' = Wanted(p, i)
    BY <1>1, <1>2, <1>5 DEF Wanted
  <2>2. ASSUME NEW listing PROVE SameAnswer(i, listing) \subseteq SameAnswer(i, listing)'
    BY <1>1, <1>2, <1>5 DEF SameAnswer, PairOf
  <2>3. ASSUME NEW listing, Cardinality(SameAnswer(i, listing)) > LIMIT
        PROVE  (Cardinality(SameAnswer(i, listing)) > LIMIT)'
    <3> DEFINE A == SameAnswer(i, listing)
    <3>1. A \subseteq DOMAIN rows /\ A' \subseteq DOMAIN rows'
      BY DEF SameAnswer
    <3>2. IsFiniteSet(A) /\ IsFiniteSet(A')
      BY <1>3, <3>1, FS_Subset
    <3>3. A \subseteq A'
      BY <2>2
    <3>4. Cardinality(A) > LIMIT
      BY <2>3
    <3> HIDE DEF A
    <3>5. Cardinality(A) <= Cardinality(A') /\ Cardinality(A) \in Nat /\ Cardinality(A') \in Nat
      BY <3>2, <3>3, FS_Subset, FS_CardinalityType
    <3>6. Cardinality(A') > LIMIT
      BY <3>4, <3>5, Bounds
    <3> QED
      BY <3>6 DEF A
  <2> QED
    BY <1>1, <1>2, <1>5, <2>1, <2>3 DEF Excused, Unasked, PairOf
<1>6. \A p : \A i \in DOMAIN rows' : (i \in DOMAIN rows => Handed(p, i)) => Handed(p, i)'
  BY <1>1, <1>2, <1>4, <1>5 DEF Handed
<1>7. EarlierHanded' /\ DoneHanded' /\ PairsHanded'
  <2>1. DOMAIN Reads[Client]' = DOMAIN Reads[Client]
    BY <1>1
  <2>2. EarlierHanded'
    BY <1>1, <1>2, <1>6, <2>1 DEF Hands, EarlierHanded
  <2>3. DoneHanded'
    BY <1>1, <1>2, <1>6, <2>1 DEF Hands, DoneHanded
  <2>4. PairsHanded'
    BY <1>1, <1>2, <1>6 DEF Hands, PairsHanded
  <2> QED
    BY <2>2, <2>3, <2>4
<1>8. ASSUME pc = "page", NEW i \in DOMAIN rows, i \in Left(Matching) PROVE i \in Left(Matching)'
  <2>1. WhatIsLeft /\ WhatIsLeft'
    <3>1. (Shape /\ pc = "page" => WhatIsLeft)'
      BY LeftIs, PTL
    <3> QED
      BY <1>2, <1>8, <3>1, LeftIs, ShapeArrives
  <2>2. Matching \subseteq Matching' /\ Matching \subseteq DOMAIN rows /\ Matching' \subseteq DOMAIN rows'
    BY <1>1, <1>2 DEF Matching, Matches, ById
  <2>3. i \in LeftOf(L.paging, Descending, cursor, Matching)
    BY <1>8, <2>1 DEF WhatIsLeft
  <2>4. i \in Matching
    BY <2>3 DEF LeftOf
  <2>5. i \in LeftOf(L.paging, Descending, cursor, Matching')
    <3>1. CASE cursor # Nil /\ L.paging \in {"offset", "hasNext"}
      <4>1. /\ IsFiniteSet(Matching') /\ IsFiniteSet(Matching)
            /\ Matching' \in SUBSET Nat /\ Matching \in SUBSET Nat
        BY <1>1, <1>3, <2>2, FS_Subset
      <4> DEFINE A == {j \in Matching : Precedes(Descending, j, i)}
      <4> DEFINE B == {j \in Matching' : Precedes(Descending, j, i)}
      <4>2. A \subseteq B /\ IsFiniteSet(B)
        BY <2>2, <4>1, FS_Subset
      <4>3. Rank(Descending, Matching, i) = Cardinality(A)
            /\ Rank(Descending, Matching', i) = Cardinality(B)
        BY DEF Rank
      <4> HIDE DEF A, B
      <4>4. Cardinality(A) <= Cardinality(B) /\ Cardinality(A) \in Nat /\ Cardinality(B) \in Nat
        BY <4>2, FS_Subset, FS_CardinalityType
      <4>5. cursor * LIMIT \in Nat /\ ~ (Rank(Descending, Matching, i) < cursor * LIMIT)
        BY <2>3, <2>4, <3>1, Bounds DEF LeftOf, First, Shape, TypeOK
      <4>6. ~ (Rank(Descending, Matching', i) < cursor * LIMIT)
        BY <4>3, <4>4, <4>5
      <4> QED
        BY <2>2, <2>4, <3>1, <4>6 DEF LeftOf, First
    <3>2. CASE ~ (cursor # Nil /\ L.paging \in {"offset", "hasNext"})
      BY <2>2, <2>3, <3>2 DEF LeftOf
    <3> QED
      BY <3>1, <3>2
  <2> QED
    BY <1>1, <1>2, <2>1, <2>5 DEF WhatIsLeft
<1>9. PageHanded'
  <2> SUFFICES ASSUME pc = "page", NEW p, p = phase, NEW i \in DOMAIN rows', Wanted(p, i)',
                      L.scope # "account" => PairOf(rows'[i], L) = pair
               PROVE  i \in part \cup got \/ Excused(p, i)' \/ Due(i)'
    BY <1>1, <1>2 DEF PageHanded
  <2>1. i \in DOMAIN rows /\ Wanted(p, i)
    BY <1>4, <1>5
  <2>2. i \in part \cup got \/ Excused(p, i) \/ Due(i)
    BY <1>1, <2>1 DEF Hands, PageHanded
  <2>3. Due(i) => Due(i)'
    BY <1>1, <1>2, <1>8, <2>1 DEF Due
  <2> QED
    BY <1>5, <2>1, <2>2, <2>3
<1> QED
  BY <1>7, <1>9 DEF Hands

LEMMA AnswersHands == ASSUME Shape, Hands, Answer PROVE Hands'
<1>1. PICK left, page, more :
        /\ left = Left(Matching) /\ page = PageOf(left) /\ more = More(left, page)
        /\ NextPage(more, page) \/ NextWindow(more, page) \/ EndListing(more, page)
  BY DEF Answer
<1>2. /\ pc = "page" /\ left = Left(Matching) /\ page = PageOf(left) /\ more = More(left, page)
      /\ UNCHANGED <<account, rows, start, clock, passed, todo, pair, until>>
      /\ Client' = Client /\ (phase' = phase => L' = L)
  BY <1>1 DEF Answer, NextPage, NextWindow, EndListing, Leave, outside, Client, L
<1>3. /\ phase \in DOMAIN Reads[Client] /\ L = Reads[Client][phase] /\ page \subseteq left
      /\ DOMAIN Reads[Client] = 1..Len(Reads[Client])
  BY <1>2, PageIs, Accounted DEF Shape, Placed, L
\* What a row of the listing may be, before the step.
<1>4. ASSUME NEW i \in DOMAIN rows, Wanted(phase, i), Current(i)
      PROVE  \/ i \in got \cup part \cup Kept(page) \/ Excused(phase, i)
             \/ L.windowed /\ rows[i].at > WindowEnd
             \/ i \in left /\ i \notin page
  <2>1. i \in part \cup got \/ Excused(phase, i) \/ Due(i)
    BY <1>2, <1>4 DEF Hands, PageHanded, Current
  <2>2. i \in page => i \in Kept(page)
    BY <1>3, <1>4 DEF Kept, Wanted
  <2> QED
    BY <1>2, <2>1, <2>2 DEF Due
<1>5. \A p, i : /\ Wanted(p, i)' = Wanted(p, i) /\ (Excused(p, i) => Excused(p, i)')
                /\ got \subseteq got' => (Handed(p, i) => Handed(p, i)')
  BY <1>2, HandedStays
<1>6. ASSUME NextPage(more, page) \/ NextWindow(more, page)
      PROVE  EarlierHanded' /\ DoneHanded' /\ PairsHanded'
  <2>1. UNCHANGED <<pc, phase, got>> /\ got \subseteq got'
    BY <1>6 DEF NextPage, NextWindow
  <2> QED
    BY <1>2, <1>5, <2>1 DEF Hands, EarlierHanded, DoneHanded, PairsHanded
<1>7. CASE NextPage(more, page)
  <2>1. UNCHANGED <<pc, phase, got, win>> /\ part' = part \cup Kept(page)
    BY <1>7 DEF NextPage
  <2>2. WindowEnd' = WindowEnd
    BY <1>2, <2>1 DEF WindowEnd
  <2>3. PageHanded'
    <3> SUFFICES ASSUME NEW p, p = phase, NEW i \in DOMAIN rows, Wanted(p, i), Current(i)
                 PROVE  i \in part' \cup got' \/ Excused(p, i)' \/ Due(i)'
      BY <1>2, <1>5, <2>1 DEF PageHanded, Current
    <3>1. CASE i \in left /\ i \notin page
      BY <1>2, <1>7, <3>1, NextPageHas
    <3>2. CASE L.windowed /\ rows[i].at > WindowEnd
      BY <1>2, <2>1, <2>2, <3>2 DEF Due
    <3> QED
      BY <1>4, <1>5, <2>1, <3>1, <3>2
  <2> QED
    BY <1>6, <1>7, <2>3 DEF Hands
<1>8. ASSUME ~ more, NEW i \in left, i \notin page, Wanted(phase, i) PROVE Excused(phase, i)
  BY <1>2, <1>8, LastPageShows
<1>9. CASE NextWindow(more, page)
  <2>1. /\ UNCHANGED <<pc, phase, got>> /\ part' = part \cup Kept(page) /\ ~ more
        /\ win' = NextStart /\ cursor' = Nil
    BY <1>9 DEF NextWindow
  <2>2. (Shape /\ pc = "page" /\ cursor = Nil => AllDue)'
    BY OpenedIsDue, PTL
  <2>3. AllDue'
    BY <1>1, <1>2, <2>1, <2>2, ShapeAnswered
  <2>4. PageHanded'
    <3> SUFFICES ASSUME NEW p, p = phase, NEW i \in DOMAIN rows, Wanted(p, i), Current(i)
                 PROVE  i \in part' \cup got' \/ Excused(p, i)' \/ Due(i)'
      BY <1>2, <1>5, <2>1 DEF PageHanded, Current
    <3>1. CASE i \in left /\ i \notin page
      BY <1>5, <1>8, <2>1, <3>1
    <3>2. CASE L.windowed /\ rows[i].at > WindowEnd
      <4>1. win' <= rows'[i].at
        <5>1. rows[i].at \in Nat /\ WindowEnd \in Nat
          BY RowsTyped, Bounds DEF Shape, TypeOK, WindowEnd
        <5> QED
          BY <1>2, <2>1, <3>2, <5>1 DEF NextStart
      <4>2. Wanted(p, i)' /\ Current(i)' /\ p = phase' /\ i \in DOMAIN rows'
        BY <1>2, <1>5, <2>1 DEF Current
      <4> QED
        BY <2>3, <4>1, <4>2 DEF AllDue
    <3> QED
      BY <1>4, <1>5, <2>1, <3>1, <3>2
  <2> QED
    BY <1>6, <1>9, <2>4 DEF Hands
<1>10. CASE EndListing(more, page)
  <2>1. /\ ~ more /\ ~ (L.windowed /\ NextStart < until)
        /\ got' = got \cup (part \cup Kept(page)) /\ got \subseteq got'
        /\ IF L.scope = "account" THEN pc' = "next" /\ phase' = phase + 1
           ELSE pc' = "pair" /\ phase' = phase
    BY <1>10 DEF EndListing, Leave
  <2>2. ASSUME NEW p, p = phase, NEW i \in DOMAIN rows, Current(i) PROVE Handed(p, i)'
    <3> SUFFICES ASSUME Wanted(p, i) PROVE i \in got' \/ Excused(p, i)'
      BY <1>5 DEF Handed
    <3>1. CASE i \in left /\ i \notin page
      BY <1>5, <1>8, <2>1, <2>2, <3>1
    <3>2. ~ (L.windowed /\ rows[i].at > WindowEnd)
      <4>1. rows[i].at < T0 /\ rows[i].at \in Nat
        BY <1>3, <2>2, WantedWhen
      <4>2. T0 <= until /\ until \in Nat /\ T0 \in Nat /\ WindowEnd \in Nat
        BY Bounds DEF Shape, TypeOK, WindowEnd
      <4> QED
        BY <2>1, <4>1, <4>2 DEF NextStart
    <3> QED
      BY <1>4, <1>5, <2>1, <2>2, <3>1, <3>2
  <2>3. EarlierHanded'
    <3> SUFFICES ASSUME NEW p \in DOMAIN Reads[Client], NEW i \in DOMAIN rows, p < phase'
                 PROVE  Handed(p, i)'
      BY <1>2 DEF EarlierHanded
    <3>1. CASE p < phase
      BY <1>2, <1>5, <2>1, <3>1 DEF Hands, EarlierHanded
    <3>2. CASE ~ (p < phase)
      <4>1. p = phase /\ L.scope = "account"
        BY <1>3, <2>1, <3>2, Accounted DEF Shape
      <4> QED
        BY <2>2, <4>1 DEF Current
    <3> QED
      BY <3>1, <3>2
  <2>4. PairsHanded'
    <3> SUFFICES ASSUME L.scope # "account", NEW p, p = phase, phase' = phase,
                        NEW i \in DOMAIN rows, PairOf(rows[i], L) \notin todo
                 PROVE  Handed(p, i)'
      BY <1>2, <2>1 DEF PairsHanded
    <3>1. CASE PairOf(rows[i], L) = pair
      BY <2>2, <3>1 DEF Current
    <3>2. CASE PairOf(rows[i], L) # pair
      BY <1>2, <1>5, <2>1, <3>2 DEF Hands, PairsHanded
    <3> QED
      BY <3>1, <3>2
  <2>5. DoneHanded' /\ PageHanded'
    BY <2>1 DEF DoneHanded, PageHanded
  <2> QED
    BY <2>3, <2>4, <2>5 DEF Hands
<1> QED
  BY <1>1, <1>7, <1>9, <1>10

LEMMA HandsStep == ASSUME Shape, Hands, Next \/ UNCHANGED vars PROVE Hands'
<1>1. ASSUME NEW e \in Errors, Retry(e) PROVE Hands'
  BY <1>1, QuietHands DEF Retry, Erring
<1>2. CASE Verify
  BY <1>2, VerifiedApart, QuietHands DEF fetching
<1>3. CASE UNCHANGED vars
  BY <1>3, QuietHands DEF vars
<1> QED
  BY <1>1, <1>2, <1>3, ListingOpensHands, PairOpensHands, MovesHands, AnswersHands, ArrivesHands
     DEF Next, Step

----------------------------------------------------------------------------
\* PagingInv is an inductive invariant.
THEOREM PagingInvariant == Spec => []PagingInv
<1>1. Init => PagingInv
  BY ShapeInit, HandsInit DEF PagingInv, Shape, Hands
<1>2. PagingInv /\ [Next]_vars => PagingInv'
  <2> SUFFICES ASSUME PagingInv, [Next]_vars PROVE PagingInv'
    OBVIOUS
  <2>1. Shape /\ Hands
    BY DEF PagingInv, Shape, Hands
  <2>2. Shape' /\ Hands'
    BY <2>1, ShapeStep, HandsStep
  <2> QED
    BY <2>2 DEF PagingInv, Shape, Hands
<1> QED
  BY <1>1, <1>2, PTL DEF Spec

\* The variables of a fetch keep their types, through every page, window,
\* error and arrival.
THEOREM PagingTypes == Spec => []TypeOK
<1>1. PagingInv => TypeOK
  BY DEF PagingInv
<1> QED
  BY <1>1, PagingInvariant, PTL

\* What fetchTransactions hands over at its end holds, under a key of its own,
\* every row of the time before it began, for every client and every size of
\* page and window, but for a symbol or wallet that is not asked for, an error
\* that is passed over, an only page that is full, and rows the key does not tell
\* apart.
THEOREM EveryRowHandedOver == Spec => []RowsHandedOver
<1>1. PagingInv => RowsHandedOver
  <2> SUFFICES ASSUME PagingInv, pc = "done", NEW p \in DOMAIN Reads[Client], NEW i \in DOMAIN rows,
                      NEW listing, listing = Reads[Client][p],
                      rows[i].kind \in listing.kept, rows[i].at >= From(listing), rows[i].at < T0
               PROVE  \/ /\ i \in got
                         /\ \A j \in got \ {i} :
                              rows[j].kind \in listing.kept => KeyOf(j, listing) # KeyOf(i, listing)
                      \/ <<p, PairOf(rows[i], listing)>> \in passed \/ <<p, Nil>> \in passed
                      \/ Unasked(i, listing)
                      \/ listing.paging = "one" /\ Cardinality(SameAnswer(i, listing)) > LIMIT
                      \/ OneOfMany(i, listing)
    BY DEF RowsHandedOver
  <2>1. i \in got \/ Excused(p, i)
    BY DEF PagingInv, DoneHanded, Handed, Wanted
  <2>2. ASSUME NEW j \in got \ {i}, KeyOf(j, listing) = KeyOf(i, listing)
        PROVE  OneOfMany(i, listing)
    <3>1. listing \in Listing /\ j \in DOMAIN rows \ {i}
      BY <2>2, Accounted DEF PagingInv, TypeOK
    <3>2. listing.key # "id"
      BY <2>2, <3>1 DEF KeyOf
    <3> QED
      BY <2>2, <3>1, <3>2 DEF KeyOf, OneOfMany, Listing
  <2> QED
    BY <2>1, <2>2 DEF Excused
<1> QED
  BY <1>1, PagingInvariant, PTL

\* A key that may withdraw is never stored as one that may not, of any client but
\* Paribu, unless its grants were changed after they were read: however many calls
\* of verifyPermission overlap, and in whatever order they store what they read.
THEOREM LevelsNotUnderstated == Spec => []LevelNotUnderstated
<1>1. PagingInv => LevelNotUnderstated
  <2> SUFFICES ASSUME PagingInv PROVE LevelNotUnderstated
    OBVIOUS
  <2>1. Client \in Clients /\ granted \in SUBSET {"read", "trade", "withdraw"}
    BY Accounted DEF PagingInv, TypeOK, Grants
  <2>2. ~ outdated /\ level \in {"READ_ONLY", "TRADE"} => level = Level(Client, granted)
    BY DEF PagingInv, LevelRead
  <2> QED
    BY <2>1, <2>2, LevelsSound DEF LevelNotUnderstated
<1> QED
  BY <1>1, PagingInvariant, PTL
=============================================================================
