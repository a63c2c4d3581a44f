-------------------------- MODULE ExchangeClients --------------------------
(***************************************************************************)
(* The clients of the exchanges and chains as a table: the listings each   *)
(* reads, in order, how it pages through them, which errors it tries       *)
(* again, and the permission it reports for a key.  AdapterPaging says     *)
(* what each way of paging does.                                           *)
(***************************************************************************)
EXTENDS Naturals, Sequences

Kinds == {"deposit", "withdrawal", "trade", "other", "native", "zero", "token"}
Pagings == {"one", "offset", "hasNext", "cursor", "fromId", "idLessThan", "backwards"}

\* A listing: the kinds the answer shows and those the client keeps; read for
\* the account, for each symbol of a held coin or for each wallet; its paging;
\* in windows or at once; from the start (with a look-back) or from since; asked
\* for or filtered by the client; with an end or without; the unit of its times;
\* and what rows are keyed by: an identifier of their own, a name that several
\* may have (the hash of a transaction, which is taken before the identifier,
\* or the number of a trade), the fill of an order, the hash and the token.
Listing == [shown : SUBSET Kinds, kept : SUBSET Kinds, scope : {"account", "symbol", "each"},
            paging : Pagings, windowed : BOOLEAN, from : {"start", "since"},
            side : {"request", "client"}, upto : BOOLEAN, unit : {"ms", "s", "day"},
            key : {"id", "name", "fill", "fillSecond", "tx"}]

\* One request from the start on, a page long.
OnePage(kinds) ==
  [shown |-> kinds, kept |-> kinds, scope |-> "account", paging |-> "one", windowed |-> FALSE,
   from |-> "since", side |-> "request", upto |-> FALSE, unit |-> "ms", key |-> "id"]
Paged(kinds, paging) == [OnePage(kinds) EXCEPT !.paging = paging, !.from = "start"]
Windowed(kinds, paging) == [Paged(kinds, paging) EXCEPT !.windowed = TRUE, !.upto = TRUE]
PerSymbol(listing) == [listing EXCEPT !.scope = "symbol", !.key = "name"]
Filtered(listing) == [listing EXCEPT !.side = "client"]
In(unit, listing) == [listing EXCEPT !.unit = unit]
KeyedBy(key, listing) == [listing EXCEPT !.key = key]
Named(listing) == KeyedBy("name", listing)
Ended(listing) == [listing EXCEPT !.upto = TRUE]
Showing(kinds, listing) == [listing EXCEPT !.shown = kinds]

Deposits == {"deposit"}
Withdrawals == {"withdrawal"}
Trades == {"trade"}

----------------------------------------------------------------------------
\* Binance, Binance TR and MEXC: a page per window of deposits and of
\* withdrawals; trades per symbol, from the identifier after the last.
Binance == <<Named(Windowed(Deposits, "one")), Windowed(Withdrawals, "one"),
             PerSymbol(Paged(Trades, "fromId"))>>
BinanceTr == <<Named(Windowed(Deposits, "one")), Named(Windowed(Withdrawals, "one")),
               PerSymbol(Paged(Trades, "fromId"))>>
Mexc == <<Named(Windowed(Deposits, "one")), Named(Windowed(Withdrawals, "one")),
          PerSymbol(Paged(Trades, "fromId"))>>
Bitget == <<Named(Windowed(Deposits, "one")), Named(Windowed(Withdrawals, "one")),
            PerSymbol(Paged(Trades, "idLessThan"))>>
\* Deposits and withdrawals are paged backwards until they are too old.
Htx == <<Filtered(Paged(Deposits, "backwards")), Filtered(Paged(Withdrawals, "backwards")),
         PerSymbol(Windowed(Trades, "one"))>>
Bybit == <<Windowed(Trades, "cursor"), Named(Paged(Deposits, "cursor")),
           Named(Paged(Withdrawals, "cursor"))>>
Gateio == <<Named(In("s", Windowed(Deposits, "offset"))),
            Named(In("s", Windowed(Withdrawals, "offset"))),
            Named(In("s", Windowed(Trades, "offset")))>>
Paribu == <<In("day", Ended(Showing({"deposit", "withdrawal", "other"},
                                    Paged({"deposit", "withdrawal"}, "one")))),
            KeyedBy("fill", In("day", Ended(Paged(Trades, "offset"))))>>
Icrypex == <<KeyedBy("fillSecond", In("s", Ended(Paged(Trades, "hasNext"))))>>
Okx == <<OnePage(Trades), OnePage(Deposits), OnePage(Withdrawals)>>
Kucoin == <<Named(OnePage(Trades)), Named(OnePage(Deposits)), Named(OnePage(Withdrawals))>>
Btcturk == <<OnePage(Trades), OnePage({"deposit", "withdrawal"})>>
\* The ledger shows entries of every type.
Kraken == <<In("s", OnePage(Trades)),
            In("s", Showing({"deposit", "withdrawal", "trade", "other"},
                            OnePage({"deposit", "withdrawal"})))>>
Coinbase ==
  <<[Filtered(Showing({"deposit", "withdrawal", "trade", "other"},
                      OnePage({"deposit", "withdrawal", "trade"}))) EXCEPT !.scope = "each"]>>
\* Native transfers of value zero are left out, those of tokens are not.
EthereumLike == <<Named(Filtered(Showing({"native", "zero"}, OnePage({"native"})))),
                  KeyedBy("tx", Filtered(OnePage({"token"})))>>
Bitcoin == <<Filtered(Showing({"native", "zero"}, OnePage({"native"})))>>
Stub == <<>>

Stubs == {"cryptocom", "bitexen", "bitci"}
Chains == {"ethereum", "bitcoin"}
Reads == [binance |-> Binance, binanceTr |-> BinanceTr, mexc |-> Mexc, bitget |-> Bitget,
          htx |-> Htx, bybit |-> Bybit, gateio |-> Gateio, paribu |-> Paribu,
          icrypex |-> Icrypex, okx |-> Okx, kucoin |-> Kucoin, btcturk |-> Btcturk,
          kraken |-> Kraken, coinbase |-> Coinbase, ethereum |-> EthereumLike,
          bitcoin |-> Bitcoin, cryptocom |-> Stub, bitexen |-> Stub, bitci |-> Stub]
Clients == DOMAIN Reads

----------------------------------------------------------------------------
\* The errors a request is repeated for: status 429, status 418, or a code in
\* an answer that is otherwise well.
Errors == {"429", "418", "code", "other"}
BinanceRetries == {"429", "418"}
BinanceTrRetries == {"429"}
MexcRetries == {"429"}
BitgetRetries == {"429"}
HtxRetries == {"429"}
BybitRetries == {"429", "code"}
GateioRetries == {"429"}
ParibuRetries == {"429"}
IcrypexRetries == {"429"}
OkxRetries == {}
KucoinRetries == {}
BtcturkRetries == {}
KrakenRetries == {}
CoinbaseRetries == {}
Retried == [binance |-> BinanceRetries, binanceTr |-> BinanceTrRetries, mexc |-> MexcRetries,
            bitget |-> BitgetRetries, htx |-> HtxRetries, bybit |-> BybitRetries,
            gateio |-> GateioRetries, paribu |-> ParibuRetries, icrypex |-> IcrypexRetries,
            okx |-> OkxRetries, kucoin |-> KucoinRetries, btcturk |-> BtcturkRetries,
            kraken |-> KrakenRetries, coinbase |-> CoinbaseRetries, ethereum |-> {},
            bitcoin |-> {}, cryptocom |-> {}, bitexen |-> {}, bitci |-> {}]

----------------------------------------------------------------------------
\* verifyPermissionLevel, for a key that was granted g.
Levels == {"UNKNOWN", "READ_ONLY", "TRADE", "WITHDRAW"}
\* Fault: the tests are asked in the other order.
Lowest(g, otherwise) ==
  CASE "trade" \in g -> "TRADE"
    [] "trade" \notin g /\ "withdraw" \in g -> "WITHDRAW"
    [] OTHER -> otherwise
Highest(g, otherwise) ==
  CASE "withdraw" \in g -> "WITHDRAW"
    [] "withdraw" \notin g /\ "trade" \in g -> "TRADE"
    [] OTHER -> otherwise
IfRead(g) == IF "read" \in g THEN "READ_ONLY" ELSE "UNKNOWN"

BinanceLevel(g) == Highest(g, IfRead(g))
BinanceTrLevel(g) == Highest(g, "READ_ONLY")
MexcLevel(g) == Highest(g, "READ_ONLY")
\* A key that is not read-only trades.
BybitLevel(g) ==
  IF g \subseteq {"read"} THEN "READ_ONLY" ELSE Highest(g, "TRADE")
OkxLevel(g) == Highest(g, IfRead(g))
KucoinLevel(g) == Highest(g, IfRead(g))
\* Paribu and the rest cannot ask for the grants of a key.
ParibuLevel(g) == "READ_ONLY"
BitgetLevel(g) == "UNKNOWN"
HtxLevel(g) == "UNKNOWN"
IcrypexLevel(g) == "UNKNOWN"
GateioLevel(g) == "UNKNOWN"
Level(client, g) ==
  CASE client = "binance" -> BinanceLevel(g)
    [] client = "binanceTr" -> BinanceTrLevel(g)
    [] client = "mexc" -> MexcLevel(g)
    [] client = "bybit" -> BybitLevel(g)
    [] client = "okx" -> OkxLevel(g)
    [] client = "kucoin" -> KucoinLevel(g)
    [] client = "paribu" -> ParibuLevel(g)
    [] client = "bitget" -> BitgetLevel(g)
    [] client = "htx" -> HtxLevel(g)
    [] client = "icrypex" -> IcrypexLevel(g)
    [] client = "gateio" -> GateioLevel(g)
    [] OTHER -> "UNKNOWN"
=============================================================================
