------------------------------ MODULE Holdings ------------------------------
(***************************************************************************)
(* What the account holds: the position and quote mappers of               *)
(* broker/robinhood/mapping.ts and the functions of broker/index.ts that   *)
(* fold contracts and quotes into positions and derive today's move.       *)
(* OrderTrail polls them.                                                  *)
(*                                                                         *)
(* A list of the broker is a set of rows, a row the record of its JSON     *)
(* keys.  Units follow the broker: shares and coins have a price each; an  *)
(* option's quote is per share and its average price per contract, with    *)
(* the multiplier in it; a short position counts its contracts upwards.    *)
(*                                                                         *)
(* Definitions named ...Slip are mistaken variants of the definition they  *)
(* precede; no specification uses them.                                    *)
(***************************************************************************)
EXTENDS OrderCards, FiniteSetsExt

Total(F(_), S) == MapThenSumSet(F, S)
Nz(v) == Or(v, 0)

-----------------------------------------------------------------------------
(***************************************************************************)
(* The mappers.                                                            *)
(***************************************************************************)
mapPosition(p) ==
  LET qty  == Nz(pickRaw(p, <<"quantity", "shares">>))
      avg  == pickRaw(p, <<"average_cost", "average_buy_price", "avg_cost">>)
      last == pickRaw(p, <<"last_price", "price", "mark_price">>)
  IN  [symbol |-> pickRaw(p, <<"symbol", "ticker", "chain_symbol">>), quantity |-> qty,
       intradayQuantity |-> pickRaw(p, <<"intraday_quantity">>), averageCost |-> avg,
       lastPrice |-> last,
       marketValue |-> Or(pickRaw(p, <<"market_value">>), times(last, qty)),
       unrealizedPnl |-> IF avg # None /\ last # None THEN (last - avg) * qty
                         ELSE pickRaw(p, <<"unrealized_pnl">>)]

mapQuote(r) ==
  LET q == Or(pickRaw(r, <<"quote">>), r)
  IN  [symbol |-> pickRaw(q, <<"symbol", "ticker">>),
       last |-> pickRaw(q, <<"last_trade_price", "last_price", "price", "mark_price">>),
       previousClose |-> pickRaw(q, <<"adjusted_previous_close", "previous_close">>)]

mapOptionPosition(p) ==
  [optionId |-> pickRaw(p, <<"option_id", "option">>),
   chainSymbol |-> pickRaw(p, <<"chain_symbol", "symbol">>),
   type |-> pickRaw(p, <<"type">>),
   quantity |-> Nz(pickRaw(p, <<"quantity">>)),
   intradayQuantity |-> pickRaw(p, <<"intraday_quantity">>),
   averagePrice |-> pickRaw(p, <<"average_price">>),
   intradayAverageOpenPrice |-> pickRaw(p, <<"intraday_average_open_price">>),
   expirationDate |-> pickRaw(p, <<"expiration_date">>),
   multiplier |-> pickRaw(p, <<"trade_value_multiplier">>),
   strikePrice |-> None, optionType |-> None, lastPrice |-> None, previousClose |-> None,
   marketValue |-> None, unrealizedPnl |-> None]

mapOptionInstrument(i) ==
  [optionId |-> pickRaw(i, <<"id", "option_id">>),
   chainSymbol |-> pickRaw(i, <<"chain_symbol">>),
   expirationDate |-> pickRaw(i, <<"expiration_date">>),
   strikePrice |-> pickRaw(i, <<"strike_price">>),
   optionType |-> pickRaw(i, <<"type", "option_type">>),
   multiplier |-> pickRaw(i, <<"trade_value_multiplier">>)]

mapOptionQuote(r) ==
  LET q == Or(pickRaw(r, <<"quote">>), r)
      close == pickRaw(r, <<"close">>)
  IN  [optionId |-> pickRaw(q, <<"instrument_id", "option_id", "id">>),
       mark |-> pickRaw(q, <<"mark_price", "adjusted_mark_price", "last_trade_price">>),
       previousClose |-> Or(IF close = None THEN None ELSE pickRaw(close, <<"price">>),
                            pickRaw(q, <<"previous_close_price">>))]

\* Transferred coins carry no cost: the average covers the coins bought.
mapCryptoPosition(p) ==
  LET bases  == pickRaw(p, <<"cost_bases">>)
      basis  == FoldLeft(LAMBDA t, b : t + Nz(pickRaw(b, <<"direct_cost_basis">>)), 0, bases)
      direct == FoldLeft(LAMBDA t, b : t + Nz(pickRaw(b, <<"direct_quantity">>)), 0, bases)
      currency == pickRaw(p, <<"currency">>)
  IN  [assetCode |-> IF currency # None THEN pickRaw(currency, <<"code">>)
                     ELSE pickRaw(p, <<"currency_code", "symbol">>),
       quantity |-> Nz(pickRaw(p, <<"quantity">>)),
       avgCost |-> IF direct > 0 THEN basis \div direct ELSE None,
       directQuantity |-> direct,
       intradayQuantity |-> pickRaw(p, <<"intraday_quantity">>),
       lastPrice |-> None, previousClose |-> None, marketValue |-> None, unrealizedPnl |-> None]

mapCryptoQuote(q) ==
  [symbol |-> pickRaw(q, <<"symbol">>), mark |-> pickRaw(q, <<"mark_price">>),
   previousClose |-> pickRaw(q, <<"open_price", "previous_close_price">>)]

-----------------------------------------------------------------------------
(***************************************************************************)
(* Folding quotes and contracts into positions.  Quotes are a set; None    *)
(* stands for a quote or a contract that is not there.                     *)
(***************************************************************************)
Pair == [c \in {"BTC"} |-> "BTCUSD"]   \* quotes of coins are found by their pair

QuoteOf(quotes, key, name) ==
  LET found == {q \in quotes : q[key] = name}
  IN  IF found = {} THEN None ELSE CHOOSE q \in found : TRUE

enrichPosition(p, quote) ==
  LET last == IF quote = None THEN p.lastPrice ELSE Or(quote.last, p.lastPrice)
  IN  IF last = None THEN p
      ELSE [p EXCEPT !.lastPrice = last, !.marketValue = last * p.quantity,
                     !.unrealizedPnl = IF p.averageCost # None
                                       THEN (last - p.averageCost) * p.quantity ELSE @]

Sign(p) == IF p.type = "short" THEN -1 ELSE 1

enrichOptionPosition(p, contract, quote) ==
  LET known(f) == IF contract = None THEN None ELSE contract[f]
      named == [p EXCEPT !.strikePrice = Or(known("strikePrice"), @),
                         !.optionType = Or(known("optionType"), @),
                         !.expirationDate = Or(@, known("expirationDate")),
                         !.multiplier = Or(@, known("multiplier"))]
      perContract == quote.mark * Or(named.multiplier, STANDARD_MULTIPLIER)
  IN  IF quote = None \/ quote.mark = None THEN named
      ELSE [named EXCEPT
              !.lastPrice = quote.mark, !.previousClose = quote.previousClose,
              !.marketValue = perContract * p.quantity * Sign(named),
              !.unrealizedPnl = IF p.averagePrice = None THEN None
                                ELSE (perContract - p.averagePrice) * p.quantity * Sign(named)]

\* Profit over the coins whose cost is known, never the whole holding.
enrichCryptoPosition(p, quote) ==
  IF quote = None \/ quote.mark = None THEN p
  ELSE [p EXCEPT !.lastPrice = quote.mark, !.previousClose = quote.previousClose,
                 !.marketValue = quote.mark * p.quantity,
                 !.unrealizedPnl = IF p.avgCost # None /\ p.directQuantity > 0
                                   THEN (quote.mark - p.avgCost) * p.directQuantity ELSE None]

(***************************************************************************)
(* Today's move: what was held overnight moves from the previous close,    *)
(* what was bought today from its cost.  A position without a quote is     *)
(* skipped; options and coins bring their prices with them.                *)
(***************************************************************************)
Moved(overnight, intraday, last, close, cost) ==
  (last - close) * overnight + (last - cost) * intraday

dayChangeOfPosition(p, quotes) ==
  LET q == QuoteOf(quotes, "symbol", p.symbol)
      intraday == Nz(p.intradayQuantity)
  IN  IF q = None \/ q.last = None \/ q.previousClose = None THEN None
      ELSE Moved(p.quantity - intraday, intraday, q.last, q.previousClose,
                 Or(p.averageCost, q.last))

dayChangeOfOptionSlip(p) ==
  LET mult == Or(p.multiplier, STANDARD_MULTIPLIER)
      intraday == Nz(p.intradayQuantity)
      cost == Or(p.averagePrice, p.lastPrice * mult)
  IN  IF p.lastPrice = None \/ p.previousClose = None THEN None
      ELSE Moved(p.quantity - intraday, intraday, p.lastPrice * mult,
                 p.previousClose * mult, cost) * Sign(p)

dayChangeOfOption(p) ==
  LET mult == Or(p.multiplier, STANDARD_MULTIPLIER)
      intraday == Nz(p.intradayQuantity)
      cost == Or(Or(p.intradayAverageOpenPrice, p.averagePrice), p.lastPrice * mult)
  IN  IF p.lastPrice = None \/ p.previousClose = None THEN None
      ELSE Moved(p.quantity - intraday, intraday, p.lastPrice * mult,
                 p.previousClose * mult, cost) * Sign(p)

dayChangeOfCrypto(p) ==
  LET intraday == Nz(p.intradayQuantity)
  IN  IF p.lastPrice = None \/ p.previousClose = None THEN None
      ELSE Moved(p.quantity - intraday, intraday, p.lastPrice, p.previousClose,
                 Or(p.avgCost, p.lastPrice))

\* None when no position could be counted.
withDayChange(positions, quotes, options, cryptos) ==
  LET eq(p) == dayChangeOfPosition(p, quotes)
      counted == \/ \E p \in positions : eq(p) # None
                 \/ \E p \in options : dayChangeOfOption(p) # None
                 \/ \E p \in cryptos : dayChangeOfCrypto(p) # None
  IN  IF ~counted THEN None
      ELSE Total(LAMBDA p : Nz(eq(p)), positions)
           + Total(LAMBDA p : Nz(dayChangeOfOption(p)), options)
           + Total(LAMBDA p : Nz(dayChangeOfCrypto(p)), cryptos)

-----------------------------------------------------------------------------
(***************************************************************************)
(* The broker's lists.  A lot is [of, asset, name, qty, paid, today,       *)
(* direct]: qty is negative for contracts sold short, paid is per share or *)
(* coin, direct says that its cost is known.                               *)
(***************************************************************************)
Qty(lots)   == Total(LAMBDA l : l.qty, lots)
Today(lots) == {l \in lots : l.today}
Spent(lots) == Total(LAMBDA l : l.qty * l.paid, lots)
Size0(n) == IF n < 0 THEN -n ELSE n

EquityRow(name, lots) ==
  [symbol |-> name, quantity |-> Qty(lots), intraday_quantity |-> Qty(Today(lots)),
   average_cost |-> Spent(lots) \div Qty(lots)]

EquityQuoteRow(name, price) ==
  [quote |-> [symbol |-> name, last_trade_price |-> price.last,
              adjusted_previous_close |-> price.close]]

PerContract(lots, fact) == (Size0(Spent(lots)) * fact.multiplier) \div Size0(Qty(lots))

\* brief: the list leaves the multiplier to get_option_instruments.
OptionRow(lots, fact, brief) ==
  [option_id |-> fact.optionId, chain_symbol |-> fact.chainSymbol,
   type |-> IF Qty(lots) < 0 THEN "short" ELSE "long",
   quantity |-> Size0(Qty(lots)), intraday_quantity |-> Size0(Qty(Today(lots))),
   average_price |-> PerContract(lots, fact),
   intraday_average_open_price |->
     IF Today(lots) = {} THEN None ELSE PerContract(Today(lots), fact),
   expiration_date |-> fact.expirationDate,
   trade_value_multiplier |-> IF brief THEN None ELSE fact.multiplier]

InstrumentRow(fact) ==
  [id |-> fact.optionId, chain_symbol |-> fact.chainSymbol,
   expiration_date |-> fact.expirationDate, strike_price |-> fact.strikePrice,
   type |-> fact.optionType, trade_value_multiplier |-> fact.multiplier]

OptionQuoteRow(id, price) ==
  [quote |-> [instrument_id |-> id, mark_price |-> price.last],
   close |-> [price |-> price.close]]

CryptoRow(name, lots) ==
  LET bought == {l \in lots : l.direct}
  IN  [currency |-> [code |-> name], quantity |-> Qty(lots),
       intraday_quantity |-> Qty(Today(lots)),
       cost_bases |-> <<[direct_cost_basis |-> Spent(bought), direct_quantity |-> Qty(bought)]>>]

CryptoQuoteRow(name, price) ==
  [symbol |-> Pair[name], mark_price |-> price.last, open_price |-> price.close]
=============================================================================
