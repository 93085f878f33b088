----------------------------- MODULE OrderCards -----------------------------
(***************************************************************************)
(* From the call an agent makes to the card a user decides on, and from    *)
(* the broker's answers to the order the card became: the pure functions   *)
(* of approvals/parse.ts, shared/options.ts, shared/robinhood-tools.ts and *)
(* broker/robinhood/mapping.ts.  OrderTrail is the machine that calls      *)
(* them.                                                                   *)
(*                                                                         *)
(* A tool's input or a broker's reply is a record with the keys of the     *)
(* JSON object.  None stands for null, Garbage for a text no number can be *)
(* read from.  Money and quantities are integers; upper and lower case are *)
(* two spellings of a word.  A summary line is the record of the facts it  *)
(* shows: layout and number formats are left out.                          *)
(*                                                                         *)
(* Definitions named ...Slip are mistaken variants of the definition they  *)
(* precede; no specification uses them.                                    *)
(***************************************************************************)
EXTENDS Integers, Sequences, SequencesExt

CONSTANTS None, Garbage

(***************************************************************************)
(* Which tools the gate knows, and what their names say.                   *)
(***************************************************************************)
MONEY_MOVERS == {"place_equity_order", "cancel_equity_order",
                 "place_option_order", "cancel_option_order",
                 "place_crypto_order", "cancel_crypto_order",
                 "exercise_option", "cancel_option_exercise"}

ExerciseTools == {"exercise_option", "cancel_option_exercise"}
CancelTools   == {"cancel_equity_order", "cancel_option_order",
                  "cancel_crypto_order", "cancel_option_exercise"}
OptionTools   == {"place_option_order", "cancel_option_order"}
CryptoTools   == {"place_crypto_order", "cancel_crypto_order"}

STANDARD_MULTIPLIER == 100

(***************************************************************************)
(* Lenient reading of a JSON object.                                       *)
(***************************************************************************)
\* The first of these keys that is there and not null.
pick(o, keys) ==
  LET there == {i \in DOMAIN keys : keys[i] \in DOMAIN o /\ o[keys[i]] # None}
  IN  IF there = {} THEN None ELSE o[keys[Min(there)]]

\* mapping.ts has its own pick: a key that is there and null counts.
pickRaw(o, keys) ==
  LET there == {i \in DOMAIN keys : keys[i] \in DOMAIN o}
  IN  IF there = {} THEN None ELSE o[keys[Min(there)]]

numv(v) == IF v = Garbage THEN None ELSE v
Or(v, w) == IF v # None THEN v ELSE w
times(a, b) == IF a = None \/ b = None THEN None ELSE a * b

Lower == [BUY |-> "buy", SELL |-> "sell"]
Upper == [aapl |-> "AAPL", btc |-> "BTC"]
low(v) == IF v \in DOMAIN Lower THEN Lower[v] ELSE v
up(v)  == IF v \in DOMAIN Upper THEN Upper[v] ELSE v

\* A crypto pair names its coin.
Coin == [x \in {"BTC-USD", "BTCUSD"} |-> "BTC"]

(***************************************************************************)
(* Labels (shared/options.ts).                                             *)
(***************************************************************************)
contractLabel(c) ==
  IF c = None THEN <<"option">>
  ELSE LET strike == IF c.strikePrice # None THEN <<c.strikePrice, c.optionType>>
                                              ELSE c.optionType
           parts  == SelectSeq(<<c.chainSymbol, strike, c.expirationDate>>,
                               LAMBDA x : x # None)
       IN  IF parts = <<>> THEN <<"option">>
           ELSE IF Len(parts) = 1 /\ c.chainSymbol # None
                THEN <<c.chainSymbol, "option">>
                ELSE parts

FirstOf(s, Test(_)) ==
  LET there == {i \in DOMAIN s : Test(s[i])} IN IF there = {} THEN None ELSE s[Min(there)]

legsLabel(legs) ==
  IF legs = <<>> THEN <<"option">>
  ELSE IF Len(legs) = 1 THEN contractLabel(legs[1].contract)
  ELSE LET named == FirstOf(legs, LAMBDA l : l.contract # None /\ l.contract.chainSymbol # None)
       IN  <<IF named = None THEN None ELSE named.contract.chainSymbol, Len(legs), "leg_spread">>

(***************************************************************************)
(* Cards.                                                                  *)
(***************************************************************************)
Summary(verb, size, name, price, est, shorts) ==
  [verb |-> verb, size |-> size, name |-> name, effect |-> None, price |-> price,
   est |-> est, shorts |-> shorts]

Blank == [kind |-> "place", assetType |-> "equity", symbol |-> None, side |-> None,
          quantity |-> None, orderType |-> None, limitPrice |-> None, estCost |-> None,
          cancelsOrderId |-> None, instrument |-> None, legs |-> <<>>,
          multiplier |-> None, direction |-> None, stopPrice |-> None,
          summary |-> None]

Size(quantity, dollars) ==
  IF quantity # None THEN <<"units", quantity>>
  ELSE IF dollars # None THEN <<"dollars", dollars>> ELSE None

\* Which price the line names; stops are the types that only carry a trigger.
Price(orderType, limitPrice, stopPrice, stops) ==
  IF orderType = "limit" THEN <<"limit", limitPrice>>
  ELSE IF orderType = "stop_limit" THEN <<"stop-limit", limitPrice, stopPrice>>
  ELSE IF orderType \in stops THEN <<"market", stopPrice>>
  ELSE <<"market">>

placeSummary(c, dollars) ==
  Summary(Or(c.side, "order"), Size(c.quantity, dollars), c.symbol,
          Price(c.orderType, c.limitPrice, c.stopPrice, {"stop_loss", "stop_market"}),
          IF c.quantity # None THEN c.estCost ELSE None, FALSE)

\* A single leg says whether it opens or closes a position.
optionSummary(c) ==
  [Summary(Or(c.side, "order"), Size(c.quantity, None), c.instrument,
           Price(c.orderType, c.limitPrice, c.stopPrice, {"stop_market"}), c.estCost, FALSE)
   EXCEPT !.effect = IF Len(c.legs) = 1 THEN c.legs[1].positionEffect ELSE None]

cancelSummary(c, name, dollars) ==
  IF name = None
  THEN Summary("cancel_order", None, None, None, None, FALSE)
  ELSE Summary("cancel", Size(c.quantity, dollars), <<c.side, name>>,
               IF c.orderType = "limit" /\ c.limitPrice # None
               THEN <<"limit", c.limitPrice>> ELSE None,
               None, FALSE)

inferType(o) == IF pick(o, <<"limit_price", "limitPrice">>) # None THEN "limit" ELSE None

\* Equity and crypto orders share one flat shape.
parseFlat(tool, o) ==
  LET crypto   == tool \in CryptoTools
      raw      == up(pick(o, <<"symbol", "ticker", "instrument">>))
      limit    == numv(pick(o, <<"limit_price", "limitPrice", "price">>))
      quantity == numv(pick(o, <<"quantity", "qty", "shares", "amount_in_shares">>))
      dollars  == numv(pick(o, <<"amount", "dollar_amount", "amount_in_dollars", "notional">>))
      card == [Blank EXCEPT
        !.assetType = IF crypto THEN "crypto" ELSE "equity",
        !.symbol    = IF crypto /\ raw \in DOMAIN Coin THEN Coin[raw] ELSE raw,
        !.side      = low(pick(o, <<"side", "direction">>)),
        !.quantity  = quantity,
        !.orderType = Or(low(pick(o, <<"type", "order_type", "orderType">>)), inferType(o)),
        !.limitPrice = limit,
        !.stopPrice = numv(pick(o, <<"stop_price", "stopPrice">>)),
        !.estCost   = Or(times(limit, quantity), dollars)]
  IN  [card EXCEPT !.summary = placeSummary(card, dollars)]

parseCancel(tool, o) ==
  [Blank EXCEPT
    !.kind = "cancel", !.orderType = "cancel",
    !.assetType = IF tool \in OptionTools THEN "option"
                  ELSE IF tool \in CryptoTools THEN "crypto" ELSE "equity",
    !.symbol = pick(o, <<"symbol", "ticker">>),
    !.cancelsOrderId = pick(o, <<"order_id", "id", "orderId">>),
    !.summary = Summary("cancel_order", None, pick(o, <<"order_id", "id", "orderId">>),
                        None, None, FALSE)]

Leg(id, side, effect, ratio) ==
  [optionId |-> id, side |-> side, positionEffect |-> effect, ratioQuantity |-> ratio,
   contract |-> None]

\* The contract of the first leg whose contract is known.
firstKnown(legs) ==
  LET known == {i \in DOMAIN legs : legs[i].contract # None}
  IN  IF known = {} THEN None ELSE legs[Min(known)].contract

\* Everything on an option's card that depends on its contracts.
buildOptionParsed(legs, quantity, orderType, limit, stop, direction, side) ==
  LET known == firstKnown(legs)
      multiplier == IF known = None THEN STANDARD_MULTIPLIER
                    ELSE Or(known.multiplier, STANDARD_MULTIPLIER)
      card == [Blank EXCEPT
        !.assetType = "option", !.side = side, !.quantity = quantity,
        !.orderType = orderType, !.limitPrice = limit, !.stopPrice = stop,
        !.direction = direction, !.legs = legs, !.instrument = legsLabel(legs),
        !.multiplier = multiplier,
        !.symbol = IF known = None THEN None ELSE up(known.chainSymbol),
        !.estCost = IF orderType \in {"limit", "stop_limit"}
                    THEN times(times(limit, multiplier), quantity) ELSE None]
  IN  [card EXCEPT !.summary = optionSummary(card)]

parseOptionOrder(o) ==
  LET raw  == Or(pick(o, <<"legs">>), <<>>)
      legs == [i \in DOMAIN raw |->
                 Leg(pick(raw[i], <<"option_id", "optionId", "id">>),
                     low(pick(raw[i], <<"side">>)),
                     low(pick(raw[i], <<"position_effect", "positionEffect">>)),
                     Or(numv(pick(raw[i], <<"ratio_quantity", "ratioQuantity">>)), 1))]
      priced == pick(o, <<"price", "limit_price">>) # None
      orderType == Or(low(pick(o, <<"type", "order_type", "orderType">>)),
                      IF priced THEN "limit" ELSE None)
      own == IF Len(legs) = 1 THEN legs[1].side ELSE None
      direction == Or(low(pick(o, <<"direction">>)),
                      IF own = None THEN None ELSE IF own = "sell" THEN "credit" ELSE "debit")
  IN  buildOptionParsed(legs, numv(pick(o, <<"quantity", "qty">>)), orderType,
                        numv(pick(o, <<"price", "limit_price", "limitPrice">>)),
                        numv(pick(o, <<"stop_price", "stopPrice">>)), direction,
                        IF Len(legs) = 1 THEN legs[1].side ELSE direction)

buildExerciseParsed(cancel, legs, quantity, allowShorts) ==
  LET contract == IF legs = <<>> THEN None ELSE legs[1].contract
      multiplier == IF contract = None THEN STANDARD_MULTIPLIER
                    ELSE Or(contract.multiplier, STANDARD_MULTIPLIER)
      estCost == IF cancel \/ contract = None THEN None
                 ELSE IF contract.optionType # "call" THEN None
                 ELSE times(times(contract.strikePrice, multiplier), quantity)
  IN  [Blank EXCEPT
        !.kind = IF cancel THEN "cancel" ELSE "exercise",
        !.orderType = IF cancel THEN "cancel" ELSE "exercise",
        !.assetType = "option", !.quantity = quantity, !.legs = legs,
        !.instrument = legsLabel(legs), !.multiplier = multiplier, !.estCost = estCost,
        !.symbol = IF contract = None THEN None ELSE up(contract.chainSymbol),
        !.summary = IF cancel
                    THEN Summary("cancel_exercise", None, legsLabel(legs), None, None, FALSE)
                    ELSE Summary("exercise", Size(quantity, None), legsLabel(legs), None,
                                 estCost, allowShorts)]

parseExercise(tool, o) ==
  LET id == pick(o, <<"option_id", "optionId">>)
  IN  buildExerciseParsed(tool \in CancelTools,
                          IF id = None THEN <<>> ELSE <<Leg(id, None, None, 1)>>,
                          numv(pick(o, <<"quantity">>)),
                          pick(o, <<"allow_shorts", "allowShorts">>) = TRUE)

parseOrderInput(tool, o) ==
  IF tool \in ExerciseTools THEN parseExercise(tool, o)
  ELSE IF tool \in CancelTools THEN parseCancel(tool, o)
  ELSE IF tool \in OptionTools \/ "legs" \in DOMAIN o THEN parseOptionOrder(o)
  ELSE parseFlat(tool, o)

-----------------------------------------------------------------------------
(***************************************************************************)
(* Enrichment: the contracts behind the legs, the order behind a cancel.   *)
(***************************************************************************)
enrichOptionParsedSlip(card, contracts) ==
  IF card.assetType # "option" \/ card.legs = <<>> THEN card
  ELSE LET legs == [i \in DOMAIN card.legs |->
                      LET l == card.legs[i]
                      IN  [l EXCEPT !.contract = IF l.optionId \in DOMAIN contracts
                                                 THEN contracts[l.optionId] ELSE @]]
       IN  IF card.kind = "exercise" \/ card.orderType = "cancel"
           THEN buildExerciseParsed(card.kind = "cancel", legs, card.quantity, FALSE)
           ELSE buildOptionParsed(legs, card.quantity, card.orderType, card.limitPrice,
                                  card.stopPrice, card.direction, card.side)

\* allow_shorts has no field of its own: it is read back from the summary line.
enrichOptionParsed(card, contracts) ==
  IF card.assetType # "option" \/ card.legs = <<>> THEN card
  ELSE LET legs == [i \in DOMAIN card.legs |->
                      LET l == card.legs[i]
                      IN  [l EXCEPT !.contract = IF l.optionId \in DOMAIN contracts
                                                 THEN contracts[l.optionId] ELSE @]]
       IN  IF \/ card.kind = "exercise"
              \/ card.kind = "cancel" /\ card.summary.verb = "cancel_exercise"
           THEN buildExerciseParsed(card.kind = "cancel", legs, card.quantity,
                                    card.summary.shorts)
           ELSE IF card.kind # "place" THEN card
           ELSE buildOptionParsed(legs, card.quantity, card.orderType, card.limitPrice,
                                  card.stopPrice, card.direction, card.side)

\* target: the order of the cached ledger the cancel names, or None.
enrichCancelParsed(card, target) ==
  IF card.kind # "cancel" \/ target = None THEN card
  ELSE LET option == target.assetType = "option"
           multiplier == IF option THEN Or(target.multiplier, STANDARD_MULTIPLIER) ELSE 1
           quantity == IF target.quantity # None /\ target.quantity > 0
                       THEN target.quantity ELSE None
           instrument == IF option THEN legsLabel(target.legs) ELSE None
           told == [card EXCEPT
             !.symbol = Or(up(target.symbol), @),
             !.side = low(target.side),
             !.quantity = quantity,
             !.orderType = Or(low(target.type), @),
             !.limitPrice = target.limitPrice,
             !.estCost = Or(times(times(target.limitPrice, multiplier), quantity),
                            target.dollarAmount),
             !.assetType = IF option THEN "option" ELSE @,
             !.instrument = IF option THEN instrument ELSE @,
             !.multiplier = IF option THEN multiplier ELSE @]
       IN  [told EXCEPT !.summary = cancelSummary(told, Or(instrument, up(target.symbol)),
                                                  target.dollarAmount)]

\* The broker's contract memory keeps, field by field, the latest known value.
Merge(c, prev) == [f \in DOMAIN c |-> Or(c[f], IF prev = None THEN None ELSE prev[f])]

rememberContracts(memory, learnt) ==
  [id \in DOMAIN memory \cup {c.optionId : c \in learnt} |->
     LET old == IF id \in DOMAIN memory THEN memory[id] ELSE None
         new == {c \in learnt : c.optionId = id}
     IN  IF new = {} THEN old ELSE Merge(CHOOSE c \in new : TRUE, old)]

-----------------------------------------------------------------------------
(***************************************************************************)
(* The result of an order call.  A reply is [isError, top, uuids, worded]: *)
(* the object its text parses to (an empty record when it is no JSON), the *)
(* uuids its text holds from left to right, and whether the text has an    *)
(* error word.                                                             *)
(***************************************************************************)
findUuid(uuids) == IF uuids = <<>> THEN None ELSE Head(uuids)

RejectedStates == {"rejected", "cancelled", "failed", "denied"}
AcceptedStates == {"queued", "confirmed", "unconfirmed", "filled", "partially_filled", "pending"}

parseOrderResultSlip(reply, tool) ==
  LET orderId == Or(pick(reply.top, <<"order_id", "id", "orderId", "order_number">>),
                    findUuid(reply.uuids))
  IN  [ok |-> IF reply.isError THEN FALSE ELSE IF orderId # None THEN TRUE ELSE None,
       orderId |-> orderId]

\* The first match decides: a cancel is judged by its "accepted" flag alone.
parseOrderResult(reply, tool) ==
  LET data     == Or(pick(reply.top, <<"data">>), reply.top)
      accepted == pick(data, <<"accepted">>)
      orderId  == Or(pick(reply.top, <<"order_id", "id", "orderId", "order_number">>),
                     findUuid(reply.uuids))
      state    == pick(reply.top, <<"state", "status", "order_state">>)
  IN  IF tool \in CancelTools
      THEN [ok |-> IF reply.isError THEN FALSE ELSE accepted, orderId |-> None]
      ELSE [ok |-> IF reply.isError \/ state \in RejectedStates THEN FALSE
                   ELSE IF orderId # None \/ state \in AcceptedStates THEN TRUE
                   ELSE IF reply.worded THEN FALSE ELSE None,
            orderId |-> orderId]

-----------------------------------------------------------------------------
(***************************************************************************)
(* The broker's order lists, mapped onto one shape.                        *)
(***************************************************************************)
mapOrderStatus(o) ==
  LET dollar == pickRaw(o, <<"dollar_based_amount">>)
  IN  [id |-> pickRaw(o, <<"id", "order_id">>), assetType |-> "equity",
       symbol |-> pickRaw(o, <<"symbol", "chain_symbol">>),
       side |-> pickRaw(o, <<"side", "direction">>),
       type |-> pickRaw(o, <<"type", "order_type">>),
       state |-> pickRaw(o, <<"state", "status">>),
       quantity |-> pickRaw(o, <<"quantity", "shares">>),
       cumulativeQuantity |-> pickRaw(o, <<"cumulative_quantity", "filled_quantity">>),
       avgPrice |-> pickRaw(o, <<"average_price">>),
       limitPrice |-> pickRaw(o, <<"price", "limit_price">>),
       dollarAmount |-> IF dollar = None THEN None ELSE pickRaw(dollar, <<"amount">>),
       multiplier |-> None, legs |-> <<>>]

mapCryptoOrderStatus(o) ==
  LET dollar == pickRaw(o, <<"dollar_based_amount", "dollar_amount">>)
  IN  [id |-> pickRaw(o, <<"id", "order_id">>), assetType |-> "crypto",
       symbol |-> pickRaw(o, <<"currency_code", "symbol">>),
       side |-> pickRaw(o, <<"side">>),
       type |-> pickRaw(o, <<"type", "order_type">>),
       state |-> pickRaw(o, <<"state", "status">>),
       quantity |-> pickRaw(o, <<"quantity">>),
       cumulativeQuantity |-> pickRaw(o, <<"cumulative_quantity", "filled_quantity">>),
       avgPrice |-> pickRaw(o, <<"average_price">>),
       limitPrice |-> pickRaw(o, <<"limit_price", "price">>),
       dollarAmount |-> IF dollar = None THEN None ELSE pickRaw(dollar, <<"amount">>),
       multiplier |-> None, legs |-> <<>>]

mapOrderLegs(raw, chainSymbol, multiplier) ==
  [i \in DOMAIN raw |->
     LET id == pickRaw(raw[i], <<"option_id", "option">>)
     IN  [Leg(id, pickRaw(raw[i], <<"side">>), pickRaw(raw[i], <<"position_effect">>),
              pickRaw(raw[i], <<"ratio_quantity">>)) EXCEPT
            !.contract = [optionId |-> id, chainSymbol |-> chainSymbol,
                          expirationDate |-> pickRaw(raw[i], <<"expiration_date">>),
                          strikePrice |-> pickRaw(raw[i], <<"strike_price">>),
                          optionType |-> pickRaw(raw[i], <<"option_type", "type">>),
                          multiplier |-> multiplier]]]

\* Volume-weighted price of every execution of the legs.
executionsVwap(legs) ==
  LET all == FlattenSeq([i \in DOMAIN legs |-> legs[i].executions])
      qty == FoldLeft(LAMBDA t, e : t + e.quantity, 0, all)
      notional == FoldLeft(LAMBDA t, e : t + e.price * e.quantity, 0, all)
  IN  IF qty > 0 THEN notional \div qty ELSE None

mapOptionOrderStatusSlip(o) ==
  LET multiplier == pickRaw(o, <<"trade_value_multiplier">>)
      legs == mapOrderLegs(pickRaw(o, <<"legs">>), pickRaw(o, <<"chain_symbol">>), multiplier)
      done == pickRaw(o, <<"processed_quantity", "cumulative_quantity">>)
      premium == pickRaw(o, <<"processed_premium">>)
  IN  [id |-> pickRaw(o, <<"id", "order_id">>), assetType |-> "option",
       symbol |-> pickRaw(o, <<"chain_symbol">>),
       side |-> IF Len(legs) = 1 THEN legs[1].side ELSE pickRaw(o, <<"direction">>),
       type |-> pickRaw(o, <<"type", "order_type">>),
       state |-> pickRaw(o, <<"state", "status">>),
       quantity |-> pickRaw(o, <<"quantity">>), cumulativeQuantity |-> done,
       avgPrice |-> IF premium # None /\ done > 0 THEN premium \div done
                    ELSE executionsVwap(pickRaw(o, <<"legs">>)),
       limitPrice |-> pickRaw(o, <<"price", "limit_price">>), dollarAmount |-> None,
       multiplier |-> multiplier, legs |-> legs]

mapOptionOrderStatus(o) ==
  LET multiplier == pickRaw(o, <<"trade_value_multiplier">>)
      legs == mapOrderLegs(pickRaw(o, <<"legs">>), pickRaw(o, <<"chain_symbol">>), multiplier)
      done == pickRaw(o, <<"processed_quantity", "cumulative_quantity">>)
      premium == pickRaw(o, <<"processed_premium">>)
  IN  [id |-> pickRaw(o, <<"id", "order_id">>), assetType |-> "option",
       symbol |-> pickRaw(o, <<"chain_symbol">>),
       side |-> IF Len(legs) = 1 THEN legs[1].side ELSE pickRaw(o, <<"direction">>),
       type |-> pickRaw(o, <<"type", "order_type">>),
       state |-> pickRaw(o, <<"state", "status">>),
       quantity |-> pickRaw(o, <<"quantity">>), cumulativeQuantity |-> done,
       avgPrice |-> IF premium # None /\ done > 0 /\ multiplier # None
                    THEN premium \div (done * multiplier)
                    ELSE executionsVwap(pickRaw(o, <<"legs">>)),
       limitPrice |-> pickRaw(o, <<"price", "limit_price">>), dollarAmount |-> None,
       multiplier |-> multiplier, legs |-> legs]

-----------------------------------------------------------------------------
(***************************************************************************)
(* What the Activity tab and a notification say of an order of the ledger. *)
(***************************************************************************)
fromRhState(state) ==
  IF state = "filled" THEN "filled"
  ELSE IF state \in {"cancelled", "rejected", "failed", "voided"} THEN "failed"
  ELSE "working"

\* What one unit cost: a contract's price carries its multiplier.
perUnit(s) ==
  IF s.assetType = "option" THEN times(s.avgPrice, Or(s.multiplier, STANDARD_MULTIPLIER))
                            ELSE s.avgPrice

\* The signed cash line of a row; None while nothing was executed.
executedNumbers(s, side) ==
  IF s = None THEN None
  ELSE IF s.cumulativeQuantity = 0 \/ s.avgPrice = None THEN None
  ELSE LET cost == s.cumulativeQuantity * perUnit(s)
       IN  IF side \in {"buy", "debit"} THEN -cost ELSE cost

TERMINAL_STATES == {"filled", "rejected", "cancelled", "failed", "expired", "voided"}

orderNotification(s) ==
  [verb |-> IF s.state \in TERMINAL_STATES THEN s.state ELSE "failed",
   units |-> Size(IF s.cumulativeQuantity > 0 THEN s.cumulativeQuantity ELSE None,
                  s.dollarAmount),
   price |-> IF s.state = "filled" THEN perUnit(s) ELSE None]
=============================================================================
