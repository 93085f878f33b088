---------------------------- MODULE MCOrderTrail ----------------------------
(* Two cards over equities, options, spreads, exercises, crypto and cancels. *)
EXTENDS OrderTrail

MCFacts ==
  [C1 |-> [optionId |-> "C1", chainSymbol |-> "TLT", expirationDate |-> "11/20/26",
           strikePrice |-> 80, optionType |-> "call", multiplier |-> 100],
   C2 |-> [optionId |-> "C2", chainSymbol |-> "XSP", expirationDate |-> "12/18/26",
           strikePrice |-> 40, optionType |-> "put", multiplier |-> 10],
   C3 |-> [optionId |-> "C3", chainSymbol |-> "TLT", expirationDate |-> "11/20/26",
           strikePrice |-> 90, optionType |-> "call", multiplier |-> 100]]

Meaning == [act |-> "place", asset |-> "equity", symbol |-> None, side |-> None, qty |-> None,
            price |-> None, dollars |-> None, legs |-> <<>>, target |-> None, shorts |-> FALSE]

Call(tool, input, means) == [tool |-> tool, input |-> input, means |-> means @@ Meaning]

Cancels(tool, id, asset) ==
  Call(tool, [order_id |-> id], [act |-> "cancel", asset |-> asset, target |-> id])

L(id, side, effect) == [option_id |-> id, side |-> side, position_effect |-> effect]
M(id, side, effect) == [optionId |-> id, side |-> side, positionEffect |-> effect]

FirstCalls ==
  {Call("place_equity_order", [symbol |-> "aapl", side |-> "BUY", quantity |-> 2, limit_price |-> 8],
        [symbol |-> "AAPL", side |-> "buy", qty |-> 2, price |-> 8]),
   Call("place_crypto_order", [ticker |-> "BTC-USD", direction |-> "SELL", quantity |-> Garbage,
                               type |-> "market", dollar_amount |-> 6],
        [asset |-> "crypto", symbol |-> "BTC", side |-> "sell", dollars |-> 6]),
   Call("place_option_order", [legs |-> <<L("C2", "SELL", "open")>>, quantity |-> 2, price |-> 3],
        [asset |-> "option", symbol |-> "XSP", side |-> "sell", qty |-> 2, price |-> 3,
         legs |-> <<M("C2", "sell", "open")>>]),
   Call("place_option_order", [legs |-> <<L("C1", "buy", "open"), L("C3", "sell", "open")>>, quantity |-> 1,
                               type |-> "limit", price |-> 2, direction |-> "debit"],
        [asset |-> "option", symbol |-> "TLT", side |-> "debit", qty |-> 1, price |-> 2,
         legs |-> <<M("C1", "buy", "open"), M("C3", "sell", "open")>>]),
   Call("exercise_option", [option_id |-> "C1", quantity |-> 2],
        [act |-> "exercise", asset |-> "option", symbol |-> "TLT", qty |-> 2,
         legs |-> <<M("C1", "buy", None)>>]),
   Call("exercise_option", [option_id |-> "C2", quantity |-> 1, allow_shorts |-> TRUE],
        [act |-> "exercise", asset |-> "option", symbol |-> "XSP", qty |-> 1, shorts |-> TRUE,
         legs |-> <<M("C2", "buy", None)>>]),
   Cancels("cancel_crypto_order", "m", "crypto")}

SecondCalls ==
  {Call("place_equity_order", [symbol |-> "AAPL", side |-> "sell", shares |-> 1, price |-> 4],
        [symbol |-> "AAPL", side |-> "sell", qty |-> 1, price |-> 4]),
   Call("cancel_option_exercise", [option_id |-> "C1"],
        [act |-> "cancel", asset |-> "option", symbol |-> "TLT", legs |-> <<M("C1", "buy", None)>>]),
   Cancels("cancel_equity_order", "o1", "equity"),
   Cancels("cancel_option_order", "o1", "option")}

MCCalls == [a1 |-> FirstCalls, a2 |-> SecondCalls]

\* A crypto order the user placed in the app: two coins at a limit of 2, one bought.
MCAppOrders ==
  [m |-> [means |-> [act |-> "place", asset |-> "crypto", symbol |-> "BTC", side |-> "buy",
                     qty |-> 2, price |-> 2] @@ Meaning,
          state |-> "partially_filled", done |-> 1, by |-> "app"]]

Night(asset, name, qty, paid, direct) ==
  [of |-> "night", asset |-> asset, name |-> name, qty |-> qty, paid |-> paid,
   today |-> FALSE, direct |-> direct]

\* A share, three coins from another wallet, a long and a short contract.
MCOvernight ==
  {Night("equity", "AAPL", 1, 2, TRUE), Night("crypto", "BTC", 3, 0, FALSE),
   Night("option", "C1", 1, 1, TRUE), Night("option", "C3", -1, 2, TRUE)}

MCPrices ==
  [AAPL |-> [last |-> 9, close |-> 7], BTC |-> [last |-> 5, close |-> 4],
   C1 |-> [last |-> 4, close |-> 2], C2 |-> [last |-> 2, close |-> 5],
   C3 |-> [last |-> 3, close |-> 1]]

MCApprovals == <<"a1", "a2">>
MCOrderOf == [a1 |-> "o1", a2 |-> "o2"]

=============================================================================
