----------------------------- MODULE OrderTrail -----------------------------
(***************************************************************************)
(* One agent's order calls from the tool call to the rows of the Activity  *)
(* tab: the gate reads the call into a card (approvals/index.ts), the      *)
(* broker runs it, its reply is read into an outcome, the poll maps the    *)
(* broker's lists into the cached ledger (broker/index.ts), and the tab    *)
(* joins the audit trail with that ledger (renderer/lib/activity-groups.ts *)
(* and components/panels/Activity.tsx).  Who may decide a card and when is *)
(* ApprovalGate's subject, how the ledger is swept OrderLedger's; here the *)
(* subject is what the user is told.                                       *)
(*                                                                         *)
(* Calls has the order calls behind each card: [tool, input, means], means *)
(* being the order the agent wants, which the broker, who reads its own    *)
(* schema, understands.  AppOrders are orders the user placed in the       *)
(* broker's own app.  Facts are the option contracts as the exchange lists *)
(* them.  A poll also reads what the account holds after the fills so far. *)
(*                                                                         *)
(* Definitions named ...Slip are mistaken variants of the definition they  *)
(* precede; no specification uses them.                                    *)
(***************************************************************************)
EXTENDS Holdings

CONSTANTS Approvals,    \* cards in the order they are raised: <<a1, a2, ...>>
          Calls,        \* the calls that may be behind each card
          AppOrders, Facts,
          Overnight,    \* the lots the account held when the day began
          Prices,       \* last price and previous close of what can be held
          OrderOf,      \* the id the broker gives the order placed through a card
          Moving,       \* the orders that trade and whose cards age (a bound)
          FeedLimit     \* audit entries the tab reads (200 in the code)

VARIABLES
  call,       \* the call behind each card, None before it is made
  card,       \* ParsedOrder as stored with the approval and its order_intent
  status,     \* the approval's status
  did,        \* what the broker did with the call: "unsent", "accepted", "refused"
  reply,      \* the result on its way from the broker to recordOutcome
  outcome,    \* OrderOutcome of the approval
  audit,      \* the audit log: [kind, approvalId], oldest first
  aged,       \* cards whose intent is older than SETTLE_MS
  orders,     \* the broker's orders: id -> [means, state, done, by]
  ledger,     \* the cached ledger: id -> OrderStatus; None before the first poll
  contracts   \* option contracts the broker service has learnt

trailVars == <<call, card, status, did, reply, outcome, audit, aged, orders, ledger, contracts>>
gate == <<call, card, status, aged>>

A == Range(Approvals)

\* What a tool does by its name.
ActOf(tool) ==
  IF tool \in CancelTools THEN "cancel" ELSE IF tool \in ExerciseTools THEN "exercise" ELSE "place"

\* The words the program compares a field with.
Words == RejectedStates \cup AcceptedStates \cup
         DOMAIN Lower \cup DOMAIN Upper \cup DOMAIN Coin \cup
         {"place", "cancel", "exercise", "expired", "ref", "buy", "sell", "debit", "credit",
          "limit", "stop_limit", "market", "equity", "crypto", "option", "call", "put"}

\* null is no value a field can have.
ASSUME NoneAssumption ==
  /\ None \notin Words /\ None \notin BOOLEAN /\ None \notin Int
  /\ None \notin [accepted : BOOLEAN] /\ Garbage \notin Int \cup {None}

ASSUME ApprovalsAssumption == Approvals \in Seq(A) /\ IsInjective(Approvals) /\ None \notin A

\* The broker gives every order an id of its own; "ref" is nobody's.
ASSUME OrderIdsAssumption ==
  /\ \A a, b \in A : OrderOf[a] = OrderOf[b] => a = b
  /\ \A a \in A : OrderOf[a] \notin DOMAIN AppOrders \cup {"ref", None}
  /\ DOMAIN AppOrders \cap {"ref", None} = {}
  /\ \A id \in DOMAIN AppOrders : DOMAIN AppOrders[id] = {"means", "state", "done", "by"}

ASSUME FeedLimitAssumption == FeedLimit \in Nat

Entry(kind, a) == [kind |-> kind, approvalId |-> a]

-----------------------------------------------------------------------------
(***************************************************************************)
(* The broker.                                                             *)
(***************************************************************************)
Live == {"queued", "partially_filled"}

Multiplier(m) == IF m.asset = "option" THEN Facts[m.legs[1].optionId].multiplier ELSE 1

(***************************************************************************)
(* What orders and calls mean.  The tools read their inputs leniently; a   *)
(* call means what its input says, under whichever name of a field it says *)
(* it, and it says one thing.                                              *)
(***************************************************************************)
Fields == {"optionId", "chainSymbol", "expirationDate", "strikePrice", "optionType", "multiplier"}
Numbers == Int \cup {None}

\* The contracts of an order are of one chain.
OneChain(m) ==
  /\ m.legs # <<>> /\ m.legs \in Seq(Range(m.legs))
  /\ \A i \in DOMAIN m.legs :
       /\ m.legs[i].optionId \in DOMAIN Facts
       /\ Facts[m.legs[i].optionId].chainSymbol = m.symbol
       /\ Facts[m.legs[i].optionId].multiplier = Multiplier(m)

\* An order as the broker takes it, in the broker's spelling.
WellFormed(m) ==
  /\ m.act = "place" /\ m.asset \in {"equity", "crypto", "option"}
  /\ {m.qty, m.price, m.dollars} \subseteq Numbers /\ (m.qty = None \/ m.qty > 0)
  /\ m.side \notin DOMAIN Lower /\ m.symbol \notin DOMAIN Upper
  /\ m.asset = "option" => /\ OneChain(m) /\ m.dollars = None
                           /\ Len(m.legs) = 1 => m.legs[1].side = m.side

\* What an object has under these names.
Named(o, names) == {o[k] : k \in names \cap DOMAIN o} \ {None}

Says(said, v) == said = IF v = None THEN {} ELSE {v}
SaysNumber(said, v) == IF v = None THEN said \subseteq {Garbage} ELSE said = {v}

FlatSays(tool, o, m) ==
  LET ticker(w) == IF tool \in CryptoTools /\ up(w) \in DOMAIN Coin THEN Coin[up(w)] ELSE up(w)
  IN  /\ m.asset # "option" /\ "legs" \notin DOMAIN o
      /\ Says({ticker(w) : w \in Named(o, {"symbol", "ticker", "instrument"})}, m.symbol)
      /\ Says({low(w) : w \in Named(o, {"side", "direction"})}, m.side)
      /\ SaysNumber(Named(o, {"quantity", "qty", "shares", "amount_in_shares"}), m.qty)
      /\ SaysNumber(Named(o, {"limit_price", "limitPrice", "price"}), m.price)
      /\ SaysNumber(Named(o, {"amount", "dollar_amount", "amount_in_dollars", "notional"}),
                    m.dollars)

\* A price is a limit unless the type says otherwise; a spread says its direction.
OptionSays(o, m) ==
  LET type == Named(o, {"type", "order_type", "orderType"})
  IN  /\ m.asset = "option"
      /\ "legs" \in DOMAIN o /\ o.legs # None /\ DOMAIN o.legs = DOMAIN m.legs
      /\ \A i \in DOMAIN m.legs :
           /\ Says(Named(o.legs[i], {"option_id", "optionId", "id"}), m.legs[i].optionId)
           /\ Says({low(w) : w \in Named(o.legs[i], {"side"})}, m.legs[i].side)
           /\ Says({low(w) : w \in Named(o.legs[i], {"position_effect", "positionEffect"})},
                   m.legs[i].positionEffect)
      /\ SaysNumber(Named(o, {"quantity", "qty"}), m.qty)
      /\ SaysNumber(Named(o, {"price", "limit_price", "limitPrice"}), m.price)
      /\ m.price # None => IF type = {} THEN Named(o, {"price", "limit_price"}) # {}
                                         ELSE {low(w) : w \in type} \subseteq {"limit", "stop_limit"}
      /\ Len(m.legs) # 1 => Says({low(w) : w \in Named(o, {"direction"})}, m.side)

ExerciseSays(o, m) ==
  /\ m.asset = "option" /\ OneChain(m) /\ Len(m.legs) = 1
  /\ Says(Named(o, {"option_id", "optionId"}), m.legs[1].optionId)
  /\ m.qty \in Numbers /\ SaysNumber(Named(o, {"quantity"}), m.qty)
  /\ m.shorts = (TRUE \in Named(o, {"allow_shorts", "allowShorts"}))
  /\ Named(o, {"allow_shorts", "allowShorts"}) \subseteq {m.shorts}

CancelSays(o, m) ==
  /\ Says(Named(o, {"order_id", "id", "orderId"}), m.target)
  /\ Named(o, {"symbol", "ticker"}) = {}

(* A call does what its tool is named for, and a cancel names its order by *)
(* an id the broker gave, which is known once that order is placed.        *)
ASSUME CallsAssumption ==
  \A i \in DOMAIN Approvals : \A c \in Calls[Approvals[i]] :
    /\ c.means.act = ActOf(c.tool)
    /\ c.means.act = "place" =>
         /\ WellFormed(c.means)
         /\ IF c.tool \in OptionTools THEN OptionSays(c.input, c.means)
                                       ELSE FlatSays(c.tool, c.input, c.means)
    /\ c.tool \in ExerciseTools => ExerciseSays(c.input, c.means)
    /\ c.tool \in CancelTools \ ExerciseTools => CancelSays(c.input, c.means)
    /\ c.tool \in CancelTools \cap ExerciseTools => c.means.target = None
    /\ c.means.target # "ref"
    /\ \A j \in DOMAIN Approvals : i <= j => c.means.target # OrderOf[Approvals[j]]

ASSUME AppOrdersAssumption == \A id \in DOMAIN AppOrders : WellFormed(AppOrders[id].means)

ASSUME FactsAssumption ==
  /\ None \notin DOMAIN Facts
  /\ \A id \in DOMAIN Facts : /\ DOMAIN Facts[id] = Fields /\ Facts[id].optionId = id
                              /\ {Facts[id].multiplier, Facts[id].strikePrice} \subseteq Int
                              /\ Facts[id].chainSymbol \notin DOMAIN Upper

ASSUME OvernightAssumption ==
  \A n \in Overnight : /\ {"asset", "name", "qty"} \subseteq DOMAIN n
                       /\ n.asset = "option" => n.name \in DOMAIN Facts

\* What one unit trades at: the limit, or the market's price of 3.
FillPrice(m) == IF m.price # None THEN m.price ELSE 3

Units(m) == IF m.qty # None THEN m.qty ELSE m.dollars \div FillPrice(m)

\* The cash an order has moved so far.
Cash(o) == o.done * FillPrice(o.means) * Multiplier(o.means)

\* A spread's net price is the bought leg's less the sold leg's.
LegPrice(m, i) ==
  IF Len(m.legs) = 1 THEN FillPrice(m) ELSE IF m.legs[i].side = "buy" THEN FillPrice(m) + 1 ELSE 1

(***************************************************************************)
(* What the account holds: the lots of the night, less the shares and      *)
(* coins sold today, and the lots of today's fills.                        *)
(***************************************************************************)
Sold(name) ==
  LET ids == {id \in DOMAIN orders : LET m == orders[id].means
                                     IN  m.asset # "option" /\ m.side = "sell" /\ m.symbol = name}
  IN  Total(LAMBDA id : orders[id].done, ids)

Lot(id, asset, name, qty, paid) ==
  [of |-> id, asset |-> asset, name |-> name, qty |-> qty, paid |-> paid,
   today |-> TRUE, direct |-> TRUE]

LotsOf(id) ==
  LET o == orders[id]
      m == o.means
  IN  IF m.asset = "option"
      THEN {Lot(id, "option", m.legs[i].optionId,
                IF m.legs[i].side = "buy" THEN o.done ELSE -o.done, LegPrice(m, i)) :
              i \in DOMAIN m.legs}
      ELSE IF m.side = "buy" THEN {Lot(id, m.asset, m.symbol, o.done, FillPrice(m))} ELSE {}

Held(asset) ==
  {l \in {[n EXCEPT !.qty = @ - Sold(n.name)] : n \in Overnight}
            \cup UNION {LotsOf(id) : id \in DOMAIN orders} :
     l.asset = asset /\ l.qty # 0}

(***************************************************************************)
(* The broker's own rendering of an order.  brief: the option list leaves  *)
(* out the strikes and the premium of a single-leg order.                  *)
(***************************************************************************)
Rendered(id, o, brief) ==
  LET m == o.means
      avg == IF o.done > 0 THEN FillPrice(m) ELSE None
      sparse == brief /\ Len(m.legs) = 1
      type == IF m.price # None THEN "limit" ELSE "market"
  IN  IF m.asset = "equity"
      THEN [id |-> id, symbol |-> m.symbol, side |-> m.side, type |-> type,
            state |-> o.state, quantity |-> m.qty, cumulative_quantity |-> o.done,
            average_price |-> avg, price |-> m.price,
            dollar_based_amount |-> IF m.dollars # None THEN [amount |-> m.dollars] ELSE None]
      ELSE IF m.asset = "crypto"
      THEN [id |-> id, currency_code |-> m.symbol, side |-> m.side, type |-> type,
            state |-> o.state, quantity |-> m.qty, cumulative_quantity |-> o.done,
            average_price |-> avg, limit_price |-> m.price,
            dollar_amount |-> IF m.dollars # None THEN [amount |-> m.dollars] ELSE None]
      ELSE [id |-> id, chain_symbol |-> m.symbol, direction |-> m.side, type |-> type,
            state |-> o.state, quantity |-> m.qty, processed_quantity |-> o.done,
            processed_premium |-> IF sparse THEN None ELSE Cash(o),
            price |-> m.price, trade_value_multiplier |-> Multiplier(m),
            legs |-> [i \in DOMAIN m.legs |->
              LET f == Facts[m.legs[i].optionId]
              IN  [option_id |-> f.optionId, side |-> m.legs[i].side,
                   position_effect |-> m.legs[i].positionEffect, ratio_quantity |-> 1,
                   expiration_date |-> f.expirationDate,
                   strike_price |-> IF sparse THEN None ELSE f.strikePrice,
                   option_type |-> f.optionType,
                   executions |-> IF o.done = 0 THEN <<>>
                                  ELSE <<[price |-> LegPrice(m, i), quantity |-> o.done]>>]]]

Mapped(id, o, brief) ==
  LET raw == Rendered(id, o, brief)
  IN  IF o.means.asset = "equity" THEN mapOrderStatus(raw)
      ELSE IF o.means.asset = "crypto" THEN mapCryptoOrderStatus(raw)
      ELSE mapOptionOrderStatus(raw)

\* The shapes a reply to an accepted order can take; ref is the caller's own reference.
Accepted(id) ==
  {[isError |-> FALSE, top |-> [id |-> id, state |-> "queued"], uuids |-> <<id>>, worded |-> FALSE],
   [isError |-> FALSE, top |-> [data |-> [id |-> id]], uuids |-> <<id>>, worded |-> TRUE],
   [isError |-> FALSE, top |-> [data |-> [ref_id |-> "ref"]], uuids |-> <<"ref", id>>, worded |-> FALSE],
   [isError |-> FALSE, top |-> <<>>, uuids |-> <<>>, worded |-> FALSE]}

Refusal == [isError |-> FALSE, top |-> <<>>, uuids |-> <<>>, worded |-> TRUE]

\* The guide that comes with a cancel's answer names error states and the order.
CancelReply(yes, id) ==
  [isError |-> FALSE, top |-> [data |-> [accepted |-> yes]], uuids |-> <<id>>, worded |-> TRUE]

-----------------------------------------------------------------------------
TrailInit ==
  /\ call = [a \in A |-> None]
  /\ card = [a \in A |-> None]
  /\ status = [a \in A |-> "none"]
  /\ did = [a \in A |-> "unsent"]
  /\ reply = [a \in A |-> None]
  /\ outcome = [a \in A |-> None]
  /\ audit = <<>>
  /\ aged = {}
  /\ orders = AppOrders
  /\ ledger = None
  /\ contracts = <<>>

\* The cached ledger's view of the order a cancel names.
Target(id) ==
  IF ledger = None THEN None ELSE IF id \in DOMAIN ledger THEN ledger[id] ELSE None

\* Cache first: only ids that are not known yet are looked up.
resolveOptionContracts(ids) ==
  rememberContracts(contracts, {mapOptionInstrument(InstrumentRow(Facts[i])) :
                                  i \in ids \ DOMAIN contracts})

Wanted(p) == {p.legs[i].optionId : i \in DOMAIN p.legs}

(***************************************************************************)
(* request(): read the call, name the order a cancel targets from the      *)
(* ledger, name an option's contracts (known ones at once, the rest by a   *)
(* lookup: there is none while disconnected, and it may answer late),      *)
(* store the card and its intent.                                          *)
(***************************************************************************)
Propose(a, c, answer) ==
  LET read   == parseOrderInput(c.tool, c.input)
      named  == IF read.kind = "cancel" /\ read.cancelsOrderId # None
                THEN enrichCancelParsed(read, Target(read.cancelsOrderId)) ELSE read
      missing == Wanted(named) \ DOMAIN contracts
      memory == IF answer = "none" THEN contracts
                ELSE resolveOptionContracts(missing)
  IN  /\ c.tool \in MONEY_MOVERS
      /\ status[a] = "none"
      /\ c.means.target \in DOMAIN orders => orders[c.means.target].means.asset = c.means.asset
      /\ \A i \in DOMAIN Approvals :   \* tool calls of one agent come one at a time
            Approvals[i] = a => \A j \in 1..(i - 1) :
              /\ status[Approvals[j]] \notin {"none", "pending"}
              /\ status[Approvals[j]] = "approved" =>
                    did[Approvals[j]] # "unsent" /\ reply[Approvals[j]] = None
      /\ answer # "none" => missing # {}
      /\ call' = [call EXCEPT ![a] = c]
      \* a late answer names nothing on this card, not even the known contracts
      /\ card' = [card EXCEPT ![a] = IF answer = "late" THEN named
                                     ELSE enrichOptionParsed(named, memory)]
      /\ status' = [status EXCEPT ![a] = "pending"]
      /\ audit' = Append(audit, Entry("order_intent", a))
      /\ contracts' = memory
      /\ UNCHANGED <<did, reply, outcome, aged, orders, ledger>>

\* finalize(): the user, the mode or the timeout decides.
Finalize(a, verdict) ==
  /\ status[a] = "pending"
  /\ status' = [status EXCEPT ![a] = verdict]
  /\ audit' = Append(audit, Entry("approval_decision", a))
  /\ UNCHANGED <<call, card, did, reply, outcome, aged, orders, ledger, contracts>>

\* SETTLE_MS pass after the intent of an order that is approved by then.
Age(a) ==
  /\ status[a] = "approved" /\ a \notin aged /\ OrderOf[a] \in Moving
  /\ aged' = aged \cup {a}
  /\ UNCHANGED <<call, card, status, did, reply, outcome, audit, orders, ledger, contracts>>

(***************************************************************************)
(* The broker runs an approved call.                                       *)
(***************************************************************************)
Ready(a) == status[a] = "approved" /\ did[a] = "unsent"

Run(a, r, deed) ==
  /\ did' = [did EXCEPT ![a] = deed]
  /\ reply' = [reply EXCEPT ![a] = r]

PlaceOrder(a) ==
  LET m == call[a].means
  IN  /\ Ready(a) /\ m.act = "place"
      /\ orders' = [id \in DOMAIN orders \cup {OrderOf[a]} |->
                      IF id = OrderOf[a] THEN [means |-> m, state |-> "queued", done |-> 0, by |-> a]
                                         ELSE orders[id]]
      /\ \E r \in Accepted(OrderOf[a]) : Run(a, r, "accepted")
      /\ UNCHANGED <<gate, outcome, audit, ledger, contracts>>

Refuse(a) ==
  /\ Ready(a) /\ call[a].means.act \in {"place", "exercise"}
  /\ Run(a, Refusal, "refused")
  /\ UNCHANGED <<gate, outcome, audit, orders, ledger, contracts>>

Exercise(a) ==
  /\ Ready(a) /\ call[a].means.act = "exercise"
  /\ Run(a, [isError |-> FALSE, top |-> [state |-> "queued"], uuids |-> <<>>, worded |-> FALSE],
            "accepted")
  /\ UNCHANGED <<gate, outcome, audit, orders, ledger, contracts>>

Cancel(a) ==
  LET id == call[a].means.target
      yes == id = None \/ (id \in DOMAIN orders /\ orders[id].state \in Live)
  IN  /\ Ready(a) /\ call[a].means.act = "cancel"
      /\ Run(a, CancelReply(yes, id), IF yes THEN "accepted" ELSE "refused")
      /\ UNCHANGED <<gate, outcome, audit, orders, ledger, contracts>>

\* A live order is filled, in part or whole, or ends otherwise (also from the app).
Trade(id, state) ==
  /\ orders[id].state \in Live
  /\ state = "rejected" => orders[id].done = 0
  /\ state = "partially_filled" => orders[id].state = "queued" /\ Units(orders[id].means) > 1
  /\ orders' = [orders EXCEPT ![id].state = state,
                              ![id].done = IF state = "filled" THEN Units(orders[id].means)
                                           ELSE IF state = "partially_filled" THEN 1 ELSE @]
  /\ UNCHANGED <<call, card, status, did, reply, outcome, audit, aged, ledger, contracts>>

(***************************************************************************)
(* recordOutcome(), or the report that never arrives.                      *)
(***************************************************************************)
Observe(a) ==
  /\ reply[a] # None
  /\ outcome' = [outcome EXCEPT ![a] = parseOrderResult(reply[a], call[a].tool)]
  /\ audit' = Append(audit, Entry("order_observed", a))
  /\ reply' = [reply EXCEPT ![a] = None]
  /\ UNCHANGED <<gate, did, orders, ledger, contracts>>

ReportLost(a) ==
  /\ reply[a] # None
  /\ reply' = [reply EXCEPT ![a] = None]
  /\ UNCHANGED <<gate, did, outcome, audit, orders, ledger, contracts>>

(***************************************************************************)
(* A poll reads the positions and their quotes, then the order lists.  The *)
(* positions it caches are not kept as state: they follow from the lists   *)
(* read, AccountRead below being what a poll of this moment writes.  The   *)
(* order lists become the ledger; contracts of positions are looked up and *)
(* those of order legs learnt.                                             *)
(***************************************************************************)
Names(asset) == {l.name : l \in Held(asset)}

Rows(asset, Row(_, _)) ==
  LET lots == Held(asset)
  IN  {Row(n, {l \in lots : l.name = n}) : n \in {l.name : l \in lots}}

Poll(brief) ==
  LET fresh == [id \in DOMAIN orders |-> Mapped(id, orders[id], brief)]
      learnt == UNION {{fresh[id].legs[i].contract : i \in DOMAIN fresh[id].legs} :
                         id \in DOMAIN fresh}
  IN  /\ brief => \E id \in DOMAIN orders : Len(orders[id].means.legs) = 1
      /\ ledger' = fresh
      /\ contracts' = rememberContracts(resolveOptionContracts(Names("option")), learnt)
      /\ UNCHANGED <<call, card, status, did, reply, outcome, audit, aged, orders>>

pollPositions(quotes) ==
  LET raw == Rows("equity", LAMBDA n, lots : mapPosition(EquityRow(n, lots)))
  IN  {enrichPosition(p, QuoteOf(quotes, "symbol", p.symbol)) : p \in raw}

pollOptionPositions(brief) ==
  LET raw == Rows("option", LAMBDA n, lots : mapOptionPosition(OptionRow(lots, Facts[n], brief)))
      memory == resolveOptionContracts(Names("option"))
      quotes == {mapOptionQuote(OptionQuoteRow(n, Prices[n])) : n \in Names("option")}
  IN  {enrichOptionPosition(p, memory[p.optionId], QuoteOf(quotes, "optionId", p.optionId)) :
         p \in raw}

pollCryptoPositions ==
  LET raw == Rows("crypto", LAMBDA n, lots : mapCryptoPosition(CryptoRow(n, lots)))
      quotes == {mapCryptoQuote(CryptoQuoteRow(n, Prices[n])) : n \in Names("crypto")}
  IN  {enrichCryptoPosition(p, QuoteOf(quotes, "symbol", Pair[p.assetCode])) : p \in raw}

AccountRead(brief) ==
  LET quotes == {mapQuote(EquityQuoteRow(n, Prices[n])) : n \in Names("equity")}
      positions == pollPositions(quotes)
      options == pollOptionPositions(brief)
  IN  [positions |-> positions, options |-> options, cryptos |-> pollCryptoPositions,
       dayChange |-> withDayChange(positions, quotes, options, pollCryptoPositions)]

TrailNext ==
  \/ \E a \in A :
       \/ \E c \in Calls[a], answer \in {"none", "found", "late"} : Propose(a, c, answer)
       \/ \E v \in {"approved", "rejected", "expired"} : Finalize(a, v)
       \/ Age(a) \/ PlaceOrder(a) \/ Refuse(a) \/ Exercise(a) \/ Cancel(a)
       \/ Observe(a) \/ ReportLost(a)
  \/ \E id \in DOMAIN orders \cap Moving :
       \E s \in {"partially_filled", "filled", "cancelled", "rejected", "expired"} : Trade(id, s)
  \/ \E brief \in BOOLEAN : Poll(brief)

TrailSpec == TrailInit /\ [][TrailNext]_trailVars

-----------------------------------------------------------------------------
(***************************************************************************)
(* The Activity tab.                                                       *)
(***************************************************************************)
\* Where the newest FeedLimit entries are.
Feed == {i \in DOMAIN audit : i > Len(audit) - FeedLimit}

EntriesOf(as) == {i \in Feed : audit[i].approvalId \in as}
Kinds(as) == {audit[i].kind : i \in EntriesOf(as)}
Keys == {audit[i].approvalId : i \in Feed}

\* The kind of the order intended, None when the intent is not in the feed.
intentKind(a) == IF "order_intent" \in Kinds({a}) THEN card[a].kind ELSE None

placedOrderId(a) ==
  IF "order_observed" \in Kinds({a}) THEN outcome[a].orderId ELSE None

PlacedAs(id) ==
  {k \in Keys : intentKind(k) = "place" /\ placedOrderId(k) = id}

\* The group a cancel's group is merged into, or None.
foldedInto(a) ==
  IF intentKind(a) # "cancel" THEN None
  ELSE LET id   == card[a].cancelsOrderId
           home == PlacedAs(id)
       IN  IF id = None \/ home = {} THEN None ELSE CHOOSE k \in home : TRUE

groupActivity == {k \in Keys : foldedInto(k) = None}
Members(k) == {k} \cup {c \in Keys : foldedInto(c) = k}

\* The first entry of a kind speaks for the group; a cancel's come after its order's.
Speaks(k, kind) ==
  LET told == {i \in EntriesOf(Members(k)) : audit[i].kind = kind}
  IN  IF told = {} THEN None ELSE audit[Min(told)].approvalId

orderIdByApproval(k) == placedOrderId(k)

StatusOf(k) ==
  LET id == orderIdByApproval(k) IN IF id = None THEN None ELSE Target(id)

orderStateSlip(k) ==
  LET observed == Speaks(k, "order_observed")
      decided  == Speaks(k, "approval_decision")
      ok       == IF observed = None THEN None ELSE outcome[observed].ok
      verdict  == IF decided = None THEN "none" ELSE status[decided]
  IN  IF "order_intent" \notin Kinds(Members(k)) THEN "other"
      ELSE IF StatusOf(k) # None THEN fromRhState(StatusOf(k).state)
      ELSE IF ok = FALSE \/ verdict \in {"rejected", "expired"} THEN "failed"
      ELSE IF orderIdByApproval(k) # None \/ (ok = TRUE /\ k \notin aged) THEN "working"
      ELSE IF verdict # "approved" THEN "proposed"
      ELSE IF k \notin aged THEN "working"
      ELSE IF ledger # None THEN "failed" ELSE "unknown"

orderState(k) ==
  LET observed == Speaks(k, "order_observed")
      decided  == Speaks(k, "approval_decision")
      ok       == IF observed = None THEN None ELSE outcome[observed].ok
      verdict  == IF decided = None THEN "none" ELSE status[decided]
      denied   == ok = FALSE \/ verdict \in {"rejected", "expired"}
  IN  IF "order_intent" \notin Kinds(Members(k)) THEN "other"
      ELSE IF StatusOf(k) # None THEN fromRhState(StatusOf(k).state)
      ELSE IF intentKind(k) = "exercise"
           THEN IF ok = TRUE THEN "filled" ELSE IF denied THEN "failed"
                ELSE IF verdict = "approved" THEN "working" ELSE "proposed"
      ELSE IF denied THEN "failed"
      ELSE IF orderIdByApproval(k) # None \/ ok = TRUE THEN "working"
      ELSE IF verdict # "approved" THEN "proposed"
      ELSE IF k \notin aged THEN "working"
      ELSE IF ledger # None THEN "failed" ELSE "unknown"

(***************************************************************************)
(* The expanded timeline: one stage per audit entry, and a closer for a    *)
(* failed order whose entries do not say so.                               *)
(***************************************************************************)
isCancelTool(a) == call[a].tool \in CancelTools

describe(e) ==
  LET a == e.approvalId
  IN  IF e.kind = "order_intent" THEN "proposed"
      ELSE IF e.kind = "approval_decision" THEN status[a]
      ELSE IF isCancelTool(a)
           THEN IF outcome[a].ok = None THEN "cancel_sent"
                ELSE IF outcome[a].ok THEN "cancel_accepted" ELSE "cancel_refused"
      ELSE IF outcome[a].ok = None THEN "result"
           ELSE IF outcome[a].ok THEN "taken_by_broker" ELSE "rejected_by_broker"

hasFailureStage(k) ==
  \E i \in EntriesOf(Members(k)) :
     LET e == audit[i]
     IN  \/ e.kind = "order_observed" /\ outcome[e.approvalId].ok = FALSE
         \/ e.kind = "approval_decision" /\ status[e.approvalId] \in {"rejected", "expired"}

containsCancel(k) == \E a \in Members(k) : isCancelTool(a)

closer(k) == orderState(k) = "failed" /\ ~hasFailureStage(k) /\ ~containsCancel(k)

stagesFor(k) ==
  {[of |-> audit[i].approvalId, says |-> describe(audit[i])] : i \in EntriesOf(Members(k))}
    \cup (IF closer(k) THEN {[of |-> k, says |-> "rejected_by_broker"]} ELSE {})

headerTotal(k) ==
  IF intentKind(k) = "place" THEN executedNumbers(StatusOf(k), card[k].side) ELSE None

\* Orders of the account no row of ours claims.
External ==
  IF ledger = None THEN {} ELSE DOMAIN ledger \ {orderIdByApproval(k) : k \in Keys}

-----------------------------------------------------------------------------
(***************************************************************************)
(* Properties.                                                             *)
(***************************************************************************)
\* The dollars an order moves, as far as the call itself says.
Moves(m) ==
  IF m.act = "exercise"
  THEN LET f == Facts[m.legs[1].optionId]
       IN  IF f.optionType = "call" THEN f.strikePrice * f.multiplier * m.qty ELSE None
  ELSE IF m.price # None /\ m.qty # None THEN m.price * m.qty * Multiplier(m)
  ELSE m.dollars

\* A field of a card is empty or right.
Fair(shown, true) == shown = None \/ shown = true

FairLegs(p, m) ==
  /\ Len(p.legs) = Len(m.legs)
  /\ \A i \in DOMAIN p.legs :
       LET c == p.legs[i].contract
           f == Facts[m.legs[i].optionId]
       IN  c # None => \A x \in DOMAIN f : Fair(c[x], f[x])

\* A non-standard multiplier the card does not know yet makes its estimate wrong.
Unscaled(p, m) ==
  m.legs # <<>> /\ (\A i \in DOMAIN p.legs : p.legs[i].contract = None)
    /\ Multiplier(m) # STANDARD_MULTIPLIER

\* The order a card is about: a cancel is about the order it cancels.
Aimed(m) == IF m.act = "cancel" /\ m.target \in DOMAIN orders THEN orders[m.target].means ELSE m

\* Whether a single-leg order opens or closes.
Effect(m) == IF m.asset = "option" /\ Len(m.legs) = 1 THEN m.legs[1].positionEffect ELSE None

Tells(p, m, t) ==
  /\ p.kind = m.act
  /\ Fair(p.side, t.side) /\ Fair(p.symbol, t.symbol)
  /\ Fair(p.quantity, t.qty) /\ Fair(p.limitPrice, t.price)
  /\ Unscaled(p, m) \/ Fair(p.estCost, Moves(t))
  /\ Fair(p.summary.est, p.estCost)
  /\ m.act = "place" => /\ p.side = m.side /\ p.quantity = m.qty
                        /\ p.limitPrice = m.price /\ p.summary.effect = Effect(m)
                        /\ Unscaled(p, m) \/ p.estCost = Moves(m)
  /\ m.act = "cancel" => p.cancelsOrderId = m.target
  /\ m.act = "exercise" => p.summary.shorts = m.shorts
  /\ p.legs # <<>> => FairLegs(p, m)

(***************************************************************************)
(* The card a user decides on never misstates the order: kind, side, size, *)
(* price, dollars, contract and the target of a cancel are left open or    *)
(* are those of the call, however much of the ledger and of the contracts  *)
(* was known when it was drawn, and what the call itself says is there,    *)
(* in a single-leg order whether it opens or closes a position;            *)
(* the short-sale warning of an exercise survives enrichment.  Excepted:   *)
(* the estimate of a contract with an odd multiplier that is not resolved. *)
(***************************************************************************)
CardTellsTheOrder ==
  \A a \in A : card[a] # None => Tells(card[a], call[a].means, Aimed(call[a].means))

\* The card is linked to the order it placed: its outcome holds that order's id.
Recorded(a) == "order_observed" \in Kinds({a}) /\ outcome[a].orderId = OrderOf[a]
Placed(a) == OrderOf[a] \in DOMAIN orders

\* The ledger's entry is what the broker would answer now.
UpToDate(id) == Target(id) # None /\ Target(id).state = orders[id].state

(***************************************************************************)
(* A row of the Activity tab agrees with the broker.  Green only when the  *)
(* order (or the exercise) went through; red only when it is dead or was   *)
(* never placed, amber no longer once a current ledger knows it ended.     *)
(* Excepted: red on an order whose result was not recorded or named no id  *)
(* of it (the tab then takes the missing link for a missing order), and    *)
(* amber on an expired order (fromRhState knows no such state).  And every *)
(* stage of its timeline that speaks of the broker says what the broker    *)
(* did; only the closer of a red row may call an order rejected that was   *)
(* cancelled or whose link is missing.                                     *)
(***************************************************************************)
RowTellsTheTruth ==
  \A k \in groupActivity :
    LET o == orders[OrderOf[k]]
        row == orderState(k)
    IN  /\ call[k].means.act = "place" =>
             /\ row = "filled" => Placed(k) /\ o.state = "filled"
             /\ row = "failed" /\ Placed(k) =>
                  ~Recorded(k) \/ o.state \in {"cancelled", "rejected"}
             /\ row = "working" /\ Recorded(k) /\ UpToDate(OrderOf[k]) =>
                  o.state \in Live \cup {"expired"}
        /\ call[k].means.act = "exercise" =>
             /\ row = "filled" => did[k] = "accepted"
             /\ row = "failed" => did[k] # "accepted"
        /\ call[k].means.act = "cancel" /\ row = "failed" =>
             did[k] # "accepted" \/ outcome[k] = None
        /\ \A stage \in stagesFor(k) :
             /\ stage.says \in {"taken_by_broker", "cancel_accepted"} => did[stage.of] = "accepted"
             /\ stage.says = "cancel_refused" => did[stage.of] = "refused"
             /\ stage.says = "rejected_by_broker" => closer(k) \/ did[stage.of] # "accepted"

(* Every order of the ledger has one row, and the row is that of the card  *)
(* that placed it, once linked, or an external one; a cancel is merged     *)
(* into the order it cancels and no other.                                 *)
EachOrderShownOnce ==
  /\ ledger # None => \A id \in DOMAIN ledger :
       LET shown == {k \in groupActivity : orderIdByApproval(k) = id}
       IN  /\ Cardinality(shown) + (IF id \in External THEN 1 ELSE 0) = 1
           /\ shown \subseteq {orders[id].by}
  /\ \A c \in Keys : foldedInto(c) # None => call[c].means.target = OrderOf[foldedInto(c)]

(* The cash a row and a notification show is what the broker moved, in     *)
(* every asset's units.                                                    *)
MoneyMatches ==
  /\ \A k \in groupActivity :
       headerTotal(k) # None /\ Recorded(k) /\ UpToDate(OrderOf[k]) =>
         LET o == orders[OrderOf[k]]
         IN  headerTotal(k) = IF o.means.side \in {"buy", "debit"} THEN -Cash(o) ELSE Cash(o)
  /\ ledger # None => \A id \in DOMAIN ledger :
       LET n == orderNotification(ledger[id])
       IN  n.price # None => n.price * orders[id].done = Cash(orders[id])

Worth(l) == l.qty * Prices[l.name].last * (IF l.asset = "option" THEN Facts[l.name].multiplier ELSE 1)
Cost(l)  == l.qty * l.paid * (IF l.asset = "option" THEN Facts[l.name].multiplier ELSE 1)
LastClose(l) == l.qty * Prices[l.name].close * (IF l.asset = "option" THEN Facts[l.name].multiplier ELSE 1)

\* Shares held overnight and shares bought today have one average cost.
Averaged(l, lots) ==
  LET bought == {x \in lots : x.name = l.name /\ x.direct}
  IN  IF l.asset = "option" THEN Cost(l) ELSE l.qty * (Spent(bought) \div Qty(bought))

MoveOf(l, lots) == Worth(l) - (IF l.today THEN Averaged(l, lots) ELSE LastClose(l))

RowsAddUp(rows, key, lots) ==
  /\ {p[key] : p \in rows} = {l.name : l \in lots}
  /\ \A p \in rows :
       LET mine == {l \in lots : l.name = p[key]}
           bought == {l \in mine : l.direct}
       IN  /\ p.marketValue = Total(Worth, mine)
           /\ p.unrealizedPnl =
                IF bought = {} THEN None ELSE Total(LAMBDA l : Worth(l) - Cost(l), bought)

(***************************************************************************)
(* The portfolio adds up in dollars: the rows a poll caches are worth what *)
(* their lots are worth and have earned what those earned, in the units of *)
(* each asset, long or short, whichever list knew the multiplier; and      *)
(* today's move is that of every lot from its previous close, or from its  *)
(* cost if bought today.  Shares bought today beside shares held overnight *)
(* count from the average cost of both: the broker tells no other.         *)
(***************************************************************************)
HoldingsAddUp ==
  (ledger # None /\ \A id \in DOMAIN orders : UpToDate(id)) =>
    \A brief \in BOOLEAN :
      LET account == AccountRead(brief)
          lots == [asset \in {"equity", "option", "crypto"} |-> Held(asset)]
      IN  /\ RowsAddUp(account.positions, "symbol", lots["equity"])
          /\ RowsAddUp(account.options, "optionId", lots["option"])
          /\ RowsAddUp(account.cryptos, "assetCode", lots["crypto"])
          /\ account.dayChange =
               Total(LAMBDA l : MoveOf(l, lots[l.asset]), UNION Range(lots))

(* The tab: one row for every order, and none of them a lie.               *)
RowsTrue == RowTellsTheTruth /\ EachOrderShownOnce

(* The dollars: of the orders, and of what they left in the account.       *)
DollarsAddUp == MoneyMatches /\ HoldingsAddUp
=============================================================================
