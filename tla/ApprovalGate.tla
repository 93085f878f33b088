----------------------------- MODULE ApprovalGate -----------------------------
(***************************************************************************)
(* The order-approval gate of one agent: ApprovalService (request, decide, *)
(* abandon, recordOutcome and the boot expiry), the two layers that call   *)
(* it -- the PreToolUse hook script and codex's elicitation answerer       *)
(* (codex-gate.ts) -- and the agent that is waiting behind them.           *)
(*                                                                         *)
(* An attempt is one order tool call; a session makes one call at a time.  *)
(* A request is one layer of one attempt.  A card is a row of the          *)
(* approvals table, numbered in the order of insertion.  An input is what  *)
(* the row is keyed by: the order and whether its JSON text has drifted    *)
(* from the hook's.                                                        *)
(*                                                                         *)
(* Definitions marked "Slip" are wrong variants of the definition that     *)
(* follows them: no action uses them; they show what the properties catch. *)
(***************************************************************************)
EXTENDS Naturals, Sequences, FiniteSetsExt

CONSTANTS
  Orders,        \* distinct order inputs
  OptionOrders,  \* those that name option contracts by id
  MaxAttempts,   \* how many order tool calls are ever made (bounds the model)
  Layerings,     \* the sets of layers an agent's calls may pass: claude has
                 \* {"hook"}; codex {"hook", "elicit"}, or only {"elicit"} when
                 \* trusting its hooks (a best effort) failed
  LongTimeout,   \* approvalTimeoutSec exceeds the hook script's own deadline
  Drifting       \* the attempts whose input the layers serialise differently

ASSUME OrdersAssumption == OptionOrders \subseteq Orders
ASSUME MaxAttemptsAssumption == MaxAttempts \in Nat
ASSUME LayeringsAssumption == Layerings \subseteq (SUBSET {"hook", "elicit"}) \ {{}}
ASSUME LongTimeoutAssumption == LongTimeout \in BOOLEAN
ASSUME DriftingAssumption == Drifting \subseteq 1 .. MaxAttempts

Attempts == 1 .. MaxAttempts
Layers == {"hook", "elicit"}
Requests == Attempts \X Layers
NoRequest == <<0, "none">>
NoCard == 0
Inputs == Orders \X BOOLEAN

Mode == {"approve", "auto"}
Stage == {"none", "gating", "allowed", "placed", "reported", "unreported",
          "ended"}
Active == {"gating", "allowed", "placed"}
Passed == {"allowed", "placed", "reported", "unreported"}
Phase == {"none", "resolving", "waiting", "joined", "allow", "deny"}
Parked == {"waiting", "joined"}
Status == {"pending", "approved", "rejected", "expired"}
DecidedBy == {"nobody", "user", "auto", "timeout"}

VARIABLES
  layers,    \* the layers this agent's order calls pass
  mode,      \* the agent's approval mode
  attempts,  \* how many order tool calls were made
  order,     \* the order of each attempt
  stage,     \* where the agent is with each attempt
  phase,     \* where the host is with each request
  cardOf,    \* the card that answers (or will answer) a request
  aborted,   \* the request was aborted before it had a card
  snapshot,  \* the approval mode a resolving request read when it arrived
             \* ("approve" when it is not resolving)
  cards      \* the approvals table, with the waiter and timer of each row

agentVars == <<layers, attempts, order, stage>>
requestVars == <<phase, cardOf, aborted, snapshot>>
vars == <<mode, agentVars, requestVars, cards>>

Card == [input: Inputs, status: Status, by: DecidedBy, fresh: BOOLEAN,
         armed: BOOLEAN, waiter: Requests \cup {NoRequest},
         outcome: Attempts \cup {0}]

-----------------------------------------------------------------------------
(* The table and its rows.                                                   *)

Cards == DOMAIN cards

LatestByKey(input) ==
  LET same == {c \in Cards : cards[c].input = input}
  IN IF same = {} THEN NoCard ELSE Max(same)

Pending(c) == cards[c].status = "pending"

\* decisionFor: anything but "approved" is a deny.
Answer(status) == IF status = "approved" THEN "allow" ELSE "deny"

\* finalize.  A fresh decision is within joinDecidedMs.
Finalized(card, status, by) ==
  [card EXCEPT !.status = status, !.by = by, !.fresh = TRUE]

\* Slip: the timeout of a decided card stays armed.
WokenKeepsTimer(card) == [card EXCEPT !.waiter = NoRequest]

\* wake: the waiter is resolved and its timer cleared.
Woken(card) == [card EXCEPT !.waiter = NoRequest, !.armed = FALSE]

\* Slip: joined requests are not resolved.
ReleasedWaiterOnly(c, status) ==
  [r \in Requests |->
     IF cardOf[r] = c /\ phase[r] = "waiting" THEN Answer(status) ELSE phase[r]]

Released(c, status) ==
  [r \in Requests |->
     IF cardOf[r] = c /\ phase[r] \in Parked THEN Answer(status) ELSE phase[r]]

\* finalize followed by wake.
Close(c, status, by) ==
  /\ cards' = [cards EXCEPT ![c] = Woken(Finalized(@, status, by))]
  /\ phase' = Released(c, status)

NewCard(input, status, by, waiter) ==
  [input |-> input, status |-> status, by |-> by, fresh |-> status # "pending",
   armed |-> status = "pending", waiter |-> waiter, outcome |-> 0]

-----------------------------------------------------------------------------
(* ApprovalService.request.                                                  *)

FirstLayer == IF "hook" \in layers THEN "hook" ELSE "elicit"

InputOf(r) == <<order[r[1]], r[2] = "elicit" /\ r[1] \in Drifting>>

\* Slip: the signal is not looked at once the card exists.
RaiseUnchecked(r, m) ==
  LET input == InputOf(r) IN
  /\ cardOf' = [cardOf EXCEPT ![r] = Len(cards) + 1]
  /\ \/ /\ m = "auto"
        /\ cards' = Append(cards, NewCard(input, "approved", "auto", NoRequest))
        /\ phase' = [phase EXCEPT ![r] = "allow"]
     \/ /\ m = "approve"
        /\ cards' = Append(cards, NewCard(input, "pending", "nobody", r))
        /\ phase' = [phase EXCEPT ![r] = "waiting"]

\* Slip: the caller waits for a row that is not in the table.
RaiseWithoutRow(r, m) ==
  /\ cardOf' = [cardOf EXCEPT ![r] = Len(cards) + 1]
  /\ phase' = [phase EXCEPT ![r] = "waiting"]
  /\ UNCHANGED cards

\* From the insertion of the row to the end of request, in one turn of the loop.
Raise(r, m) ==
  LET input == InputOf(r) IN
  /\ cardOf' = [cardOf EXCEPT ![r] = Len(cards) + 1]
  /\ \/ /\ m = "auto"
        /\ cards' = Append(cards, NewCard(input, "approved", "auto", NoRequest))
        /\ phase' = [phase EXCEPT ![r] = "allow"]
     \/ /\ m = "approve" /\ aborted[r]
        /\ cards' = Append(cards, NewCard(input, "expired", "timeout", NoRequest))
        /\ phase' = [phase EXCEPT ![r] = "deny"]
     \/ /\ m = "approve" /\ ~aborted[r]
        /\ cards' = Append(cards, NewCard(input, "pending", "nobody", r))
        /\ phase' = [phase EXCEPT ![r] = "waiting"]

Joinable(c) == c # NoCard /\ Pending(c) /\ cards[c].waiter # NoRequest

\* Slip: every layer mirrors a decision, however old.
MirrorableAlways(r, c) == c # NoCard /\ ~Pending(c)

\* Only the elicitation answerer passes joinDecidedMs.
Mirrorable(r, c) ==
  c # NoCard /\ ~Pending(c) /\ r[2] = "elicit" /\ cards[c].fresh

Ask(r) ==
  LET dup == LatestByKey(InputOf(r)) IN
  \/ /\ Joinable(dup)
     /\ phase' = [phase EXCEPT ![r] = "joined"]
     /\ cardOf' = [cardOf EXCEPT ![r] = dup]
     /\ UNCHANGED <<cards, snapshot>>
  \/ /\ Mirrorable(r, dup)
     /\ phase' = [phase EXCEPT ![r] = Answer(cards[dup].status)]
     /\ cardOf' = [cardOf EXCEPT ![r] = dup]
     /\ UNCHANGED <<cards, snapshot>>
  \/ /\ ~Joinable(dup) /\ ~Mirrorable(r, dup)
     /\ order[r[1]] \in OptionOrders
     /\ phase' = [phase EXCEPT ![r] = "resolving"]
     /\ snapshot' = [snapshot EXCEPT ![r] = mode]
     /\ UNCHANGED <<cards, cardOf>>
  \/ /\ ~Joinable(dup) /\ ~Mirrorable(r, dup)
     /\ order[r[1]] \notin OptionOrders
     /\ Raise(r, mode)
     /\ UNCHANGED snapshot

-----------------------------------------------------------------------------
Init ==
  /\ layers \in Layerings
  /\ mode \in Mode
  /\ attempts = 0
  /\ order \in [Attempts -> Orders]
  /\ stage = [a \in Attempts |-> "none"]
  /\ phase = [r \in Requests |-> "none"]
  /\ cardOf = [r \in Requests |-> NoCard]
  /\ aborted = [r \in Requests |-> FALSE]
  /\ snapshot = [r \in Requests |-> "approve"]
  /\ cards = <<>>

\* The agent calls an order tool; its first layer asks the gate.  Where the
\* elicitation is the only layer, a repeat needs a full model round trip, which
\* codex-gate.ts takes to be longer than the mirror window.
StartOrder ==
  /\ attempts < MaxAttempts
  /\ \A a \in Attempts : stage[a] \notin Active
  /\ FirstLayer = "elicit" => \A c \in Cards : ~cards[c].fresh
  /\ attempts' = attempts + 1
  /\ stage' = [stage EXCEPT ![attempts + 1] = "gating"]
  /\ Ask(<<attempts + 1, FirstLayer>>)
  /\ UNCHANGED <<layers, mode, order, aborted>>

\* The contract lookup settled, failed or took CONTRACT_RESOLVE_MS.
Resolved(r) ==
  /\ phase[r] = "resolving"
  /\ Raise(r, snapshot[r])
  /\ snapshot' = [snapshot EXCEPT ![r] = "approve"]
  /\ UNCHANGED <<mode, agentVars, aborted>>

\* The request an attempt is waiting for: its latest layer.
Current(a) ==
  IF "elicit" \in layers /\ phase[<<a, "elicit">>] # "none"
  THEN <<a, "elicit">> ELSE <<a, FirstLayer>>

\* The answer reaches the agent; codex asks its second layer, after an allow.
AgentSees(a) ==
  /\ stage[a] = "gating"
  /\ phase[Current(a)] \in {"allow", "deny"}
  /\ \/ /\ phase[Current(a)] = "deny"
        /\ stage' = [stage EXCEPT ![a] = "ended"]
        /\ UNCHANGED requestVars /\ UNCHANGED cards
     \/ /\ phase[Current(a)] = "allow"
        /\ Current(a)[2] = "hook" /\ "elicit" \in layers
        /\ Ask(<<a, "elicit">>)
        /\ UNCHANGED <<stage, aborted>>
     \/ /\ phase[Current(a)] = "allow"
        /\ Current(a)[2] = "elicit" \/ "elicit" \notin layers
        /\ stage' = [stage EXCEPT ![a] = "allowed"]
        /\ UNCHANGED requestVars /\ UNCHANGED cards
  /\ UNCHANGED <<layers, mode, attempts, order>>

\* The tool runs: the order goes to the broker.
Place(a) ==
  /\ stage[a] = "allowed"
  /\ stage' = [stage EXCEPT ![a] = "placed"]
  /\ UNCHANGED <<layers, mode, attempts, order, requestVars, cards>>

\* Slip: rows that already have an outcome are taken too.
ApprovedRows == {c \in Cards : cards[c].status = "approved"}

Unrecorded == {c \in Cards : cards[c].status = "approved" /\ cards[c].outcome = 0}

\* oldestUnrecorded by exact input, else the oldest of the tool.
OutcomeTarget(input) ==
  LET exact == {c \in Unrecorded : cards[c].input = input} IN
  IF exact # {} THEN Min(exact)
  ELSE IF Unrecorded # {} THEN Min(Unrecorded)
  ELSE NoCard

\* The PostToolUse hook reports the result (recordOutcome).
ReportOutcome(a, d) ==
  /\ d => a \in Drifting
  /\ stage[a] = "placed"
  /\ stage' = [stage EXCEPT ![a] = "reported"]
  /\ LET c == OutcomeTarget(<<order[a], d>>) IN
     cards' = IF c = NoCard THEN cards
              ELSE [cards EXCEPT ![c].outcome = a]
  /\ UNCHANGED <<layers, mode, attempts, order, requestVars>>

\* The fire-and-forget report did not get through.
ResultLost(a) ==
  /\ stage[a] = "placed"
  /\ stage' = [stage EXCEPT ![a] = "unreported"]
  /\ UNCHANGED <<layers, mode, attempts, order, requestVars, cards>>

AfterDeath ==
  [a \in Attempts |-> CASE stage[a] \in {"gating", "allowed"} -> "ended"
                        [] stage[a] = "placed" -> "unreported"
                        [] stage[a] \notin Active -> stage[a]]

\* The agent's process ends in the middle of an attempt.
SessionDies ==
  /\ \E a \in Attempts : stage[a] \in Active
  /\ stage' = AfterDeath
  /\ UNCHANGED <<layers, mode, attempts, order, requestVars, cards>>

Decide(c, approve) ==
  /\ Pending(c)
  /\ Close(c, IF approve THEN "approved" ELSE "rejected", "user")
  /\ UNCHANGED <<mode, agentVars, cardOf, aborted, snapshot>>

\* The card's timer finalizes whatever the row says.
TimeoutFires(c) ==
  /\ cards[c].armed
  /\ Close(c, "expired", "timeout")
  /\ UNCHANGED <<mode, agentVars, cardOf, aborted, snapshot>>

\* The host notices that a request's connection is gone, at any time or never.
\* The signal of a joined request is not listened to.
Disconnect(r) ==
  /\ \/ /\ phase[r] = "resolving"
        /\ aborted' = [aborted EXCEPT ![r] = TRUE]
        /\ UNCHANGED <<phase, cards>>
     \/ /\ phase[r] = "waiting"
        /\ Close(cardOf[r], "expired", "timeout")
        /\ UNCHANGED aborted
  /\ UNCHANGED <<mode, agentVars, cardOf, snapshot>>

\* The hook script's curl reaches its --max-time and denies.
HookGivesUp(a) ==
  /\ LongTimeout
  /\ stage[a] = "gating"
  /\ Current(a)[2] = "hook"
  /\ phase[Current(a)] \in Parked
  /\ stage' = [stage EXCEPT ![a] = "ended"]
  /\ UNCHANGED <<layers, mode, attempts, order, requestVars, cards>>

\* joinDecidedMs after the decision; no other layer looks at the window.
WindowCloses(c) ==
  /\ "elicit" \in layers
  /\ cards[c].fresh
  /\ cards' = [cards EXCEPT ![c].fresh = FALSE]
  /\ UNCHANGED <<mode, agentVars, requestVars>>

\* agents.update({approvalMode})
SetMode ==
  /\ mode' \in Mode \ {mode}
  /\ UNCHANGED <<agentVars, requestVars, cards>>

\* expireOrphansOnBoot
Orphaned(card) ==
  IF card.status = "pending" THEN Woken(Finalized(card, "expired", "timeout"))
  ELSE card

OnItsWay(r) == stage[r[1]] = "gating" /\ r = Current(r[1])

\* The host dies and a new one boots.  Severed requests fail closed at the
\* caller, an answer on its way may be lost, and the agent's process dies too
\* unless it is an orphan of the crash.
HostRestart ==
  /\ cards' = [c \in Cards |-> Orphaned(cards[c])]
  /\ \E lost \in SUBSET {r \in Requests : phase[r] = "allow" /\ OnItsWay(r)} :
       phase' = [r \in Requests |->
         IF phase[r] \in {"resolving"} \cup Parked \/ r \in lost
         THEN "deny" ELSE phase[r]]
  /\ stage' \in {stage, AfterDeath}
  /\ snapshot' = [r \in Requests |-> "approve"]
  /\ UNCHANGED <<layers, mode, attempts, order, cardOf, aborted>>

Next ==
  \/ StartOrder
  \/ \E r \in Requests : Resolved(r)
  \/ \E a \in Attempts : AgentSees(a)
  \/ \E a \in Attempts : Place(a)
  \/ \E a \in Attempts, d \in BOOLEAN : ReportOutcome(a, d)
  \/ \E a \in Attempts : ResultLost(a)
  \/ SessionDies
  \/ \E c \in Cards, approve \in BOOLEAN : Decide(c, approve)
  \/ \E c \in Cards : TimeoutFires(c)
  \/ \E r \in Requests : Disconnect(r)
  \/ \E a \in Attempts : HookGivesUp(a)
  \/ \E c \in Cards : WindowCloses(c)
  \/ SetMode
  \/ HostRestart

Spec == Init /\ [][Next]_vars
-----------------------------------------------------------------------------
(* Invariants                                                                *)

\* The gate's state is well typed (ApprovalService and its table).
TypeOK ==
  /\ layers \in Layerings
  /\ mode \in Mode
  /\ attempts \in 0 .. MaxAttempts
  /\ order \in [Attempts -> Orders]
  /\ stage \in [Attempts -> Stage]
  /\ phase \in [Requests -> Phase]
  /\ cardOf \in [Requests -> Cards \cup {NoCard}]
  /\ aborted \in [Requests -> BOOLEAN]
  /\ snapshot \in [Requests -> Mode]
  /\ cards \in Seq(Card)

\* Every parked caller waits on a card that is still to be decided, and every
\* pending card has exactly one waiter and an armed timeout, so that no caller
\* can be left behind by a decision, a duplicate or a restart; a decided card
\* has neither.
NoStrandedCaller ==
  /\ \A r \in Requests : phase[r] \in Parked => Pending(cardOf[r])
  /\ \A c \in Cards :
       IF Pending(c)
       THEN /\ cards[c].armed
            /\ {r \in Requests : phase[r] = "waiting" /\ cardOf[r] = c}
                 = {cards[c].waiter}
       ELSE ~cards[c].armed /\ cards[c].waiter = NoRequest

\* A caller that was gone before its card was raised leaves no card behind for
\* the user to decide ("the card would sit pending for the full timeout").
AbandonedCardsClose ==
  \A c \in Cards : Pending(c) => ~aborted[cards[c].waiter]

\* Callers and cards match: nobody waits on a card nobody will settle, and no
\* card stays up for a caller that has gone.
CallersAnswered == TypeOK /\ NoStrandedCaller /\ AbandonedCardsClose

\* Every order that reaches the broker passed each of its layers on a card that
\* is approved and is about that very order, and no two orders pass on one
\* decision: a genuine repeat "gets a fresh card -- never silently auto-approved".
EveryOrderConsented ==
  LET passing == {a \in Attempts : stage[a] \in Passed}
      consent(a) == cardOf[<<a, FirstLayer>>]
  IN /\ \A a \in passing, l \in layers :
          /\ phase[<<a, l>>] = "allow"
          /\ cardOf[<<a, l>>] # NoCard
          /\ cards[cardOf[<<a, l>>]].status = "approved"
          /\ cards[cardOf[<<a, l>>]].input[1] = order[a]
     /\ \A a, b \in passing : consent(a) = consent(b) => a = b

\* Every result that was reported is recorded on exactly one approved card --
\* one of the same order, unless the report's text had drifted -- and is never
\* overwritten, however many results were lost before it ("identical
\* back-to-back orders still each get one result").
EachResultRecordedOnce ==
  \A a \in Attempts : stage[a] = "reported" =>
    \E c \in Cards :
      /\ {d \in Cards : cards[d].outcome = a} = {c}
      /\ cards[c].status = "approved"
      /\ Drifting # {} \/ cards[c].input[1] = order[a]

-----------------------------------------------------------------------------
(* Action properties                                                         *)

\* A decision is final: no timer, late disconnect, second click or restart
\* changes what the agent was told.
DecisionsFinal ==
  [][\A c \in Cards : ~Pending(c) =>
       /\ cards'[c].status = cards[c].status
       /\ cards'[c].by = cards[c].by]_vars

-----------------------------------------------------------------------------
(* Liveness: the host's timers fire; nothing is assumed of the user.         *)

Fairness ==
  /\ \A r \in Requests : WF_vars(Resolved(r))
  /\ WF_vars(\E c \in Cards : TimeoutFires(c))

LiveSpec == Spec /\ Fairness

\* Every request is answered, the joined ones too: "the gate must never hang".
GateAnswers ==
  \A r \in Requests : phase[r] # "none" ~> phase[r] \in {"allow", "deny"}
=============================================================================
