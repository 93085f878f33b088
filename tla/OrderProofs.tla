-------------------------- MODULE OrderProofs ---------------------------------
(***************************************************************************)
(* Proofs about an order's way through the application.                    *)
(*                                                                         *)
(* The approval gate, for any number of order calls, orders and option     *)
(* orders, either harness's layers and any drift between them: nobody      *)
(* waits in vain, no order reaches the broker without its own consent, and *)
(* every reported result has its own row (services/approvals/index.ts).    *)
(*                                                                         *)
(* The order's trail, for any sequence of cards, any calls behind them and *)
(* any length of the feed: the rows of the Activity tab agree with the     *)
(* broker (activity-groups.ts, Activity.tsx), and the card a user decides  *)
(* on tells the order it is about (parse.ts, options.ts, mapping.ts).      *)
(***************************************************************************)
EXTENDS ApprovalGate, OrderTrail, Integers, FiniteSetTheorems, WellFoundedInduction,
        SequenceTheorems, TLAPS

-----------------------------------------------------------------------------
(* The inductive invariant                                                   *)

(* A request that waits or was allowed is about the order of its own call, an
   allowed one is on an approved card, and one without an answer yet is on none. *)
RequestsMatch ==
  \A r \in Requests :
    /\ phase[r] \in Parked \cup {"allow"} =>
         /\ cardOf[r] \in Cards
         /\ cards[cardOf[r]].input[1] = order[r[1]]
         /\ phase[r] = "allow" => cards[cardOf[r]].status = "approved"
    /\ phase[r] \in {"none", "resolving"} => cardOf[r] = NoCard

(* Without drift every row is keyed by the hook's text. *)
RowsPlain == Drifting = {} => \A c \in Cards : cards[c].input[2] = FALSE

(* A session makes one order call at a time... *)
OneActive == \A a, b \in Attempts : stage[a] \in Active /\ stage[b] \in Active => a = b

(* ... and a call not made yet has asked nothing. *)
FutureUntouched ==
  \A a \in Attempts : a > attempts =>
    stage[a] = "none" /\ \A l \in Layers : phase[<<a, l>>] = "none"

(* The second layer asks after the first one's allow. *)
Layered ==
  \A a \in Attempts :
    /\ "elicit" \notin layers => phase[<<a, "elicit">>] = "none"
    /\ "hook" \in layers /\ phase[<<a, "elicit">>] # "none" => phase[<<a, "hook">>] = "allow"

Passing == \A a \in Attempts : stage[a] \in Passed => \A l \in layers : phase[<<a, l>>] = "allow"

(* A call that has passed shares its card with no other call that has passed or
   still may. *)
OwnConsent ==
  \A a, b \in Attempts :
    /\ stage[a] \in Passed /\ stage[b] \in Passed \cup {"gating"}
    /\ cardOf[<<a, FirstLayer>>] = cardOf[<<b, FirstLayer>>]
    => a = b

(* Only a call whose result was reported has a result on a row. *)
OutcomesReported ==
  \A c \in Cards : cards[c].outcome # 0 => stage[cards[c].outcome] = "reported"

GateInv == TypeOK /\ NoStrandedCaller /\ AbandonedCardsClose /\ RequestsMatch /\ RowsPlain
AgentInv == OneActive /\ FutureUntouched /\ Layered /\ Passing /\ OwnConsent
ResultsInv == OutcomesReported /\ EachResultRecordedOnce

IInv == GateInv /\ AgentInv /\ ResultsInv

-----------------------------------------------------------------------------
(* Least and greatest members of sets of rows                                *)

LEMMA LessIsWellFounded ==
  \E R : IsWellFoundedOn(R, Nat) /\ \A x, y \in Nat : x < y => <<x, y>> \in R
<1>1. IsWellFoundedOn(OpToRel(<, Nat), Nat)
  BY NatLessThanWellFounded, Zenon
<1>2. \A x, y \in Nat : x < y => <<x, y>> \in OpToRel(<, Nat)
  BY DEF OpToRel
<1> QED
  BY <1>1, <1>2, Zenon

(* Every set of naturals that is not empty has a least member. *)
LEMMA LeastExists ==
  ASSUME NEW S \in SUBSET Nat, S # {}
  PROVE  \E x \in S : \A y \in S : x <= y
<1>1. PICK R : IsWellFoundedOn(R, Nat) /\ \A x, y \in Nat : x < y => <<x, y>> \in R
  BY LessIsWellFounded
<1>2. S \subseteq Nat
  OBVIOUS
<1>3. \E x \in S : \A y \in S : ~ (<<y, x>> \in R)
  <2>1. IsWellFoundedOn(R, Nat)
    BY <1>1
  <2>2. \A U, V, T : IsWellFoundedOn(U, V) /\ T \subseteq V /\ T # {} =>
           \E x \in T : \A y \in T : ~ (<<y, x>> \in U)
    BY WFMin, Zenon
  <2> QED
    BY <2>1, <2>2, <1>2, Zenon
<1>4. PICK x \in S : \A y \in S : ~ (<<y, x>> \in R)
  BY <1>3, Zenon
<1>5. \A y \in S : ~(y < x)
  BY <1>1, <1>4, <1>2, Zenon
<1>6. \A y \in S : x <= y
  <2> SUFFICES ASSUME NEW y \in S PROVE x <= y
    OBVIOUS
  <2>1. ~(y < x) /\ x \in Nat /\ y \in Nat
    BY <1>5
  <2> QED
    BY <2>1
<1> QED
  BY <1>6

LEMMA MinMember ==
  ASSUME NEW S \in SUBSET Nat, S # {}
  PROVE  Min(S) \in S
  BY LeastExists DEF Min

(* A set of row numbers that is not empty has a latest row. *)
LEMMA MaxMember ==
  ASSUME NEW n \in Nat, NEW S \in SUBSET (1 .. n), S # {}
  PROVE  Max(S) \in S
<1> DEFINE D == {n - x : x \in S}
<1>1. D \in SUBSET Nat /\ D # {}
  <2>1. \A x \in S : x \in Nat /\ n - x \in Nat
    OBVIOUS
  <2> QED
    BY <2>1
<1>2. PICK d \in D : \A y \in D : d <= y
  BY <1>1, LeastExists
<1>3. PICK x \in S : d = n - x
  BY <1>2
<1>4. \A y \in S : x >= y
  <2> SUFFICES ASSUME NEW y \in S PROVE x >= y
    OBVIOUS
  <2>1. n - y \in D
    OBVIOUS
  <2>2. n - x <= n - y
    BY <1>2, <1>3, <2>1
  <2>3. x \in Int /\ y \in Int /\ n \in Int
    OBVIOUS
  <2> QED
    BY <2>2, <2>3
<1> QED
  BY <1>4 DEF Max

-----------------------------------------------------------------------------
(* Requests and rows                                                         *)

LEMMA RequestFacts ==
  /\ \A r \in Requests : r[1] \in Attempts /\ r[2] \in Layers /\ r = <<r[1], r[2]>>
  /\ \A a \in Attempts, l \in Layers : <<a, l>> \in Requests
  /\ NoRequest \notin Requests
  BY MaxAttemptsAssumption DEF Requests, NoRequest, Attempts, Layers

LEMMA PairFacts ==
  /\ \A i \in Inputs : i = <<i[1], i[2]>>
  /\ \A x, y : <<x, y>>[1] = x
  BY DEF Inputs

LEMMA LayerFacts ==
  ASSUME layers \in Layerings
  PROVE  /\ layers \subseteq Layers /\ layers # {}
         /\ FirstLayer \in Layers /\ FirstLayer \in layers
  BY LayeringsAssumption DEF Layers, FirstLayer

(* What becomes of the rows of the table: none is lost, none is about another
   order, and a decision stays. *)
RowsKept ==
  /\ Len(cards') \in Nat /\ Len(cards') >= Len(cards)
  /\ \A c \in Cards : /\ c \in Cards'
                      /\ cards'[c].input = cards[c].input
                      /\ ~Pending(c) => /\ cards'[c].status = cards[c].status
                                        /\ cards'[c].by = cards[c].by

ResultsKept ==
  /\ \A c \in Cards : cards'[c].outcome = cards[c].outcome
  /\ \A c \in Cards' : c \in Cards \/ cards'[c].outcome = 0

(* The requests of everyone else. *)
OthersKept(r) == \A q \in Requests : q # r => phase'[q] = phase[q] /\ cardOf'[q] = cardOf[q]

GateTypes ==
  /\ phase \in [Requests -> Phase]
  /\ cardOf \in [Requests -> Cards \cup {NoCard}]
  /\ cards \in Seq(Card)

LEMMA CardsFacts ==
  ASSUME cards \in Seq(Card)
  PROVE  /\ Len(cards) \in Nat /\ Cards = 1 .. Len(cards)
         /\ \A c \in Cards : c \in Nat /\ c # 0 /\ cards[c] \in Card
  BY DEF Cards

LEMMA InputFacts ==
  ASSUME order \in [Attempts -> Orders], NEW r \in Requests
  PROVE  InputOf(r) \in Inputs /\ InputOf(r)[1] = order[r[1]]
         /\ (Drifting = {} => InputOf(r)[2] = FALSE)
  BY RequestFacts DEF InputOf, Inputs

LEMMA LatestFacts ==
  ASSUME cards \in Seq(Card), NEW i
  PROVE  LatestByKey(i) = NoCard \/ (LatestByKey(i) \in Cards /\ cards[LatestByKey(i)].input = i)
<1> DEFINE same == {c \in Cards : cards[c].input = i}
<1>1. CASE same = {}
  BY <1>1 DEF LatestByKey
<1>2. CASE same # {}
  <2>1. same \in SUBSET (1 .. Len(cards)) /\ Len(cards) \in Nat
    BY CardsFacts
  <2>2. Max(same) \in same
    BY <1>2, <2>1, MaxMember
  <2> QED
    BY <1>2, <2>2 DEF LatestByKey
<1> QED
  BY <1>1, <1>2

LEMMA NewCardType ==
  ASSUME NEW i \in Inputs, NEW s \in Status, NEW b \in DecidedBy, NEW w \in Requests \cup {NoRequest}
  PROVE  NewCard(i, s, b, w) \in Card
  BY DEF NewCard, Card

(* A row at the end of the table. *)
LEMMA Appended ==
  ASSUME cards \in Seq(Card), NEW n \in Card, cards' = Append(cards, n)
  PROVE  /\ cards' \in Seq(Card) /\ Len(cards') = Len(cards) + 1
         /\ Cards' = Cards \cup {Len(cards) + 1} /\ Len(cards) + 1 \notin Cards
         /\ \A c \in Cards : cards'[c] = cards[c]
         /\ cards'[Len(cards) + 1] = n
<1>1. Len(cards) \in Nat /\ Cards = 1 .. Len(cards)
  BY CardsFacts
<1>2. cards' \in Seq(Card) /\ Len(cards') = Len(cards) + 1
  BY AppendProperties
<1>3. Cards' = 1 .. (Len(cards) + 1)
  BY <1>2 DEF Cards
<1> QED
  BY <1>1, <1>2, <1>3, AppendProperties

(* What a row and the callers that wait on it owe each other. *)
WaitingOn(c) == {r \in Requests : phase[r] = "waiting" /\ cardOf[r] = c}

Settled(row, waiting) ==
  IF row.status = "pending" THEN row.armed /\ waiting = {row.waiter}
  ELSE ~row.armed /\ row.waiter = NoRequest

LEMMA Settling ==
  /\ NoStrandedCaller <=>
       /\ \A r \in Requests : phase[r] \in Parked => Pending(cardOf[r])
       /\ \A c \in Cards : Settled(cards[c], WaitingOn(c))
  /\ NoStrandedCaller' <=>
       /\ \A r \in Requests : phase'[r] \in Parked => Pending(cardOf[r])'
       /\ \A c \in Cards' : Settled(cards'[c], WaitingOn(c)')
  BY DEF NoStrandedCaller, Settled, WaitingOn, Pending

(* Raising a card: for the one who asked, approved, closed or waited for. *)
LEMMA RaiseStep ==
  ASSUME TypeOK, NoStrandedCaller, AbandonedCardsClose, RequestsMatch, RowsPlain,
         NEW r \in Requests, phase[r] \in {"none", "resolving"}, NEW m \in Mode, Raise(r, m),
         order' = order, aborted' = aborted
  PROVE  /\ GateTypes' /\ NoStrandedCaller' /\ AbandonedCardsClose' /\ RequestsMatch' /\ RowsPlain'
         /\ RowsKept /\ ResultsKept /\ OthersKept(r)
         /\ cardOf'[r] \notin Cards /\ cardOf'[r] # NoCard /\ phase'[r] # "none"
<1> USE DEF NoCard
<1>0. /\ cards \in Seq(Card) /\ phase \in [Requests -> Phase]
      /\ cardOf \in [Requests -> Cards \cup {NoCard}] /\ aborted \in [Requests -> BOOLEAN]
  BY DEF TypeOK
<1>i. InputOf(r) \in Inputs /\ InputOf(r)[1] = order[r[1]] /\ (Drifting = {} => InputOf(r)[2] = FALSE)
  BY InputFacts DEF TypeOK
<1>1. PICK n \in Card, p \in Phase :
        /\ cards' = Append(cards, n) /\ phase' = [phase EXCEPT ![r] = p]
        /\ n.input = InputOf(r) /\ n.outcome = 0
        /\ \/ p = "allow" /\ n.status = "approved" /\ n.armed = FALSE /\ n.waiter = NoRequest
           \/ p = "deny" /\ n.status = "expired" /\ n.armed = FALSE /\ n.waiter = NoRequest
           \/ /\ p = "waiting" /\ n.status = "pending" /\ n.armed = TRUE /\ n.waiter = r
              /\ ~aborted[r]
  <2>0. {"approved", "expired", "pending"} \subseteq Status /\ {"auto", "timeout", "nobody"} \subseteq DecidedBy
        /\ {"allow", "deny", "waiting"} \subseteq Phase
    BY DEF Status, DecidedBy, Phase
  <2>1. CASE /\ cards' = Append(cards, NewCard(InputOf(r), "approved", "auto", NoRequest))
             /\ phase' = [phase EXCEPT ![r] = "allow"]
    <3>1. NewCard(InputOf(r), "approved", "auto", NoRequest) \in Card
      BY <1>i, <2>0, NewCardType
    <3> QED
      BY <2>0, <2>1, <3>1 DEF NewCard
  <2>2. CASE /\ cards' = Append(cards, NewCard(InputOf(r), "expired", "timeout", NoRequest))
             /\ phase' = [phase EXCEPT ![r] = "deny"]
    <3>1. NewCard(InputOf(r), "expired", "timeout", NoRequest) \in Card
      BY <1>i, <2>0, NewCardType
    <3> QED
      BY <2>0, <2>2, <3>1 DEF NewCard
  <2>3. CASE /\ cards' = Append(cards, NewCard(InputOf(r), "pending", "nobody", r))
             /\ phase' = [phase EXCEPT ![r] = "waiting"] /\ ~aborted[r]
    <3>1. NewCard(InputOf(r), "pending", "nobody", r) \in Card
      BY <1>i, <2>0, NewCardType
    <3> QED
      BY <2>0, <2>3, <3>1 DEF NewCard
  <2> QED
    BY <2>1, <2>2, <2>3 DEF Raise
<1>k. PICK k : k = Len(cards) + 1
  OBVIOUS
<1>2. /\ cards' \in Seq(Card) /\ Len(cards') = k
      /\ Cards' = Cards \cup {k} /\ k \notin Cards
      /\ \A c \in Cards : cards'[c] = cards[c]
      /\ cards'[k] = n
  BY <1>0, <1>1, <1>k, Appended
<1>3. Len(cards) \in Nat /\ k \in Nat /\ k # 0 /\ 0 \notin Cards
  BY <1>0, <1>k, CardsFacts
<1>4. cardOf' = [cardOf EXCEPT ![r] = k]
  BY <1>k DEF Raise
<1>5. /\ phase'[r] = p /\ cardOf'[r] = k
      /\ \A q \in Requests : q # r => phase'[q] = phase[q] /\ cardOf'[q] = cardOf[q]
  BY <1>0, <1>1, <1>4
<1>6. GateTypes'
  BY <1>0, <1>1, <1>2, <1>4 DEF GateTypes
<1>7. \A c \in Cards : (Pending(c))' <=> Pending(c)
  BY <1>2 DEF Pending
<1>8. \A q \in Requests : phase[q] \in Parked => q # r /\ cardOf[q] \in Cards
  BY DEF Parked, RequestsMatch
<1>9. NoStrandedCaller'
  <2>1. \A q \in Requests : phase'[q] \in Parked => (Pending(cardOf[q]))'
    <3> SUFFICES ASSUME NEW q \in Requests, phase'[q] \in Parked PROVE (Pending(cardOf[q]))'
      OBVIOUS
    <3>1. CASE q = r
      BY <1>1, <1>2, <1>5, <3>1 DEF Pending, Parked
    <3>2. CASE q # r
      BY <1>5, <1>7, <1>8, <3>2 DEF NoStrandedCaller
    <3> QED
      BY <3>1, <3>2
  <2>2. \A c \in Cards : WaitingOn(c)' = WaitingOn(c)
    BY <1>2, <1>5 DEF WaitingOn
  <2>3. \A c \in Cards : Settled(cards'[c], WaitingOn(c)')
    BY <1>2, <2>2, Settling
  <2>4. WaitingOn(k)' = IF p = "waiting" THEN {r} ELSE {}
    BY <1>0, <1>2, <1>3, <1>5 DEF WaitingOn
  <2>5. Settled(n, WaitingOn(k)')
    <3>1. CASE p = "waiting"
      BY <1>1, <2>4, <3>1 DEF Settled
    <3>2. CASE p # "waiting"
      BY <1>1, <3>2 DEF Settled
    <3> QED
      BY <3>1, <3>2
  <2>6. \A c \in Cards' : Settled(cards'[c], WaitingOn(c)')
    BY <1>2, <2>3, <2>5
  <2> QED
    BY <2>1, <2>6, Settling
<1>10. AbandonedCardsClose'
  <2> SUFFICES ASSUME NEW c \in Cards', (Pending(c))' PROVE ~aborted[cards'[c].waiter]
    BY DEF AbandonedCardsClose
  <2>1. CASE c \in Cards
    BY <1>2, <1>7, <2>1 DEF AbandonedCardsClose
  <2>2. CASE c = k
    <3>1. n.status = "pending"
      BY <1>2, <2>2 DEF Pending
    <3> QED
      BY <1>1, <1>2, <2>2, <3>1
  <2> QED
    BY <1>2, <2>1, <2>2
<1>11. RequestsMatch'
  <2> SUFFICES ASSUME NEW q \in Requests
               PROVE  /\ phase'[q] \in Parked \cup {"allow"} =>
                           /\ cardOf'[q] \in Cards'
                           /\ cards'[cardOf'[q]].input[1] = order[q[1]]
                           /\ phase'[q] = "allow" => cards'[cardOf'[q]].status = "approved"
                      /\ phase'[q] \in {"none", "resolving"} => cardOf'[q] = NoCard
    BY DEF RequestsMatch
  <2>1. CASE q = r
    BY <1>1, <1>2, <1>5, <1>i, <2>1 DEF Parked
  <2>2. CASE q # r
    BY <1>2, <1>5, <2>2 DEF RequestsMatch
  <2> QED
    BY <2>1, <2>2
<1>12. RowsPlain'
  BY <1>1, <1>2, <1>i, ZenonT(60) DEF RowsPlain
<1>13. RowsKept /\ ResultsKept
  <2>1. Len(cards') \in Nat /\ Len(cards') >= Len(cards)
    BY <1>2, <1>3, <1>k
  <2>2. RowsKept
    BY <1>2, <2>1 DEF RowsKept, Pending
  <2> QED
    BY <1>1, <1>2, <2>2 DEF ResultsKept
<1>14. OthersKept(r) /\ cardOf'[r] \notin Cards /\ cardOf'[r] # NoCard /\ phase'[r] # "none"
  BY <1>1, <1>2, <1>3, <1>5 DEF OthersKept
<1> QED
  BY <1>6, <1>9, <1>10, <1>11, <1>12, <1>13, <1>14

(* Closing a card: everyone who waits on it is answered, and nobody else. *)
LEMMA CloseStep ==
  ASSUME TypeOK, NoStrandedCaller, AbandonedCardsClose, RequestsMatch, RowsPlain,
         NEW c \in Cards, Pending(c), NEW s \in Status \ {"pending"}, NEW b \in DecidedBy,
         Close(c, s, b), cardOf' = cardOf, order' = order, aborted' = aborted
  PROVE  /\ GateTypes' /\ NoStrandedCaller' /\ AbandonedCardsClose' /\ RequestsMatch' /\ RowsPlain'
         /\ RowsKept /\ ResultsKept
         /\ \A q \in Requests : phase'[q] # phase[q] => phase[q] \in Parked
         /\ \A q \in Requests : phase'[q] = "none" <=> phase[q] = "none"
<1>0. /\ cards \in Seq(Card) /\ phase \in [Requests -> Phase]
      /\ cardOf \in [Requests -> Cards \cup {NoCard}] /\ cards[c] \in Card
  BY CardsFacts DEF TypeOK
<1>1. /\ cards' = [cards EXCEPT ![c] = Woken(Finalized(@, s, b))]
      /\ phase' = Released(c, s)
  BY DEF Close
<1>2. Woken(Finalized(cards[c], s, b)) \in Card
  BY <1>0 DEF Woken, Finalized, Card
<1>3. cards' \in Seq(Card) /\ Len(cards') = Len(cards) /\ Len(cards) \in Nat
  <2>1. c \in 1 .. Len(cards)
    BY <1>0, CardsFacts
  <2> QED
    BY <1>0, <1>1, <1>2, <2>1, ExceptSeq
<1>4. Cards' = Cards
  BY <1>0, <1>3 DEF Cards
<1>5. /\ \A d \in Cards : d # c => cards'[d] = cards[d]
      /\ cards'[c].status = s /\ cards'[c].armed = FALSE /\ cards'[c].waiter = NoRequest
      /\ cards'[c].input = cards[c].input /\ cards'[c].outcome = cards[c].outcome
  <2>1. cards'[c] = Woken(Finalized(cards[c], s, b)) /\ \A d \in Cards : d # c => cards'[d] = cards[d]
    BY <1>0, <1>1, CardsFacts
  <2> QED
    BY <1>0, <2>1 DEF Woken, Finalized, Card
<1>6. \A q \in Requests :
        phase'[q] = IF cardOf[q] = c /\ phase[q] \in Parked THEN Answer(s) ELSE phase[q]
  BY <1>1 DEF Released
<1>7. Answer(s) \in {"allow", "deny"} /\ (Answer(s) = "allow" => s = "approved")
  BY DEF Answer
<1>8. GateTypes'
  <2>1. phase' \in [Requests -> Phase]
    BY <1>0, <1>1, <1>7 DEF Released, Phase
  <2> QED
    BY <1>0, <1>3, <1>4, <2>1 DEF GateTypes
<1>9. NoStrandedCaller'
  <2>1. \A q \in Requests : phase'[q] \in Parked => phase'[q] = phase[q] /\ cardOf[q] # c
    BY <1>6, <1>7 DEF Parked
  <2>2. \A q \in Requests : phase'[q] \in Parked => (Pending(cardOf[q]))'
    BY <1>5, <2>1 DEF NoStrandedCaller, Pending, RequestsMatch
  <2>3. \A d \in Cards : d # c => WaitingOn(d)' = WaitingOn(d)
    BY <1>6, <1>7 DEF WaitingOn, Parked
  <2>4. \A d \in Cards : Settled(cards'[d], WaitingOn(d)')
    <3> SUFFICES ASSUME NEW d \in Cards PROVE Settled(cards'[d], WaitingOn(d)')
      OBVIOUS
    <3>1. CASE d = c
      BY <1>5, <3>1 DEF Settled
    <3>2. CASE d # c
      BY <1>5, <2>3, <3>2, Settling
    <3> QED
      BY <3>1, <3>2
  <2> QED
    BY <1>4, <2>2, <2>4, Settling
<1>10. AbandonedCardsClose'
  BY <1>4, <1>5 DEF AbandonedCardsClose, Pending
<1>11. RequestsMatch'
  BY <1>4, <1>5, <1>6, <1>7 DEF RequestsMatch, Pending, Parked
<1>12. RowsPlain'
  BY <1>4, <1>5 DEF RowsPlain
<1>13. RowsKept /\ ResultsKept
  BY <1>3, <1>4, <1>5 DEF RowsKept, ResultsKept
<1>14. \A q \in Requests : /\ phase'[q] # phase[q] => phase[q] \in Parked
                           /\ phase'[q] = "none" <=> phase[q] = "none"
  BY <1>6, <1>7 DEF Parked
<1> QED
  BY <1>8, <1>9, <1>10, <1>11, <1>12, <1>13, <1>14

(* Only one request moves, and not to a wait of its own: the table is as it was. *)
LEMMA RequestStep ==
  ASSUME TypeOK, NoStrandedCaller, AbandonedCardsClose, RequestsMatch, RowsPlain,
         NEW r \in Requests, phase[r] \in {"none", "resolving"}, NEW p \in Phase \ {"waiting", "none"},
         NEW c \in Cards \cup {NoCard},
         phase' = [phase EXCEPT ![r] = p], cardOf' = [cardOf EXCEPT ![r] = c], cards' = cards,
         order' = order, aborted' = aborted,
         p = "joined" => c \in Cards /\ Pending(c) /\ cards[c].input[1] = order[r[1]],
         p = "allow" => /\ c \in Cards /\ cards[c].status = "approved"
                        /\ cards[c].input[1] = order[r[1]],
         p = "resolving" => c = NoCard
  PROVE  /\ GateTypes' /\ NoStrandedCaller' /\ AbandonedCardsClose' /\ RequestsMatch' /\ RowsPlain'
         /\ RowsKept /\ ResultsKept /\ OthersKept(r) /\ cardOf'[r] = c /\ phase'[r] = p
<1>0. /\ cards \in Seq(Card) /\ phase \in [Requests -> Phase] /\ Len(cards) \in Nat
      /\ cardOf \in [Requests -> Cards \cup {NoCard}]
  BY CardsFacts DEF TypeOK
<1>1. Cards' = Cards
  BY DEF Cards
<1>2. /\ phase'[r] = p /\ cardOf'[r] = c
      /\ \A q \in Requests : q # r => phase'[q] = phase[q] /\ cardOf'[q] = cardOf[q]
  BY <1>0
<1>3. GateTypes'
  BY <1>0, <1>1 DEF GateTypes
<1>4. NoStrandedCaller'
  <2>1. \A d \in Cards : WaitingOn(d)' = WaitingOn(d)
    BY <1>2 DEF WaitingOn
  <2>2. \A q \in Requests : phase'[q] \in Parked => Pending(cardOf[q])'
    BY <1>2 DEF NoStrandedCaller, Pending, Parked
  <2>3. \A d \in Cards' : Settled(cards'[d], WaitingOn(d)')
    BY <1>1, <2>1, Settling
  <2> QED
    BY <2>2, <2>3, Settling
<1>5. AbandonedCardsClose' /\ RowsPlain'
  BY <1>1 DEF AbandonedCardsClose, RowsPlain, Pending
<1>6. RequestsMatch'
  <2> SUFFICES ASSUME NEW q \in Requests
               PROVE  /\ phase'[q] \in Parked \cup {"allow"} =>
                           /\ cardOf'[q] \in Cards
                           /\ cards[cardOf'[q]].input[1] = order[q[1]]
                           /\ phase'[q] = "allow" => cards[cardOf'[q]].status = "approved"
                      /\ phase'[q] \in {"none", "resolving"} => cardOf'[q] = NoCard
    BY <1>1 DEF RequestsMatch
  <2>1. CASE q = r
    BY <1>2, <2>1 DEF Parked
  <2>2. CASE q # r
    BY <1>2, <2>2 DEF RequestsMatch
  <2> QED
    BY <2>1, <2>2
<1>7. RowsKept /\ ResultsKept /\ OthersKept(r)
  BY <1>0, <1>1, <1>2 DEF RowsKept, ResultsKept, OthersKept
<1> QED
  BY <1>2, <1>3, <1>4, <1>5, <1>6, <1>7

(* Asking the gate: the caller joins a wait, mirrors a decision, waits for the
   contracts or gets a card. *)
LEMMA AskStep ==
  ASSUME TypeOK, NoStrandedCaller, AbandonedCardsClose, RequestsMatch, RowsPlain,
         NEW r \in Requests, phase[r] = "none", Ask(r), order' = order, aborted' = aborted
  PROVE  /\ GateTypes' /\ NoStrandedCaller' /\ AbandonedCardsClose' /\ RequestsMatch' /\ RowsPlain'
         /\ RowsKept /\ ResultsKept /\ OthersKept(r)
         /\ phase'[r] # "none" /\ snapshot' \in [Requests -> Mode]
         /\ \/ cardOf'[r] \notin Cards
            \/ Pending(cardOf'[r])
            \/ r[2] = "elicit" /\ cards[cardOf'[r]].fresh
<1>0. /\ mode \in Mode /\ snapshot \in [Requests -> Mode] /\ cards \in Seq(Card)
      /\ cardOf \in [Requests -> Cards \cup {NoCard}] /\ NoCard \notin Cards
  BY CardsFacts DEF TypeOK, NoCard
<1> DEFINE dup == LatestByKey(InputOf(r))
<1>1. dup # NoCard => dup \in Cards /\ cards[dup].input[1] = order[r[1]]
  BY <1>0, LatestFacts, InputFacts DEF TypeOK
<1> HIDE DEF dup
<1>2. CASE /\ Joinable(dup) /\ phase' = [phase EXCEPT ![r] = "joined"]
           /\ cardOf' = [cardOf EXCEPT ![r] = dup] /\ UNCHANGED <<cards, snapshot>>
  <2>1. dup \in Cards /\ Pending(dup) /\ cards[dup].input[1] = order[r[1]]
    BY <1>1, <1>2 DEF Joinable
  <2>2. "joined" \in Phase \ {"waiting", "none"}
    BY DEF Phase
  <2> QED
    BY <1>0, <1>2, <2>1, <2>2, RequestStep
<1>3. CASE /\ Mirrorable(r, dup) /\ phase' = [phase EXCEPT ![r] = Answer(cards[dup].status)]
           /\ cardOf' = [cardOf EXCEPT ![r] = dup] /\ UNCHANGED <<cards, snapshot>>
  <2>1. dup \in Cards /\ r[2] = "elicit" /\ cards[dup].fresh /\ cards[dup].input[1] = order[r[1]]
    BY <1>1, <1>3 DEF Mirrorable
  <2>2. /\ Answer(cards[dup].status) \in {"allow", "deny"}
        /\ Answer(cards[dup].status) = "allow" => cards[dup].status = "approved"
    BY DEF Answer
  <2>3. {"allow", "deny"} \subseteq Phase \ {"waiting", "none"}
    BY DEF Phase
  <2> QED
    BY <1>0, <1>3, <2>1, <2>2, <2>3, RequestStep, ZenonT(60)
<1>4. CASE /\ phase' = [phase EXCEPT ![r] = "resolving"] /\ snapshot' = [snapshot EXCEPT ![r] = mode]
           /\ UNCHANGED <<cards, cardOf>>
  <2>1. "resolving" \in Phase \ {"waiting", "none"}
    BY DEF Phase
  <2>2. cardOf[r] = NoCard
    BY DEF RequestsMatch
  <2>3. cardOf' = [cardOf EXCEPT ![r] = NoCard]
    BY <1>0, <1>4, <2>2
  <2> QED
    BY <1>0, <1>4, <2>1, <2>3, RequestStep
<1>5. CASE Raise(r, mode) /\ UNCHANGED snapshot
  BY <1>0, <1>5, RaiseStep
<1> QED
  BY <1>2, <1>3, <1>4, <1>5 DEF Ask, dup

(* Touching a row's outcome or its window settles and strands nobody. *)
LEMMA RowStep ==
  ASSUME TypeOK, NoStrandedCaller, AbandonedCardsClose, RequestsMatch, RowsPlain,
         NEW c \in Cards, NEW n \in Card, cards' = [cards EXCEPT ![c] = n],
         n.input = cards[c].input, n.status = cards[c].status, n.by = cards[c].by,
         n.armed = cards[c].armed, n.waiter = cards[c].waiter,
         phase' = phase, cardOf' = cardOf, order' = order, aborted' = aborted
  PROVE  /\ GateTypes' /\ NoStrandedCaller' /\ AbandonedCardsClose' /\ RequestsMatch' /\ RowsPlain'
         /\ RowsKept /\ Cards' = Cards
         /\ \A d \in Cards : cards'[d] = IF d = c THEN n ELSE cards[d]
<1>0. /\ cards \in Seq(Card) /\ phase \in [Requests -> Phase] /\ c \in 1 .. Len(cards)
      /\ cardOf \in [Requests -> Cards \cup {NoCard}] /\ Len(cards) \in Nat /\ Cards = 1 .. Len(cards)
  BY CardsFacts DEF TypeOK
<1>1. /\ cards' \in Seq(Card) /\ Len(cards') = Len(cards)
      /\ \A d \in Cards : cards'[d] = IF d = c THEN n ELSE cards[d]
  BY <1>0, ExceptSeq
<1>2. Cards' = Cards
  BY <1>0, <1>1 DEF Cards
<1>3. GateTypes'
  BY <1>0, <1>1, <1>2 DEF GateTypes
<1>4. \A d \in Cards : /\ cards'[d].input = cards[d].input /\ cards'[d].status = cards[d].status
                       /\ cards'[d].by = cards[d].by /\ cards'[d].armed = cards[d].armed
                       /\ cards'[d].waiter = cards[d].waiter
  BY <1>1
<1>5. NoStrandedCaller'
  <2>1. \A d \in Cards' : Settled(cards'[d], WaitingOn(d)')
    BY <1>2, <1>4, Settling DEF Settled, WaitingOn
  <2>2. \A q \in Requests : phase'[q] \in Parked => Pending(cardOf[q])'
    BY <1>4 DEF NoStrandedCaller, Pending, RequestsMatch
  <2> QED
    BY <2>1, <2>2, Settling
<1>6. AbandonedCardsClose' /\ RequestsMatch' /\ RowsPlain'
  BY <1>2, <1>4 DEF AbandonedCardsClose, RequestsMatch, RowsPlain, Pending
<1>7. RowsKept
  BY <1>0, <1>1, <1>2, <1>4 DEF RowsKept
<1> QED
  BY <1>1, <1>2, <1>3, <1>5, <1>6, <1>7

(* A step that leaves the gate alone. *)
LEMMA GateRests ==
  ASSUME GateInv, phase' = phase, cardOf' = cardOf, cards' = cards, order' = order, aborted' = aborted
  PROVE  /\ GateTypes' /\ NoStrandedCaller' /\ AbandonedCardsClose' /\ RequestsMatch' /\ RowsPlain'
         /\ RowsKept /\ ResultsKept
<1>1. Cards' = Cards /\ Len(cards) \in Nat
  BY CardsFacts DEF Cards, GateInv, TypeOK
<1>2. GateTypes' /\ RowsKept /\ ResultsKept
  BY <1>1 DEF GateInv, TypeOK, GateTypes, RowsKept, ResultsKept
<1>3. RequestsMatch' /\ RowsPlain' /\ AbandonedCardsClose'
  BY <1>1 DEF GateInv, RequestsMatch, RowsPlain, AbandonedCardsClose, Pending
<1>4. NoStrandedCaller'
  <2>1. \A d \in Cards' : Settled(cards'[d], WaitingOn(d)')
    BY <1>1, Settling DEF WaitingOn, GateInv
  <2>2. \A q \in Requests : phase'[q] \in Parked => Pending(cardOf[q])'
    BY DEF NoStrandedCaller, Pending, GateInv
  <2> QED
    BY <2>1, <2>2, Settling
<1> QED
  BY <1>2, <1>3, <1>4

-----------------------------------------------------------------------------
(* The agent behind the gate                                                 *)

(* A step that starts no call and lets none pass: calls may end, answers may
   arrive, a request that was not allowed may get a card of its own. *)
LEMMA AgentKept ==
  ASSUME TypeOK, RequestsMatch, AgentInv, layers' = layers, attempts' = attempts,
         \A a \in Attempts : /\ stage'[a] \in Active => stage[a] \in Active
                             /\ stage'[a] \in Passed => stage[a] \in Passed
                             /\ stage'[a] = "gating" => stage[a] = "gating"
                             /\ stage[a] = "none" => stage'[a] = "none",
         \A q \in Requests : /\ phase'[q] = "none" <=> phase[q] = "none"
                             /\ phase[q] = "allow" => phase'[q] = "allow"
                             /\ \/ cardOf'[q] = cardOf[q]
                                \/ phase[q] # "allow" /\ cardOf'[q] \notin Cards
  PROVE  AgentInv'
<1>0. FirstLayer' = FirstLayer /\ FirstLayer \in layers /\ layers \subseteq Layers
      /\ \A a \in Attempts, l \in Layers : <<a, l>> \in Requests
  BY LayerFacts, RequestFacts DEF FirstLayer, TypeOK
<1>1. OneActive'
  BY DEF AgentInv, OneActive
<1>2. FutureUntouched'
  BY <1>0 DEF AgentInv, FutureUntouched
<1>3. Layered'
  <2>1. \A a \in Attempts : <<a, "hook">> \in Requests /\ <<a, "elicit">> \in Requests
    BY <1>0 DEF Layers
  <2> QED
    BY <2>1 DEF AgentInv, Layered
<1>4. Passing'
  <2>1. \A a \in Attempts, l \in layers : <<a, l>> \in Requests
    BY <1>0
  <2> QED
    BY <2>1 DEF AgentInv, Passing
<1>5. OwnConsent'
  <2> SUFFICES ASSUME NEW a \in Attempts, NEW b \in Attempts,
                      stage'[a] \in Passed, stage'[b] \in Passed \cup {"gating"},
                      cardOf'[<<a, FirstLayer>>] = cardOf'[<<b, FirstLayer>>]
               PROVE  a = b
    BY <1>0 DEF OwnConsent
  <2>1. stage[a] \in Passed /\ stage[b] \in Passed \cup {"gating"}
    OBVIOUS
  <2>2. <<a, FirstLayer>> \in Requests /\ <<b, FirstLayer>> \in Requests
    BY <1>0
  <2>3. phase[<<a, FirstLayer>>] = "allow"
    BY <1>0, <2>1 DEF AgentInv, Passing
  <2>4. cardOf'[<<a, FirstLayer>>] = cardOf[<<a, FirstLayer>>] /\ cardOf[<<a, FirstLayer>>] \in Cards
    BY <2>2, <2>3 DEF RequestsMatch
  <2>5. cardOf'[<<b, FirstLayer>>] = cardOf[<<b, FirstLayer>>]
    BY <2>2, <2>4
  <2> QED
    BY <2>1, <2>4, <2>5 DEF AgentInv, OwnConsent
<1> QED
  BY <1>1, <1>2, <1>3, <1>4, <1>5 DEF AgentInv

(* A step that records no result. *)
LEMMA ResultsStay ==
  ASSUME TypeOK, ResultsInv, RowsKept, ResultsKept, order' = order,
         \A a \in Attempts : stage'[a] = "reported" <=> stage[a] = "reported"
  PROVE  ResultsInv'
<1>0. \A c \in Cards : c # 0 /\ cards[c].outcome \in Attempts \cup {0}
  BY CardsFacts DEF TypeOK, Card
<1>1. Cards \subseteq Cards' /\ \A c \in Cards' : c \notin Cards => cards'[c].outcome = 0
  BY DEF RowsKept, ResultsKept
<1>2. OutcomesReported'
  BY <1>0, <1>1 DEF ResultsKept, ResultsInv, OutcomesReported
<1>3. EachResultRecordedOnce'
  <2> SUFFICES ASSUME NEW a \in Attempts, stage'[a] = "reported"
               PROVE  \E c \in Cards' :
                        /\ {d \in Cards' : cards'[d].outcome = a} = {c}
                        /\ cards'[c].status = "approved"
                        /\ Drifting # {} \/ cards'[c].input[1] = order[a]
    BY DEF EachResultRecordedOnce
  <2>1. PICK c \in Cards : /\ {d \in Cards : cards[d].outcome = a} = {c}
                           /\ cards[c].status = "approved"
                           /\ Drifting # {} \/ cards[c].input[1] = order[a]
    BY DEF ResultsInv, EachResultRecordedOnce
  <2>2. a # 0
    BY MaxAttemptsAssumption DEF Attempts
  <2>3. {d \in Cards' : cards'[d].outcome = a} = {d \in Cards : cards[d].outcome = a}
    BY <1>1, <2>2 DEF ResultsKept
  <2>4. cards'[c].status = "approved" /\ cards'[c].input = cards[c].input
    BY <2>1 DEF RowsKept, Pending
  <2> QED
    BY <1>1, <2>1, <2>3, <2>4
<1> QED
  BY <1>2, <1>3 DEF ResultsInv

LEMMA TypesTogether ==
  TypeOK' <=> /\ GateTypes' /\ layers' \in Layerings /\ mode' \in Mode /\ attempts' \in 0 .. MaxAttempts
              /\ order' \in [Attempts -> Orders] /\ stage' \in [Attempts -> Stage]
              /\ aborted' \in [Requests -> BOOLEAN] /\ snapshot' \in [Requests -> Mode]
  BY DEF TypeOK, GateTypes

-----------------------------------------------------------------------------
(* Reporting a result                                                        *)

(* The calls of the same order, or all of them where texts drift, that have passed;
   each has an approved card of its own, and fewer results are recorded on such cards
   than calls have passed while one of these is not reported.  So there is a row for
   its result. *)
LEMMA RowForResult ==
  ASSUME GateInv, AgentInv, ResultsInv, NEW a \in Attempts, stage[a] = "placed"
  PROVE  \E c \in Unrecorded : Drifting # {} \/ cards[c].input = <<order[a], FALSE>>
<1> SUFFICES ASSUME \A c \in Unrecorded : Drifting = {} /\ cards[c].input # <<order[a], FALSE>>
             PROVE  FALSE
  OBVIOUS
<1> USE DEF GateInv, AgentInv, ResultsInv
<1> DEFINE P == {b \in Attempts : stage[b] \in Passed /\ (Drifting # {} \/ order[b] = order[a])}
           R == {b \in P : stage[b] = "reported"}
           consent(b) == cardOf[<<b, FirstLayer>>]
           f == [b \in P |-> cards[consent(b)].outcome]
<1>1. a \in P /\ a \notin R
  BY DEF Passed
<1>2. ASSUME NEW b \in P
      PROVE  /\ consent(b) \in Cards /\ cards[consent(b)].status = "approved"
             /\ cards[consent(b)].input[1] = order[b]
  <2>1. FirstLayer \in layers /\ <<b, FirstLayer>> \in Requests
    BY LayerFacts, RequestFacts DEF TypeOK
  <2>2. phase[<<b, FirstLayer>>] = "allow"
    BY <2>1 DEF Passing
  <2>3. <<b, FirstLayer>>[1] = b
    OBVIOUS
  <2> QED
    BY <2>1, <2>2, <2>3 DEF RequestsMatch
<1>3. ASSUME NEW b \in P
      PROVE  cards[consent(b)].outcome \in Attempts
  <2>1. cards[consent(b)] \in Card
    BY <1>2, CardsFacts DEF TypeOK
  <2>2. cards[consent(b)].outcome # 0
    <3>1. SUFFICES ASSUME cards[consent(b)].outcome = 0 PROVE FALSE
      OBVIOUS
    <3>2. consent(b) \in Unrecorded
      BY <1>2, <3>1 DEF Unrecorded
    <3>3. Drifting = {} /\ cards[consent(b)].input # <<order[a], FALSE>>
      BY <3>2
    <3>4. cards[consent(b)].input[1] = order[a] /\ cards[consent(b)].input[2] = FALSE
      BY <1>2, <3>3 DEF RowsPlain
    <3>5. cards[consent(b)].input \in Inputs
      BY <2>1 DEF Card
    <3> QED
      BY <3>3, <3>4, <3>5, PairFacts
  <2> QED
    BY <2>1, <2>2 DEF Card
<1>4. ASSUME NEW b \in P
      PROVE  /\ f[b] \in R
             /\ {d \in Cards : cards[d].outcome = f[b]} = {consent(b)}
  <2>1. f[b] = cards[consent(b)].outcome /\ f[b] \in Attempts /\ f[b] # 0
    BY <1>3, MaxAttemptsAssumption DEF Attempts
  <2>2. stage[f[b]] = "reported"
    BY <1>2, <2>1 DEF OutcomesReported
  <2>3. PICK c \in Cards : /\ {d \in Cards : cards[d].outcome = f[b]} = {c}
                           /\ Drifting # {} \/ cards[c].input[1] = order[f[b]]
    BY <2>1, <2>2 DEF EachResultRecordedOnce
  <2>4. c = consent(b)
    BY <1>2, <2>1, <2>3
  <2>5. Drifting # {} \/ order[f[b]] = order[a]
    BY <1>2, <2>3, <2>4
  <2> QED
    BY <2>1, <2>2, <2>3, <2>4, <2>5 DEF Passed
<1>5. IsFiniteSet(P) /\ IsFiniteSet(R) /\ Cardinality(R) < Cardinality(P)
  <2>1. IsFiniteSet(Attempts)
    BY FS_Interval, MaxAttemptsAssumption DEF Attempts
  <2>2. IsFiniteSet(P)
    BY <2>1, FS_Subset
  <2>3. R \subseteq P /\ R # P
    BY <1>1
  <2> HIDE DEF P, R
  <2> QED
    BY <2>2, <2>3, FS_Subset, FS_CardinalityType
<1>6. f \in [P -> R]
  BY <1>4
<1>7. PICK x \in P, y \in P : x # y /\ f[x] = f[y]
  <2> HIDE DEF f, P, R
  <2> QED
    BY <1>5, <1>6, FS_PigeonHole
<1>8. consent(x) = consent(y)
  <2>1. {d \in Cards : cards[d].outcome = f[x]} = {consent(x)}
    BY <1>4
  <2>2. {d \in Cards : cards[d].outcome = f[y]} = {consent(y)}
    BY <1>4
  <2> QED
    BY <1>7, <2>1, <2>2
<1> QED
  BY <1>7, <1>8 DEF OwnConsent

(* The oldest such row takes it. *)
LEMMA TargetFound ==
  ASSUME GateInv, AgentInv, ResultsInv, NEW a \in Attempts, stage[a] = "placed",
         NEW d \in BOOLEAN, d => a \in Drifting
  PROVE  /\ OutcomeTarget(<<order[a], d>>) \in Unrecorded
         /\ Drifting # {} \/ cards[OutcomeTarget(<<order[a], d>>)].input[1] = order[a]
<1> DEFINE exact == {c \in Unrecorded : cards[c].input = <<order[a], d>>}
<1>1. Unrecorded \subseteq Nat
  BY CardsFacts DEF GateInv, TypeOK, Unrecorded
<1>2. PICK c \in Unrecorded : Drifting # {} \/ cards[c].input = <<order[a], FALSE>>
  BY RowForResult
<1>3. CASE exact # {}
  <2>1. PICK m \in exact : m = Min(exact)
    BY <1>1, <1>3, MinMember
  <2>2. OutcomeTarget(<<order[a], d>>) = m
    BY <1>3, <2>1 DEF OutcomeTarget
  <2>3. cards[m].input = <<order[a], d>>
    OBVIOUS
  <2>4. cards[m].input[1] = order[a]
    BY <2>3
  <2> QED
    BY <2>1, <2>2, <2>4
<1>4. CASE exact = {}
  <2>1. Drifting # {}
    <3>1. Drifting = {} => d = FALSE
      OBVIOUS
    <3> QED
      BY <1>2, <1>4, <3>1
  <2>2. Min(Unrecorded) \in Unrecorded
    BY <1>1, <1>2, MinMember
  <2>3. OutcomeTarget(<<order[a], d>>) = Min(Unrecorded)
    BY <1>2, <1>4 DEF OutcomeTarget
  <2> QED
    BY <2>1, <2>2, <2>3
<1> QED
  BY <1>3, <1>4

-----------------------------------------------------------------------------
(* The steps: IInv is preserved and the rows are kept                        *)

(* What every step must show, in parts. *)
LEMMA Together ==
  ASSUME GateTypes', NoStrandedCaller', AbandonedCardsClose', RequestsMatch', RowsPlain',
         layers' \in Layerings, mode' \in Mode, attempts' \in 0 .. MaxAttempts,
         order' \in [Attempts -> Orders], stage' \in [Attempts -> Stage],
         aborted' \in [Requests -> BOOLEAN], snapshot' \in [Requests -> Mode],
         AgentInv', ResultsInv'
  PROVE  IInv'
  BY TypesTogether DEF IInv, GateInv

(* A call that only moves on after the gate, or ends. *)
LEMMA StageStep ==
  ASSUME IInv,
         \/ \E a \in Attempts : Place(a) \/ ResultLost(a) \/ HookGivesUp(a)
         \/ SessionDies
  PROVE  IInv' /\ RowsKept
<1>0. TypeOK /\ GateInv /\ AgentInv /\ ResultsInv /\ RequestsMatch
  BY DEF IInv, GateInv
<1>1. UNCHANGED <<layers, mode, attempts, order, requestVars, cards>>
  BY DEF Place, ResultLost, HookGivesUp, SessionDies
<1>2. stage' \in [Attempts -> Stage]
  BY <1>0 DEF TypeOK, Stage, Place, ResultLost, HookGivesUp, SessionDies, AfterDeath, Active
<1>3. \A a \in Attempts : /\ stage'[a] \in Active => stage[a] \in Active
                          /\ stage'[a] \in Passed => stage[a] \in Passed
                          /\ stage'[a] = "gating" => stage[a] = "gating"
                          /\ stage[a] = "none" => stage'[a] = "none"
                          /\ stage'[a] = "reported" <=> stage[a] = "reported"
  BY <1>0 DEF TypeOK, Stage, Active, Passed, Place, ResultLost, HookGivesUp, SessionDies, AfterDeath
<1>4. /\ GateTypes' /\ NoStrandedCaller' /\ AbandonedCardsClose' /\ RequestsMatch' /\ RowsPlain'
      /\ RowsKept /\ ResultsKept
  BY <1>0, <1>1, GateRests DEF requestVars
<1>5. AgentInv'
  BY <1>0, <1>1, <1>3, AgentKept DEF requestVars
<1>6. ResultsInv'
  BY <1>0, <1>1, <1>3, <1>4, ResultsStay
<1> QED
  BY <1>0, <1>1, <1>2, <1>4, <1>5, <1>6, Together DEF TypeOK, requestVars

(* The user's switch between approve and auto. *)
LEMMA SetModeStep == ASSUME IInv, SetMode PROVE IInv' /\ RowsKept
<1>0. TypeOK /\ GateInv /\ AgentInv /\ ResultsInv /\ RequestsMatch
  BY DEF IInv, GateInv
<1>1. UNCHANGED <<agentVars, requestVars, cards>> /\ mode' \in Mode
  BY DEF SetMode
<1>4. /\ GateTypes' /\ NoStrandedCaller' /\ AbandonedCardsClose' /\ RequestsMatch' /\ RowsPlain'
      /\ RowsKept /\ ResultsKept
  BY <1>0, <1>1, GateRests DEF requestVars, agentVars
<1>5. AgentInv'
  BY <1>0, <1>1, AgentKept DEF requestVars, agentVars
<1>6. ResultsInv'
  BY <1>0, <1>1, <1>4, ResultsStay DEF agentVars
<1> QED
  BY <1>0, <1>1, <1>4, <1>5, <1>6, Together DEF TypeOK, requestVars, agentVars

(* The user, a timer or a connection that is gone closes a card. *)
LEMMA ClosingStep ==
  ASSUME IInv, NEW c \in Cards, Pending(c), NEW s \in Status \ {"pending"}, NEW b \in DecidedBy,
         Close(c, s, b), UNCHANGED <<mode, agentVars, cardOf, aborted, snapshot>>
  PROVE  IInv' /\ RowsKept
<1>0. /\ TypeOK /\ GateInv /\ AgentInv /\ ResultsInv /\ RequestsMatch
      /\ NoStrandedCaller /\ AbandonedCardsClose /\ RowsPlain
  BY DEF IInv, GateInv
<1>1. /\ GateTypes' /\ NoStrandedCaller' /\ AbandonedCardsClose' /\ RequestsMatch' /\ RowsPlain'
      /\ RowsKept /\ ResultsKept
      /\ \A q \in Requests : phase'[q] # phase[q] => phase[q] \in Parked
      /\ \A q \in Requests : phase'[q] = "none" <=> phase[q] = "none"
  BY <1>0, CloseStep DEF agentVars
<1>2. AgentInv'
  <2>1. \A q \in Requests : phase[q] = "allow" => phase'[q] = "allow"
    BY <1>1 DEF Parked
  <2> QED
    BY <1>0, <1>1, <2>1, AgentKept DEF agentVars
<1>3. ResultsInv'
  BY <1>0, <1>1, ResultsStay DEF agentVars
<1> QED
  BY <1>0, <1>1, <1>2, <1>3, Together DEF TypeOK, agentVars

LEMMA DecideStep ==
  ASSUME IInv, NEW c \in Cards, NEW approve \in BOOLEAN, Decide(c, approve)
  PROVE  IInv' /\ RowsKept
<1>1. (IF approve THEN "approved" ELSE "rejected") \in Status \ {"pending"} /\ "user" \in DecidedBy
  BY DEF Status, DecidedBy
<1>2. Pending(c) /\ Close(c, IF approve THEN "approved" ELSE "rejected", "user")
      /\ UNCHANGED <<mode, agentVars, cardOf, aborted, snapshot>>
  BY DEF Decide
<1> HIDE DEF Close
<1> QED
  BY <1>1, <1>2, ClosingStep

(* A timer that is armed belongs to a card that is pending. *)
LEMMA TimeoutStep == ASSUME IInv, NEW c \in Cards, TimeoutFires(c) PROVE IInv' /\ RowsKept
<1>1. "expired" \in Status \ {"pending"} /\ "timeout" \in DecidedBy
  BY DEF Status, DecidedBy
<1>2. cards[c].armed /\ Close(c, "expired", "timeout")
      /\ UNCHANGED <<mode, agentVars, cardOf, aborted, snapshot>>
  BY DEF TimeoutFires
<1>3. Pending(c)
  BY <1>2 DEF IInv, GateInv, NoStrandedCaller
<1> QED
  BY <1>1, <1>2, <1>3, ClosingStep

LEMMA DisconnectStep == ASSUME IInv, NEW r \in Requests, Disconnect(r) PROVE IInv' /\ RowsKept
<1>0. /\ TypeOK /\ GateInv /\ AgentInv /\ ResultsInv /\ RequestsMatch
      /\ NoStrandedCaller /\ AbandonedCardsClose /\ RowsPlain
  BY DEF IInv, GateInv
<1>1. CASE phase[r] = "waiting" /\ Close(cardOf[r], "expired", "timeout") /\ UNCHANGED aborted
  <2>1. "expired" \in Status \ {"pending"} /\ "timeout" \in DecidedBy
    BY DEF Status, DecidedBy
  <2>2. cardOf[r] \in Cards /\ Pending(cardOf[r])
    BY <1>0, <1>1 DEF RequestsMatch, NoStrandedCaller, Parked
  <2>3. UNCHANGED <<mode, agentVars, cardOf, aborted, snapshot>>
    BY <1>1 DEF Disconnect
  <2> QED
    BY <1>1, <2>1, <2>2, <2>3, ClosingStep
<1>2. CASE phase[r] = "resolving" /\ aborted' = [aborted EXCEPT ![r] = TRUE] /\ UNCHANGED <<phase, cards>>
  <2>1. UNCHANGED <<mode, agentVars, cardOf, snapshot>>
    BY DEF Disconnect
  <2>2. Cards' = Cards /\ Len(cards) \in Nat
    BY <1>0, <1>2, CardsFacts DEF Cards, TypeOK
  <2>3. GateTypes' /\ RowsKept /\ ResultsKept /\ RequestsMatch' /\ RowsPlain'
    BY <1>0, <1>2, <2>1, <2>2
       DEF TypeOK, GateTypes, RowsKept, ResultsKept, RequestsMatch, RowsPlain, agentVars
  <2>4. NoStrandedCaller'
    <3>1. \A d \in Cards' : Settled(cards'[d], WaitingOn(d)')
      BY <1>0, <1>2, <2>1, <2>2, Settling DEF WaitingOn
    <3>2. \A q \in Requests : phase'[q] \in Parked => Pending(cardOf[q])'
      BY <1>0, <1>2, <2>1 DEF NoStrandedCaller, Pending
    <3> QED
      BY <3>1, <3>2, Settling
  <2>5. AbandonedCardsClose'
    <3> SUFFICES ASSUME NEW c \in Cards, Pending(c) PROVE ~aborted'[cards[c].waiter]
      BY <1>2, <2>2 DEF AbandonedCardsClose, Pending
    <3>1. WaitingOn(c) = {cards[c].waiter}
      BY <1>0, Settling DEF Settled, Pending
    <3>2. cards[c].waiter # r /\ ~aborted[cards[c].waiter] /\ cards[c].waiter \in Requests
      BY <1>0, <1>2, <3>1 DEF WaitingOn, AbandonedCardsClose
    <3>3. aborted \in [Requests -> BOOLEAN]
      BY <1>0 DEF TypeOK
    <3> QED
      BY <1>2, <3>2, <3>3
  <2>6. aborted' \in [Requests -> BOOLEAN]
    BY <1>0, <1>2 DEF TypeOK
  <2>7. AgentInv'
    BY <1>0, <1>2, <2>1, AgentKept DEF agentVars
  <2>8. ResultsInv'
    BY <1>0, <2>1, <2>3, ResultsStay DEF agentVars
  <2> QED
    BY <1>0, <1>2, <2>1, <2>3, <2>4, <2>5, <2>6, <2>7, <2>8, Together DEF TypeOK, agentVars
<1> QED
  BY <1>1, <1>2 DEF Disconnect

(* The mirror window of a decision. *)
LEMMA WindowStep == ASSUME IInv, NEW c \in Cards, WindowCloses(c) PROVE IInv' /\ RowsKept
<1>0. /\ TypeOK /\ GateInv /\ AgentInv /\ ResultsInv /\ RequestsMatch
      /\ NoStrandedCaller /\ AbandonedCardsClose /\ RowsPlain /\ cards[c] \in Card
  BY CardsFacts DEF IInv, GateInv, TypeOK
<1>1. PICK n : n = [cards[c] EXCEPT !.fresh = FALSE]
  OBVIOUS
<1>2. /\ n \in Card /\ n.input = cards[c].input /\ n.status = cards[c].status /\ n.by = cards[c].by
      /\ n.armed = cards[c].armed /\ n.waiter = cards[c].waiter /\ n.outcome = cards[c].outcome
  BY <1>0, <1>1 DEF Card
<1>3. cards' = [cards EXCEPT ![c] = n] /\ UNCHANGED <<mode, agentVars, requestVars>>
  BY <1>1 DEF WindowCloses
<1>4. /\ GateTypes' /\ NoStrandedCaller' /\ AbandonedCardsClose' /\ RequestsMatch' /\ RowsPlain'
      /\ RowsKept /\ Cards' = Cards /\ \A d \in Cards : cards'[d] = IF d = c THEN n ELSE cards[d]
  BY <1>0, <1>2, <1>3, RowStep DEF agentVars, requestVars
<1>5. ResultsKept
  BY <1>2, <1>4 DEF ResultsKept
<1>6. AgentInv' /\ ResultsInv'
  BY <1>0, <1>3, <1>4, <1>5, AgentKept, ResultsStay DEF agentVars, requestVars
<1> QED
  BY <1>0, <1>3, <1>4, <1>6, Together DEF TypeOK, agentVars, requestVars

(* The result goes to a row that has none, and no other row changes. *)
LEMMA ReportStep ==
  ASSUME IInv, NEW a \in Attempts, NEW d \in BOOLEAN, ReportOutcome(a, d)
  PROVE  IInv' /\ RowsKept
<1>0. /\ TypeOK /\ GateInv /\ AgentInv /\ ResultsInv /\ RequestsMatch
      /\ NoStrandedCaller /\ AbandonedCardsClose /\ RowsPlain /\ a # 0
  BY MaxAttemptsAssumption DEF IInv, GateInv, Attempts
<1>1. stage[a] = "placed" /\ (d => a \in Drifting) /\ stage' = [stage EXCEPT ![a] = "reported"]
      /\ UNCHANGED <<layers, mode, attempts, order, requestVars>>
  BY DEF ReportOutcome
<1>2. PICK c \in Unrecorded : /\ c = OutcomeTarget(<<order[a], d>>)
                              /\ Drifting # {} \/ cards[c].input[1] = order[a]
  BY <1>0, <1>1, TargetFound
<1>3. /\ c \in Cards /\ cards[c].status = "approved" /\ cards[c].outcome = 0
      /\ c # NoCard /\ cards[c] \in Card
  BY <1>0, CardsFacts DEF Unrecorded, TypeOK, NoCard
<1>4. PICK n : n = [cards[c] EXCEPT !.outcome = a]
  OBVIOUS
<1>5. /\ n \in Card /\ n.input = cards[c].input /\ n.status = cards[c].status /\ n.by = cards[c].by
      /\ n.armed = cards[c].armed /\ n.waiter = cards[c].waiter /\ n.outcome = a
  BY <1>3, <1>4 DEF Card
<1>6. cards' = [cards EXCEPT ![c] = n]
  BY <1>2, <1>3, <1>4 DEF ReportOutcome
<1>7. /\ GateTypes' /\ NoStrandedCaller' /\ AbandonedCardsClose' /\ RequestsMatch' /\ RowsPlain'
      /\ RowsKept /\ Cards' = Cards /\ \A e \in Cards : cards'[e] = IF e = c THEN n ELSE cards[e]
  BY <1>0, <1>1, <1>3, <1>5, <1>6, RowStep DEF requestVars
<1>8. stage' \in [Attempts -> Stage] /\ stage \in [Attempts -> Stage]
  BY <1>0, <1>1 DEF TypeOK, Stage
<1>9. AgentInv'
  <2>1. \A b \in Attempts : /\ stage'[b] \in Active => stage[b] \in Active
                            /\ stage'[b] \in Passed => stage[b] \in Passed
                            /\ stage'[b] = "gating" => stage[b] = "gating"
                            /\ stage[b] = "none" => stage'[b] = "none"
    BY <1>1, <1>8 DEF Active, Passed
  <2> QED
    BY <1>0, <1>1, <2>1, AgentKept DEF requestVars
<1>10. \A e \in Cards : cards[e].outcome # a
  BY <1>0, <1>1 DEF ResultsInv, OutcomesReported
<1>11. OutcomesReported'
  <2>0. \A e \in Cards : cards[e].outcome # 0 => cards[e].outcome \in Attempts
    BY <1>0, CardsFacts DEF TypeOK, Card
  <2> QED
    BY <1>0, <1>1, <1>5, <1>7, <1>8, <2>0 DEF ResultsInv, OutcomesReported
<1>12. EachResultRecordedOnce'
  <2> SUFFICES ASSUME NEW b \in Attempts, stage'[b] = "reported"
               PROVE  \E e \in Cards :
                        /\ {f \in Cards : cards'[f].outcome = b} = {e}
                        /\ cards'[e].status = "approved"
                        /\ Drifting # {} \/ cards'[e].input[1] = order[b]
    BY <1>1, <1>7 DEF EachResultRecordedOnce
  <2>1. CASE b = a
    <3>1. {f \in Cards : cards'[f].outcome = a} = {c}
      BY <1>3, <1>5, <1>7, <1>10
    <3>2. cards'[c].status = "approved" /\ (Drifting # {} \/ cards'[c].input[1] = order[a])
      BY <1>2, <1>3, <1>5, <1>7
    <3> QED
      BY <1>3, <2>1, <3>1, <3>2
  <2>2. CASE b # a
    <3>1. stage[b] = "reported" /\ b # 0
      BY <1>1, <1>8, <2>2, MaxAttemptsAssumption DEF Attempts
    <3>2. PICK e \in Cards : /\ {f \in Cards : cards[f].outcome = b} = {e}
                             /\ cards[e].status = "approved"
                             /\ Drifting # {} \/ cards[e].input[1] = order[b]
      BY <1>0, <3>1 DEF ResultsInv, EachResultRecordedOnce
    <3>3. {f \in Cards : cards'[f].outcome = b} = {f \in Cards : cards[f].outcome = b}
      BY <1>3, <1>5, <1>7, <2>2, <3>1
    <3>4. cards'[e].status = "approved" /\ cards'[e].input = cards[e].input
      BY <1>5, <1>7, <3>2
    <3> QED
      BY <3>2, <3>3, <3>4
  <2> QED
    BY <2>1, <2>2
<1> QED
  BY <1>0, <1>1, <1>7, <1>8, <1>9, <1>11, <1>12, Together DEF TypeOK, requestVars, ResultsInv

(* The contracts were looked up, in time or not. *)
LEMMA ResolvedStep == ASSUME IInv, NEW r \in Requests, Resolved(r) PROVE IInv' /\ RowsKept
<1>0. /\ TypeOK /\ GateInv /\ AgentInv /\ ResultsInv /\ RequestsMatch
      /\ NoStrandedCaller /\ AbandonedCardsClose /\ RowsPlain
  BY DEF IInv, GateInv
<1>1. /\ phase[r] = "resolving" /\ Raise(r, snapshot[r]) /\ snapshot[r] \in Mode
      /\ snapshot' = [snapshot EXCEPT ![r] = "approve"] /\ UNCHANGED <<mode, agentVars, aborted>>
  BY <1>0 DEF Resolved, TypeOK
<1>2. /\ GateTypes' /\ NoStrandedCaller' /\ AbandonedCardsClose' /\ RequestsMatch' /\ RowsPlain'
      /\ RowsKept /\ ResultsKept /\ OthersKept(r) /\ cardOf'[r] \notin Cards /\ phase'[r] # "none"
  BY <1>0, <1>1, RaiseStep DEF agentVars
<1>3. snapshot' \in [Requests -> Mode]
  BY <1>0, <1>1 DEF TypeOK, Mode
<1>4. AgentInv'
  BY <1>0, <1>1, <1>2, AgentKept DEF agentVars, OthersKept
<1>5. ResultsInv'
  BY <1>0, <1>1, <1>2, ResultsStay DEF agentVars
<1> QED
  BY <1>0, <1>1, <1>2, <1>3, <1>4, <1>5, Together DEF TypeOK, agentVars

(* A new call: the card it may share is not one that let another call pass. *)
LEMMA StartOrderStep == ASSUME IInv, StartOrder PROVE IInv' /\ RowsKept
<1>0. /\ TypeOK /\ GateInv /\ AgentInv /\ ResultsInv /\ RequestsMatch
      /\ NoStrandedCaller /\ AbandonedCardsClose /\ RowsPlain
  BY DEF IInv, GateInv
<1>1. /\ attempts \in Nat /\ MaxAttempts \in Nat /\ attempts < MaxAttempts
      /\ attempts' = attempts + 1
  BY <1>0, MaxAttemptsAssumption DEF TypeOK, StartOrder
<1>n. PICK n \in Attempts : n = attempts + 1
  <2>1. attempts + 1 \in 1 .. MaxAttempts
    BY <1>1
  <2> QED
    BY <2>1 DEF Attempts
<1>2. /\ n > attempts /\ \A a \in Attempts : a > attempts' => a > attempts /\ a # n
      /\ attempts' \in 0 .. MaxAttempts
  BY <1>1, <1>n DEF Attempts
<1>f. PICK f \in Layers : f = FirstLayer /\ f \in layers
  BY <1>0, LayerFacts DEF TypeOK
<1>r. PICK r \in Requests : r = <<n, f>> /\ r[1] = n /\ r[2] = f
  BY RequestFacts
<1>3. /\ \A a \in Attempts : stage[a] \notin Active
      /\ f = "elicit" => \A c \in Cards : ~cards[c].fresh
      /\ stage' = [stage EXCEPT ![n] = "gating"]
      /\ Ask(r) /\ UNCHANGED <<layers, mode, order, aborted>>
  BY <1>n, <1>f, <1>r DEF StartOrder
<1>4. stage[n] = "none" /\ \A l \in Layers : phase[<<n, l>>] = "none"
  BY <1>0, <1>2 DEF AgentInv, FutureUntouched
<1>5. phase[r] = "none"
  BY <1>4, <1>r, <1>f
<1>6. /\ GateTypes' /\ NoStrandedCaller' /\ AbandonedCardsClose' /\ RequestsMatch' /\ RowsPlain'
      /\ RowsKept /\ ResultsKept /\ OthersKept(r) /\ phase'[r] # "none" /\ snapshot' \in [Requests -> Mode]
      /\ \/ cardOf'[r] \notin Cards
         \/ Pending(cardOf'[r])
         \/ f = "elicit" /\ cards[cardOf'[r]].fresh
  BY <1>0, <1>3, <1>5, <1>r, AskStep
<1>7. /\ stage \in [Attempts -> Stage] /\ stage' \in [Attempts -> Stage]
      /\ \A a \in Attempts : stage'[a] = IF a = n THEN "gating" ELSE stage[a]
  BY <1>0, <1>3 DEF TypeOK, Stage
<1>8. \A a \in Attempts, l \in Layers :
        /\ <<a, l>> \in Requests
        /\ <<a, l>> # <<n, f>> =>
             phase'[<<a, l>>] = phase[<<a, l>>] /\ cardOf'[<<a, l>>] = cardOf[<<a, l>>]
  BY <1>6, <1>r, RequestFacts DEF OthersKept
<1>9. FirstLayer' = f /\ layers' = layers /\ layers \subseteq Layers
  BY <1>0, <1>3, <1>f, LayerFacts DEF FirstLayer, TypeOK
<1>10. OneActive'
  BY <1>3, <1>7 DEF OneActive
<1>11. FutureUntouched'
  BY <1>0, <1>2, <1>7, <1>8 DEF AgentInv, FutureUntouched
<1>12. Layered'
  <2>1. "hook" \in Layers /\ "elicit" \in Layers
    BY DEF Layers
  <2>2. f = IF "hook" \in layers THEN "hook" ELSE "elicit"
    BY <1>f DEF FirstLayer
  <2> SUFFICES ASSUME NEW a \in Attempts
               PROVE  /\ "elicit" \notin layers => phase'[<<a, "elicit">>] = "none"
                      /\ "hook" \in layers /\ phase'[<<a, "elicit">>] # "none" =>
                           phase'[<<a, "hook">>] = "allow"
    BY <1>9 DEF Layered
  <2>3. CASE a = n
    <3>1. f # "elicit" => phase'[<<a, "elicit">>] = "none"
      BY <1>4, <1>8, <2>1, <2>3
    <3>2. f = "elicit" => "elicit" \in layers /\ "hook" \notin layers
      BY <1>f, <2>2
    <3> QED
      BY <2>2, <3>1, <3>2
  <2>4. CASE a # n
    <3>1. phase'[<<a, "elicit">>] = phase[<<a, "elicit">>] /\ phase'[<<a, "hook">>] = phase[<<a, "hook">>]
      BY <1>8, <2>1, <2>4
    <3> QED
      BY <1>0, <3>1 DEF AgentInv, Layered
  <2> QED
    BY <2>3, <2>4
<1>13. \A a \in Attempts : stage'[a] \in Passed => a # n /\ stage[a] \in Passed
  BY <1>7 DEF Passed
<1>14. Passing'
  BY <1>0, <1>8, <1>9, <1>13 DEF AgentInv, Passing
<1>15. OwnConsent'
  <2> SUFFICES ASSUME NEW a \in Attempts, NEW b \in Attempts,
                      stage'[a] \in Passed, stage'[b] \in Passed \cup {"gating"},
                      cardOf'[<<a, f>>] = cardOf'[<<b, f>>]
               PROVE  a = b
    BY <1>9 DEF OwnConsent
  <2>1. a # n /\ stage[a] \in Passed
    BY <1>13
  <2>2. <<a, f>> \in Requests /\ phase[<<a, f>>] = "allow" /\ cardOf'[<<a, f>>] = cardOf[<<a, f>>]
    BY <1>0, <1>8, <1>f, <2>1 DEF AgentInv, Passing
  <2>3. cardOf[<<a, f>>] \in Cards /\ cards[cardOf[<<a, f>>]].status = "approved"
    BY <1>0, <2>2 DEF RequestsMatch
  <2>4. CASE b = n
    <3>1. cardOf'[r] = cardOf[<<a, f>>]
      BY <1>r, <2>2, <2>4
    <3> QED
      BY <1>3, <1>6, <2>3, <3>1 DEF Pending
  <2>5. CASE b # n
    <3>1. cardOf'[<<b, f>>] = cardOf[<<b, f>>] /\ stage'[b] = stage[b]
      BY <1>7, <1>8, <2>5
    <3> QED
      BY <1>0, <1>f, <2>1, <2>2, <3>1 DEF AgentInv, OwnConsent
  <2> QED
    BY <2>4, <2>5
<1>16. AgentInv'
  BY <1>10, <1>11, <1>12, <1>14, <1>15 DEF AgentInv
<1>17. ResultsInv'
  <2>1. \A a \in Attempts : stage'[a] = "reported" <=> stage[a] = "reported"
    BY <1>4, <1>7
  <2> QED
    BY <1>0, <1>3, <1>6, <2>1, ResultsStay
<1> QED
  BY <1>0, <1>2, <1>3, <1>6, <1>7, <1>16, <1>17, Together DEF TypeOK

(* The answer reaches the agent: the call ends, its second layer asks, or it may
   go on, on the consent of all its layers. *)
LEMMA AgentSeesStep == ASSUME IInv, NEW a \in Attempts, AgentSees(a) PROVE IInv' /\ RowsKept
<1>0. /\ TypeOK /\ GateInv /\ AgentInv /\ ResultsInv /\ RequestsMatch
      /\ NoStrandedCaller /\ AbandonedCardsClose /\ RowsPlain
      /\ stage \in [Attempts -> Stage]
  BY DEF IInv, GateInv, TypeOK
<1>1. stage[a] = "gating" /\ UNCHANGED <<layers, mode, attempts, order>>
  BY DEF AgentSees
<1>f. PICK f \in Layers : f = FirstLayer /\ f \in layers
  BY <1>0, LayerFacts DEF TypeOK
<1>2. FirstLayer' = f /\ layers \subseteq Layers /\ "hook" \in Layers /\ "elicit" \in Layers
      /\ f = IF "hook" \in layers THEN "hook" ELSE "elicit"
  BY <1>0, <1>1, <1>f, LayerFacts DEF FirstLayer, TypeOK, Layers
<1>c. Current(a) = IF "elicit" \in layers /\ phase[<<a, "elicit">>] # "none"
                   THEN <<a, "elicit">> ELSE <<a, f>>
  BY <1>f DEF Current
<1>3. CASE /\ phase[Current(a)] = "deny" /\ stage' = [stage EXCEPT ![a] = "ended"]
           /\ UNCHANGED requestVars /\ UNCHANGED cards
  <2>1. stage' \in [Attempts -> Stage] /\ \A b \in Attempts : stage'[b] = IF b = a THEN "ended" ELSE stage[b]
    BY <1>0, <1>3 DEF Stage
  <2>2. \A b \in Attempts : /\ stage'[b] \in Active => stage[b] \in Active
                            /\ stage'[b] \in Passed => stage[b] \in Passed
                            /\ stage'[b] = "gating" => stage[b] = "gating"
                            /\ stage[b] = "none" => stage'[b] = "none"
                            /\ stage'[b] = "reported" <=> stage[b] = "reported"
    BY <1>1, <2>1 DEF Active, Passed
  <2>3. /\ GateTypes' /\ NoStrandedCaller' /\ AbandonedCardsClose' /\ RequestsMatch' /\ RowsPlain'
        /\ RowsKept /\ ResultsKept
    BY <1>0, <1>1, <1>3, GateRests DEF requestVars
  <2>4. AgentInv' /\ ResultsInv'
    BY <1>0, <1>1, <1>3, <2>2, <2>3, AgentKept, ResultsStay DEF requestVars
  <2> QED
    BY <1>0, <1>1, <1>3, <2>1, <2>3, <2>4, Together DEF TypeOK, requestVars
<1>4. CASE /\ phase[Current(a)] = "allow" /\ Current(a)[2] = "hook" /\ "elicit" \in layers
           /\ Ask(<<a, "elicit">>) /\ UNCHANGED <<stage, aborted>>
  <2>r. PICK r \in Requests : r = <<a, "elicit">>
    BY <1>2, RequestFacts
  <2>1. f = "hook" /\ phase[r] = "none" /\ phase[<<a, "hook">>] = "allow" /\ Ask(r)
    BY <1>4, <1>c, <2>r
  <2>2. /\ GateTypes' /\ NoStrandedCaller' /\ AbandonedCardsClose' /\ RequestsMatch' /\ RowsPlain'
        /\ RowsKept /\ ResultsKept /\ OthersKept(r) /\ snapshot' \in [Requests -> Mode]
    <3> HIDE DEF Ask
    <3> QED
      BY <1>0, <1>1, <1>4, <2>1, AskStep
  <2>3. \A b \in Attempts :
          /\ phase'[<<b, "hook">>] = phase[<<b, "hook">>] /\ cardOf'[<<b, "hook">>] = cardOf[<<b, "hook">>]
          /\ b # a => phase'[<<b, "elicit">>] = phase[<<b, "elicit">>]
    BY <1>2, <2>2, <2>r, RequestFacts DEF OthersKept
  <2>4. \A l \in Layers : l = "hook" \/ l = "elicit"
    BY DEF Layers
  <2>5. ~(a > attempts)
    BY <1>0, <1>1 DEF AgentInv, FutureUntouched
  <2>6. FutureUntouched'
    <3> SUFFICES ASSUME NEW b \in Attempts, b > attempts
                 PROVE  stage[b] = "none" /\ \A l \in Layers : phase'[<<b, l>>] = "none"
      BY <1>1, <1>4 DEF FutureUntouched
    <3>1. b # a /\ stage[b] = "none" /\ \A l \in Layers : phase[<<b, l>>] = "none"
      BY <1>0, <2>5 DEF AgentInv, FutureUntouched
    <3>2. phase'[<<b, "hook">>] = "none" /\ phase'[<<b, "elicit">>] = "none"
      BY <1>2, <2>3, <3>1
    <3> QED
      BY <2>4, <3>1, <3>2
  <2>7. Layered'
    BY <1>0, <1>1, <1>4, <2>1, <2>3 DEF AgentInv, Layered
  <2>8. Passing'
    <3>1. \A b \in Attempts : stage[b] \in Passed => b # a
      BY <1>1 DEF Passed
    <3> QED
      BY <1>0, <1>1, <1>2, <1>4, <2>3, <2>4, <3>1 DEF AgentInv, Passing
  <2>9. OwnConsent' /\ OneActive'
    <3>1. OneActive'
      BY <1>0, <1>4 DEF AgentInv, OneActive
    <3>2. FirstLayer' = "hook" /\ FirstLayer = "hook"
      BY <1>2, <1>f, <2>1
    <3>3. OwnConsent'
      BY <1>0, <1>4, <2>3, <3>2 DEF AgentInv, OwnConsent
    <3> QED
      BY <3>1, <3>3
  <2>10. AgentInv' /\ ResultsInv'
    BY <1>0, <1>1, <1>4, <2>2, <2>6, <2>7, <2>8, <2>9, ResultsStay DEF AgentInv
  <2> QED
    BY <1>0, <1>1, <1>4, <2>2, <2>10, Together DEF TypeOK
<1>5. CASE /\ phase[Current(a)] = "allow" /\ (Current(a)[2] = "elicit" \/ "elicit" \notin layers)
           /\ stage' = [stage EXCEPT ![a] = "allowed"] /\ UNCHANGED requestVars /\ UNCHANGED cards
  <2>1. stage' \in [Attempts -> Stage] /\ \A b \in Attempts : stage'[b] = IF b = a THEN "allowed" ELSE stage[b]
    BY <1>0, <1>5 DEF Stage
  <2>2. phase' = phase /\ cardOf' = cardOf /\ aborted' = aborted /\ snapshot' = snapshot /\ cards' = cards
    BY <1>5 DEF requestVars
  <2>3. /\ GateTypes' /\ NoStrandedCaller' /\ AbandonedCardsClose' /\ RequestsMatch' /\ RowsPlain'
        /\ RowsKept /\ ResultsKept
    BY <1>0, <1>1, <2>2, GateRests
  <2>4. \A l \in layers : phase[<<a, l>>] = "allow"
    <3>1. \A l \in layers : l = "hook" \/ l = "elicit"
      BY <1>2 DEF Layers
    <3>2. CASE Current(a)[2] = "elicit"
      <4>1. Current(a) = <<a, "elicit">>
        BY <1>c, <3>2
      <4>2. phase[<<a, "elicit">>] = "allow"
        BY <1>5, <4>1
      <4>3. "hook" \in layers => phase[<<a, "hook">>] = "allow"
        BY <1>0, <4>2 DEF AgentInv, Layered
      <4> QED
        BY <3>1, <4>2, <4>3
    <3>3. CASE "elicit" \notin layers
      <4>1. Current(a) = <<a, "hook">>
        BY <1>c, <1>f, <1>2, <3>3
      <4> QED
        BY <1>5, <3>1, <3>3, <4>1
    <3> QED
      BY <1>5, <3>2, <3>3
  <2>5. \A b \in Attempts : /\ stage'[b] \in Passed => b = a \/ stage[b] \in Passed
                            /\ stage'[b] \in Active => stage[b] \in Active
                            /\ stage'[b] = "gating" => b # a /\ stage[b] = "gating"
                            /\ stage[b] = "none" => stage'[b] = "none"
                            /\ stage'[b] = "reported" <=> stage[b] = "reported"
    BY <1>1, <2>1 DEF Passed, Active
  <2>6. OneActive' /\ FutureUntouched' /\ Layered'
    BY <1>0, <1>1, <2>2, <2>5 DEF AgentInv, OneActive, FutureUntouched, Layered
  <2>7. Passing'
    BY <1>0, <1>1, <2>2, <2>4, <2>5 DEF AgentInv, Passing
  <2>8. OwnConsent'
    <3> SUFFICES ASSUME NEW b \in Attempts, NEW d \in Attempts,
                        stage'[b] \in Passed, stage'[d] \in Passed \cup {"gating"},
                        cardOf[<<b, f>>] = cardOf[<<d, f>>]
                 PROVE  b = d
      BY <1>2, <2>2 DEF OwnConsent
    <3>1. CASE b = a
      <4>1. CASE stage'[d] = "gating"
        BY <1>0, <1>1, <2>5, <3>1, <4>1 DEF AgentInv, OneActive, Active
      <4>2. CASE stage'[d] \in Passed
        BY <1>0, <1>1, <1>f, <2>5, <3>1, <4>2 DEF AgentInv, OwnConsent
      <4> QED
        BY <4>1, <4>2
    <3>2. CASE b # a
      <4>1. stage[b] \in Passed /\ stage[d] \in Passed \cup {"gating"}
        BY <1>1, <2>1, <3>2
      <4> QED
        BY <1>0, <1>f, <4>1 DEF AgentInv, OwnConsent
    <3> QED
      BY <3>1, <3>2
  <2>9. AgentInv' /\ ResultsInv'
    BY <1>0, <1>1, <2>3, <2>5, <2>6, <2>7, <2>8, ResultsStay DEF AgentInv
  <2> QED
    BY <1>0, <1>1, <2>1, <2>2, <2>3, <2>9, Together DEF TypeOK
<1> QED
  BY <1>3, <1>4, <1>5 DEF AgentSees

(* The host dies and boots: cards nobody will answer are closed, callers cut off
   are denied, and what was decided stays. *)
LEMMA HostRestartStep == ASSUME IInv, HostRestart PROVE IInv' /\ RowsKept
<1>0. /\ TypeOK /\ GateInv /\ AgentInv /\ ResultsInv /\ RequestsMatch
      /\ NoStrandedCaller /\ AbandonedCardsClose /\ RowsPlain
      /\ stage \in [Attempts -> Stage] /\ phase \in [Requests -> Phase]
      /\ cards \in Seq(Card)
  BY DEF IInv, GateInv, TypeOK
<1>1. /\ cards' = [c \in Cards |-> Orphaned(cards[c])]
      /\ stage' \in {stage, AfterDeath}
      /\ snapshot' = [r \in Requests |-> "approve"]
      /\ UNCHANGED <<layers, mode, attempts, order, cardOf, aborted>>
  BY DEF HostRestart
<1>2. PICK lost \in SUBSET {r \in Requests : phase[r] = "allow" /\ OnItsWay(r)} :
        phase' = [r \in Requests |->
          IF phase[r] \in {"resolving"} \cup Parked \/ r \in lost THEN "deny" ELSE phase[r]]
  BY DEF HostRestart
<1>3. \A r \in Requests : phase'[r] = IF phase[r] \in {"resolving"} \cup Parked \/ r \in lost
                                      THEN "deny" ELSE phase[r]
  BY <1>2
<1>4. Len(cards) \in Nat /\ Cards = 1 .. Len(cards) /\ \A c \in Cards : cards[c] \in Card
  BY <1>0, CardsFacts
<1>5. \A c \in Cards :
        /\ cards'[c] \in Card /\ cards'[c].input = cards[c].input
        /\ cards'[c].outcome = cards[c].outcome /\ cards'[c].status # "pending"
        /\ ~Pending(c) => cards'[c] = cards[c]
        /\ Pending(c) => ~cards'[c].armed /\ cards'[c].waiter = NoRequest
  <2> SUFFICES ASSUME NEW c \in Cards
               PROVE  /\ cards'[c] \in Card /\ cards'[c].input = cards[c].input
                      /\ cards'[c].outcome = cards[c].outcome /\ cards'[c].status # "pending"
                      /\ ~Pending(c) => cards'[c] = cards[c]
                      /\ Pending(c) => ~cards'[c].armed /\ cards'[c].waiter = NoRequest
    OBVIOUS
  <2>1. cards'[c] = Orphaned(cards[c]) /\ cards[c] \in Card
    BY <1>1, <1>4
  <2>2. CASE Pending(c)
    <3>1. cards'[c] = Woken(Finalized(cards[c], "expired", "timeout"))
      BY <2>1, <2>2 DEF Orphaned, Pending
    <3> QED
      BY <2>1, <2>2, <3>1 DEF Woken, Finalized, Card, Status, DecidedBy
  <2>3. CASE ~Pending(c)
    BY <2>1, <2>3 DEF Orphaned, Pending
  <2> QED
    BY <2>2, <2>3
<1>6. cards' \in Seq(Card) /\ Len(cards') = Len(cards) /\ Cards' = Cards
  <2>1. DOMAIN cards' = 1 .. Len(cards)
    BY <1>1, <1>4
  <2>2. cards' = [c \in 1 .. Len(cards) |-> cards'[c]] /\ \A c \in 1 .. Len(cards) : cards'[c] \in Card
    BY <1>1, <1>4, <1>5
  <2>3. cards' \in Seq(Card)
    BY <1>4, <2>2, IsASeq
  <2> QED
    BY <1>4, <2>1, <2>3 DEF Cards
<1>7. GateTypes'
  <2>1. phase' \in [Requests -> Phase]
    BY <1>0, <1>2 DEF Phase
  <2> QED
    BY <1>0, <1>1, <1>6, <2>1 DEF GateTypes, TypeOK
<1>8. \A r \in Requests : phase'[r] \notin Parked
  BY <1>3 DEF Parked
<1>9. NoStrandedCaller'
  <2>1. \A c \in Cards' : Settled(cards'[c], WaitingOn(c)')
    BY <1>0, <1>5, <1>6, Settling DEF Settled, Pending
  <2> QED
    BY <1>8, <2>1, Settling
<1>10. AbandonedCardsClose' /\ RowsPlain'
  BY <1>0, <1>5, <1>6 DEF AbandonedCardsClose, RowsPlain, Pending
<1>11. RequestsMatch'
  <2> SUFFICES ASSUME NEW r \in Requests
               PROVE  /\ phase'[r] \in Parked \cup {"allow"} =>
                           /\ cardOf[r] \in Cards
                           /\ cards'[cardOf[r]].input[1] = order[r[1]]
                           /\ phase'[r] = "allow" => cards'[cardOf[r]].status = "approved"
                      /\ phase'[r] \in {"none", "resolving"} => cardOf[r] = NoCard
    BY <1>1, <1>6 DEF RequestsMatch
  <2>1. phase'[r] # "deny" => phase'[r] = phase[r]
    BY <1>3
  <2>2. phase'[r] = "allow" => cardOf[r] \in Cards /\ ~Pending(cardOf[r])
    BY <1>0, <2>1 DEF RequestsMatch, Pending
  <2> QED
    BY <1>0, <1>5, <1>8, <2>1, <2>2 DEF RequestsMatch, Parked
<1>12. RowsKept /\ ResultsKept
  BY <1>4, <1>5, <1>6 DEF RowsKept, ResultsKept
<1>13. /\ stage' \in [Attempts -> Stage]
       /\ \A b \in Attempts : /\ stage'[b] \in Active => stage[b] \in Active
                              /\ stage'[b] \in Passed => stage[b] \in Passed
                              /\ stage'[b] = "gating" => stage[b] = "gating"
                              /\ stage[b] = "none" => stage'[b] = "none"
                              /\ stage'[b] = "reported" <=> stage[b] = "reported"
  <2>1. CASE stage' = stage
    BY <1>0, <2>1
  <2>2. CASE stage' = AfterDeath
    BY <1>0, <2>2 DEF AfterDeath, Active, Passed, Stage
  <2> QED
    BY <1>1, <2>1, <2>2
<1>14. /\ FirstLayer' = FirstLayer /\ FirstLayer \in layers /\ layers \subseteq Layers
       /\ \A b \in Attempts, l \in Layers : <<b, l>> \in Requests
       /\ "hook" \in Layers /\ "elicit" \in Layers
  BY <1>0, <1>1, LayerFacts, RequestFacts DEF FirstLayer, TypeOK, Layers
<1>15. \A r \in Requests : phase'[r] = "none" <=> phase[r] = "none"
  <2>1. \A r \in lost : phase[r] = "allow"
    OBVIOUS
  <2> QED
    BY <1>3, <2>1 DEF Parked
<1>16. Layered'
  <2> SUFFICES ASSUME NEW b \in Attempts
               PROVE  /\ "elicit" \notin layers => phase'[<<b, "elicit">>] = "none"
                      /\ "hook" \in layers /\ phase'[<<b, "elicit">>] # "none" =>
                           phase'[<<b, "hook">>] = "allow"
    BY <1>1 DEF Layered
  <2>1. <<b, "elicit">> \in Requests /\ <<b, "hook">> \in Requests
    BY <1>14
  <2>2. ASSUME "hook" \in layers, phase'[<<b, "elicit">>] # "none"
        PROVE  phase'[<<b, "hook">>] = "allow"
    <3>1. "elicit" \in layers /\ phase[<<b, "elicit">>] # "none" /\ phase[<<b, "hook">>] = "allow"
      BY <1>0, <1>15, <2>1, <2>2 DEF AgentInv, Layered
    <3>2. <<b, "hook">> \notin lost
      BY <3>1 DEF OnItsWay, Current
    <3> QED
      BY <1>3, <2>1, <3>1, <3>2 DEF Parked
  <2>3. "elicit" \notin layers => phase'[<<b, "elicit">>] = "none"
    BY <1>0, <1>15, <2>1 DEF AgentInv, Layered
  <2> QED
    BY <2>2, <2>3
<1>17. Passing'
  <2> SUFFICES ASSUME NEW b \in Attempts, stage'[b] \in Passed, NEW l \in layers
               PROVE  phase'[<<b, l>>] = "allow"
    BY <1>1 DEF Passing
  <2>1. stage[b] \in Passed /\ stage[b] # "gating" /\ phase[<<b, l>>] = "allow" /\ <<b, l>> \in Requests
    BY <1>0, <1>13, <1>14 DEF AgentInv, Passing, Passed
  <2>2. <<b, l>> \notin lost
    BY <2>1 DEF OnItsWay
  <2> QED
    BY <1>3, <2>1, <2>2 DEF Parked
<1>18. OneActive' /\ FutureUntouched' /\ OwnConsent'
  BY <1>0, <1>1, <1>13, <1>14, <1>15 DEF AgentInv, OneActive, FutureUntouched, OwnConsent
<1>19. AgentInv' /\ ResultsInv'
  BY <1>0, <1>1, <1>12, <1>13, <1>16, <1>17, <1>18, ResultsStay DEF AgentInv
<1>20. snapshot' \in [Requests -> Mode]
  BY <1>1 DEF Mode
<1> QED
  BY <1>0, <1>1, <1>7, <1>9, <1>10, <1>11, <1>12, <1>13, <1>19, <1>20, Together DEF TypeOK

-----------------------------------------------------------------------------
(* The gate starts with an empty table and nobody asking. *)
LEMMA IInit == Init => IInv
<1> SUFFICES ASSUME Init PROVE IInv
  OBVIOUS
<1>1. Cards = {} /\ cards = <<>> /\ cards \in Seq(Card)
  BY DEF Init, Cards
<1>2. TypeOK
  BY <1>1, MaxAttemptsAssumption DEF Init, TypeOK, Stage, Phase, Mode
<1>3. /\ \A r \in Requests : phase[r] = "none" /\ cardOf[r] = NoCard
      /\ \A a \in Attempts : stage[a] = "none"
      /\ \A a \in Attempts, l \in Layers : <<a, l>> \in Requests
      /\ \A l \in layers : l \in Layers
  BY <1>2, RequestFacts, LayerFacts DEF Init, TypeOK
<1>4. GateInv
  BY <1>1, <1>2, <1>3 DEF GateInv, NoStrandedCaller, AbandonedCardsClose, RequestsMatch, RowsPlain, Parked
<1>5. AgentInv
  <2>1. "elicit" \in Layers
    BY DEF Layers
  <2> QED
    BY <1>3, <2>1 DEF AgentInv, OneActive, FutureUntouched, Layered, Passing, OwnConsent, Active, Passed
<1>6. ResultsInv
  BY <1>1, <1>3 DEF ResultsInv, OutcomesReported, EachResultRecordedOnce
<1> QED
  BY <1>4, <1>5, <1>6 DEF IInv

LEMMA StutterStep == ASSUME IInv, UNCHANGED vars PROVE IInv' /\ RowsKept
<1>0. TypeOK /\ GateInv /\ AgentInv /\ ResultsInv /\ RequestsMatch
  BY DEF IInv, GateInv
<1>1. UNCHANGED <<mode, agentVars, requestVars, cards>>
  BY DEF vars
<1>2. /\ GateTypes' /\ NoStrandedCaller' /\ AbandonedCardsClose' /\ RequestsMatch' /\ RowsPlain'
      /\ RowsKept /\ ResultsKept
  BY <1>0, <1>1, GateRests DEF requestVars, agentVars
<1>3. AgentInv' /\ ResultsInv'
  BY <1>0, <1>1, <1>2, AgentKept, ResultsStay DEF requestVars, agentVars
<1> QED
  BY <1>0, <1>1, <1>2, <1>3, Together DEF TypeOK, requestVars, agentVars

LEMMA IStep == IInv /\ [Next]_vars => IInv' /\ RowsKept
<1> SUFFICES ASSUME IInv, [Next]_vars PROVE IInv' /\ RowsKept
  OBVIOUS
<1>1. CASE StartOrder
  BY <1>1, StartOrderStep
<1>2. CASE \E r \in Requests : Resolved(r)
  BY <1>2, ResolvedStep
<1>3. CASE \E a \in Attempts : AgentSees(a)
  BY <1>3, AgentSeesStep
<1>4. CASE (\E a \in Attempts : Place(a) \/ ResultLost(a) \/ HookGivesUp(a)) \/ SessionDies
  BY <1>4, StageStep
<1>5. CASE \E a \in Attempts, d \in BOOLEAN : ReportOutcome(a, d)
  BY <1>5, ReportStep
<1>6. CASE \E c \in Cards, approve \in BOOLEAN : Decide(c, approve)
  BY <1>6, DecideStep
<1>7. CASE \E c \in Cards : TimeoutFires(c)
  BY <1>7, TimeoutStep
<1>8. CASE \E r \in Requests : Disconnect(r)
  BY <1>8, DisconnectStep
<1>9. CASE \E c \in Cards : WindowCloses(c)
  BY <1>9, WindowStep
<1>10. CASE SetMode
  BY <1>10, SetModeStep
<1>11. CASE HostRestart
  BY <1>11, HostRestartStep
<1>12. CASE UNCHANGED vars
  BY <1>12, StutterStep
<1> QED
  BY <1>1, <1>2, <1>3, <1>4, <1>5, <1>6, <1>7, <1>8, <1>9, <1>10, <1>11, <1>12 DEF Next

-----------------------------------------------------------------------------
(* Theorems                                                                  *)

(* The invariant the others rest on: it holds at boot and every step keeps it. *)
THEOREM Inductive == Spec => []IInv
<1> QED
  BY IInit, IStep, PTL DEF Spec

(* Nobody is left behind: every parked caller waits on a card that is pending,
   every pending card has its one waiter and an armed timeout, and a card whose
   caller has gone is closed (request, decide, abandon, expireOrphansOnBoot). *)
THEOREM CallersServed == Spec => []CallersAnswered
<1>1. IInv => CallersAnswered
  BY DEF IInv, GateInv, CallersAnswered
<1> QED
  BY <1>1, Inductive, PTL

(* No order reaches the broker without an approved card about that very order for
   each layer, and no two orders pass on one decision. *)
THEOREM OrdersConsented == Spec => []EveryOrderConsented
<1>1. IInv => EveryOrderConsented
  <2> SUFFICES ASSUME IInv PROVE EveryOrderConsented
    OBVIOUS
  <2>0. /\ Passing /\ OwnConsent /\ RequestsMatch /\ layers \subseteq Layers /\ NoCard \notin Cards
    BY LayerFacts, CardsFacts DEF IInv, AgentInv, GateInv, TypeOK, NoCard
  <2>1. ASSUME NEW a \in Attempts, stage[a] \in Passed, NEW l \in layers
        PROVE  /\ phase[<<a, l>>] = "allow" /\ cardOf[<<a, l>>] # NoCard
               /\ cards[cardOf[<<a, l>>]].status = "approved"
               /\ cards[cardOf[<<a, l>>]].input[1] = order[a]
    <3>1. PICK r \in Requests : r = <<a, l>> /\ r[1] = a
      BY <2>0, RequestFacts
    <3>2. phase[r] = "allow"
      BY <2>0, <2>1, <3>1 DEF Passing
    <3> QED
      BY <2>0, <3>1, <3>2 DEF RequestsMatch
  <2>2. \A a, b \in Attempts :
          stage[a] \in Passed /\ stage[b] \in Passed =>
            (cardOf[<<a, FirstLayer>>] = cardOf[<<b, FirstLayer>>] => a = b)
    <3> SUFFICES ASSUME NEW a \in Attempts, NEW b \in Attempts, stage[a] \in Passed,
                        stage[b] \in Passed, cardOf[<<a, FirstLayer>>] = cardOf[<<b, FirstLayer>>]
                 PROVE  a = b
      OBVIOUS
    <3>1. stage[b] \in Passed \cup {"gating"}
      OBVIOUS
    <3> QED
      BY <2>0, <3>1 DEF OwnConsent
  <2> QED
    BY <2>1, <2>2 DEF EveryOrderConsented
<1> QED
  BY <1>1, Inductive, PTL

(* A reported result is on exactly one approved row, of its own order unless texts
   drift: however many results were lost before it, there is a row left to take it,
   for every call that passed has a card of its own (recordOutcome). *)
THEOREM ResultsRecorded == Spec => []EachResultRecordedOnce
<1>1. IInv => EachResultRecordedOnce
  BY DEF IInv, ResultsInv
<1> QED
  BY <1>1, Inductive, PTL

(* A decision is final: no timer, late disconnect, second click or restart changes
   what the caller was told. *)
THEOREM DecisionsStand == Spec => DecisionsFinal
<1>1. IInv /\ [Next]_vars =>
        [\A c \in Cards : ~Pending(c) => /\ cards'[c].status = cards[c].status
                                         /\ cards'[c].by = cards[c].by]_vars
  BY IStep DEF RowsKept
<1> QED
  BY <1>1, Inductive, PTL DEF Spec, DecisionsFinal

-----------------------------------------------------------------------------
(***************************************************************************)
(* The order's trail.                                                      *)
(***************************************************************************)
(* The rank of an approval: when its card was raised. *)
Rank(a) == CHOOSE i \in DOMAIN Approvals : Approvals[i] = a

Statuses == {"none", "pending", "approved", "rejected", "expired"}
Deeds == {"unsent", "accepted", "refused"}
EntryKinds == {"order_intent", "approval_decision", "order_observed"}
OrderStates == Live \cup {"filled", "cancelled", "rejected", "expired"}

KindNo(kind) == IF kind = "order_intent" THEN 1 ELSE IF kind = "approval_decision" THEN 2 ELSE 3

(* Entry e of the audit log is told before entry f. *)
Precedes(e, f) ==
  \/ Rank(e.approvalId) < Rank(f.approvalId)
  \/ e.approvalId = f.approvalId /\ KindNo(e.kind) < KindNo(f.kind)

Noted(kind, a) == \E i \in DOMAIN audit : audit[i].kind = kind /\ audit[i].approvalId = a

(* Nothing more will happen to the call of a, nor be written of it. *)
Finished(a) ==
  /\ status[a] \notin {"none", "pending"}
  /\ status[a] = "approved" => did[a] # "unsent" /\ reply[a] = None

(* The reply to the call of a, as the broker did it. *)
FairReply(a, r) ==
  LET act == call[a].means.act
  IN  /\ act = "cancel" => r = CancelReply(did[a] = "accepted", call[a].means.target)
      /\ act # "cancel" /\ did[a] = "refused" => r = Refusal
      /\ act = "exercise" /\ did[a] = "accepted" =>
           r = [isError |-> FALSE, top |-> [state |-> "queued"], uuids |-> <<>>, worded |-> FALSE]
      /\ act = "place" /\ did[a] = "accepted" => r \in Accepted(OrderOf[a])

(* What an outcome that was recorded for a says. *)
FairOutcome(a, o) ==
  LET act == call[a].means.act
  IN  /\ o.orderId \in {None, "ref", OrderOf[a]}
      /\ o.orderId # None => act = "place" /\ did[a] = "accepted" /\ o.ok = TRUE
      /\ did[a] = "refused" => o.ok = FALSE
      /\ did[a] = "accepted" /\ act = "place" => o.ok \in {TRUE, None}
      /\ did[a] = "accepted" /\ act # "place" => o.ok = TRUE

TrailTypes ==
  /\ status \in [A -> Statuses]
  /\ did \in [A -> Deeds]
  /\ DOMAIN call = A /\ DOMAIN card = A /\ DOMAIN reply = A /\ DOMAIN outcome = A
  /\ audit \in Seq([kind : EntryKinds, approvalId : A])
  /\ \A id \in DOMAIN orders : DOMAIN orders[id] = {"means", "state", "done", "by"}

(* A card, its call, what became of it and what was written of it. *)
Booked(a) ==
  /\ status[a] # "none" =>
       /\ call[a] \in Calls[a] /\ call[a].tool \in MONEY_MOVERS
       /\ card[a].kind = call[a].means.act
       /\ call[a].means.act = "cancel" => card[a].cancelsOrderId = call[a].means.target
  /\ did[a] # "unsent" => status[a] = "approved"
  /\ reply[a] # None => did[a] # "unsent" /\ FairReply(a, reply[a])
  /\ Noted("order_intent", a) <=> status[a] # "none"
  /\ Noted("approval_decision", a) <=> status[a] \notin {"none", "pending"}
  /\ Noted("order_observed", a) =>
       did[a] # "unsent" /\ reply[a] = None /\ FairOutcome(a, outcome[a])
  /\ ~Noted("order_observed", a) => outcome[a] = None

(* The order of a is the broker's once its call was accepted. *)
Owned(a) ==
  /\ Placed(a) <=> did[a] = "accepted" /\ call[a].means.act = "place"
  /\ Placed(a) => orders[OrderOf[a]].by = a /\ orders[OrderOf[a]].state \in OrderStates

(* Every order of the broker is the app's or a card's. *)
NoStrays == \A id \in DOMAIN orders : id \in DOMAIN AppOrders \/ \E a \in A : id = OrderOf[a]

(* The ledger is behind the broker, and right about orders that ended. *)
LedgerFollows ==
  ledger # None =>
    /\ DOMAIN ledger \subseteq DOMAIN orders
    /\ \A a \in A : OrderOf[a] \in DOMAIN ledger =>
         \/ ledger[OrderOf[a]].state \in Live
         \/ ledger[OrderOf[a]].state = orders[OrderOf[a]].state

AuditOrdered == \A i, j \in DOMAIN audit : i < j => Precedes(audit[i], audit[j])

OneAtATime == \A x, y \in A : Rank(x) < Rank(y) /\ status[y] # "none" => Finished(x)

TrailInv ==
  /\ TrailTypes
  /\ \A a \in A : Booked(a) /\ Owned(a)
  /\ NoStrays /\ LedgerFollows /\ AuditOrdered /\ OneAtATime

-----------------------------------------------------------------------------
LEMMA Ranks ==
  /\ \A a \in A : Rank(a) \in DOMAIN Approvals /\ Rank(a) \in Nat /\ Approvals[Rank(a)] = a
  /\ \A i \in DOMAIN Approvals : i \in Nat /\ Approvals[i] \in A /\ Rank(Approvals[i]) = i
  /\ DOMAIN Approvals = 1 .. Len(Approvals) /\ Len(Approvals) \in Nat
<1>1. DOMAIN Approvals = 1 .. Len(Approvals) /\ Len(Approvals) \in Nat
  BY ApprovalsAssumption
<1>2. \A a \in A : \E i \in DOMAIN Approvals : Approvals[i] = a
  BY DEF A, Range
<1>3. \A i, j \in DOMAIN Approvals : Approvals[i] = Approvals[j] => i = j
  BY ApprovalsAssumption DEF IsInjective
<1>4. \A i \in DOMAIN Approvals : Approvals[i] \in A
  BY DEF A, Range
<1> QED
  BY <1>1, <1>2, <1>3, <1>4 DEF Rank

LEMMA RanksApart == ASSUME NEW x \in A, NEW y \in A, x # y PROVE Rank(x) < Rank(y) \/ Rank(y) < Rank(x)
<1>1. Approvals[Rank(x)] = x /\ Approvals[Rank(y)] = y /\ Rank(x) \in Nat /\ Rank(y) \in Nat
  BY Ranks
<1> QED
  BY <1>1

LEMMA NoneApart ==
  /\ None # TRUE /\ None # FALSE /\ None # "ref" /\ None # "queued"
  /\ None # "place" /\ None # "cancel" /\ None # "exercise"
  /\ None \notin RejectedStates /\ None \notin AcceptedStates
<1>1. None # TRUE /\ None # FALSE
  BY NoneAssumption
<1>2. None # "ref" /\ None # "queued" /\ None # "place" /\ None # "cancel" /\ None # "exercise"
  BY NoneAssumption DEF Words, AcceptedStates
<1>3. None \notin RejectedStates /\ None \notin AcceptedStates
  BY NoneAssumption DEF Words
<1> QED
  BY <1>1, <1>2, <1>3

LEMMA AnswerIsNoNone == ASSUME NEW yes \in BOOLEAN PROVE [accepted |-> yes] # None /\ yes # None
<1>1. [accepted |-> yes] \in [accepted : BOOLEAN]
  OBVIOUS
<1> QED
  BY <1>1, NoneAssumption

(* What is read off a broker's reply. *)
LEMMA PickNone == ASSUME NEW o, NEW keys, \A i \in DOMAIN keys : keys[i] \notin DOMAIN o
                  PROVE  pick(o, keys) = None
BY DEF pick

LEMMA OutcomeFair ==
  ASSUME NEW a \in A, NEW r, did[a] \in Deeds, did[a] # "unsent", FairReply(a, r),
         call[a].means.act = ActOf(call[a].tool)
  PROVE  FairOutcome(a, parseOrderResult(r, call[a].tool))
<1> DEFINE tool == call[a].tool
           o == parseOrderResult(r, tool)
<1>1. None # TRUE /\ None # FALSE /\ None # "ref" /\ None # OrderOf[a] /\ OrderOf[a] # "ref"
  BY NoneApart, OrderIdsAssumption
<1>2. CASE call[a].means.act = "cancel"
  <2>1. tool \in CancelTools
    BY <1>2 DEF ActOf
  <2> DEFINE yes == (did[a] = "accepted")
  <2>2. r = CancelReply(yes, call[a].means.target) /\ yes \in BOOLEAN
    BY <1>2 DEF FairReply
  <2>3. pick(r.top, <<"data">>) = [accepted |-> yes]
    <3>1. r.top = [data |-> [accepted |-> yes]]
      BY <2>2 DEF CancelReply
    <3>2. [accepted |-> yes] # None
      BY <2>2, AnswerIsNoNone
    <3> HIDE DEF yes
    <3> QED
      BY <3>1, <3>2 DEF pick, Min
  <2>4. pick([accepted |-> yes], <<"accepted">>) = yes
    <3>1. yes # None
      BY <2>2, <1>1
    <3> HIDE DEF yes
    <3> QED
      BY <3>1 DEF pick, Min
  <2>5. ~r.isError
    BY <2>2 DEF CancelReply
  <2>6. [accepted |-> yes] # None
    BY <2>2, AnswerIsNoNone
  <2>7. o.ok = yes /\ o.orderId = None
    BY <2>1, <2>3, <2>4, <2>5, <2>6 DEF parseOrderResult, Or
  <2> QED
    BY <2>7, <1>1, <1>2 DEF FairOutcome, Deeds
<1>3. CASE call[a].means.act # "cancel"
  <2>1. tool \notin CancelTools
    BY <1>3 DEF ActOf
  <2> DEFINE ids == <<"order_id", "id", "orderId", "order_number">>
             states == <<"state", "status", "order_state">>
  <2>2. CASE did[a] = "refused"
    <3>1. r.isError = FALSE /\ r.top = <<>> /\ r.uuids = <<>> /\ r.worded = TRUE
      BY <1>3, <2>2 DEF FairReply, Refusal
    <3>2. pick(r.top, ids) = None /\ pick(r.top, states) = None
      BY <3>1 DEF pick
    <3>3. o.ok = FALSE /\ o.orderId = None
      BY <2>1, <3>1, <3>2, NoneApart
         DEF parseOrderResult, Or, findUuid, RejectedStates, AcceptedStates
    <3> QED
      BY <3>3, <2>2, <1>1 DEF FairOutcome
  <2>3. CASE did[a] = "accepted" /\ call[a].means.act = "exercise"
    <3>1. r.isError = FALSE /\ r.top = [state |-> "queued"] /\ r.uuids = <<>> /\ r.worded = FALSE
      BY <1>3, <2>3 DEF FairReply
    <3>2. pick(r.top, ids) = None
      BY <3>1 DEF pick
    <3>3. pick(r.top, states) = "queued"
      BY <3>1, NoneApart DEF pick, Min
    <3>4. o.ok = TRUE /\ o.orderId = None
      BY <2>1, <3>1, <3>2, <3>3, NoneApart
         DEF parseOrderResult, Or, findUuid, RejectedStates, AcceptedStates
    <3> QED
      BY <3>4, <2>3, <1>1 DEF FairOutcome
  <2>4. CASE did[a] = "accepted" /\ call[a].means.act = "place"
    <3> DEFINE id == OrderOf[a]
    <3>1. r \in Accepted(id)
      BY <1>3, <2>4 DEF FairReply
    <3> HIDE DEF id
    <3>2. id # None /\ None \notin RejectedStates /\ None \notin AcceptedStates /\ None # "ref"
      BY NoneApart, <1>1 DEF id
    <3>3. CASE r = [isError |-> FALSE, top |-> [id |-> id, state |-> "queued"],
                    uuids |-> <<id>>, worded |-> FALSE]
      <4>1. pick(r.top, ids) = id
        BY <3>3, <3>2 DEF pick, Min
      <4>2. pick(r.top, states) = "queued"
        BY <3>3, NoneApart DEF pick, Min
      <4> QED
        BY <3>3, <4>1, <4>2, <3>2, <2>1, <2>4, <1>1
           DEF parseOrderResult, Or, FairOutcome, id, RejectedStates, AcceptedStates
    <3>4. CASE r = [isError |-> FALSE, top |-> [data |-> [id |-> id]],
                    uuids |-> <<id>>, worded |-> TRUE]
      <4>1. pick(r.top, ids) = None /\ pick(r.top, states) = None
        BY <3>4 DEF pick
      <4>2. findUuid(r.uuids) = id
        BY <3>4 DEF findUuid
      <4> QED
        BY <3>4, <4>1, <4>2, <3>2, <2>1, <2>4, <1>1
           DEF parseOrderResult, Or, FairOutcome, id
    <3>5. CASE r = [isError |-> FALSE, top |-> [data |-> [ref_id |-> "ref"]],
                    uuids |-> <<"ref", id>>, worded |-> FALSE]
      <4>1. pick(r.top, ids) = None /\ pick(r.top, states) = None
        BY <3>5 DEF pick
      <4>2. findUuid(r.uuids) = "ref"
        BY <3>5 DEF findUuid
      <4> QED
        BY <3>5, <4>1, <4>2, <3>2, <2>1, <2>4, <1>1
           DEF parseOrderResult, Or, FairOutcome, id
    <3>6. CASE r = [isError |-> FALSE, top |-> <<>>, uuids |-> <<>>, worded |-> FALSE]
      <4>1. pick(r.top, ids) = None /\ pick(r.top, states) = None
        BY <3>6 DEF pick
      <4>2. findUuid(r.uuids) = None
        BY <3>6 DEF findUuid
      <4> QED
        BY <3>6, <4>1, <4>2, <3>2, <2>1, <2>4, <1>1
           DEF parseOrderResult, Or, FairOutcome, id
    <3> QED
      BY <3>1, <3>3, <3>4, <3>5, <3>6 DEF Accepted
  <2> QED
    BY <2>2, <2>3, <2>4, <1>3 DEF Deeds, ActOf
<1> QED
  BY <1>2, <1>3

(* A poll takes an order's state over as the broker tells it. *)
LEMMA MappedState == ASSUME NEW id, NEW o, NEW brief \in BOOLEAN
                     PROVE  Mapped(id, o, brief).state = o.state
<1> DEFINE raw == Rendered(id, o, brief)
<1>1. "state" \in DOMAIN raw /\ raw.state = o.state
  BY DEF Rendered
<1> HIDE DEF raw
<1>2. pickRaw(raw, <<"state", "status">>) = o.state
  BY <1>1 DEF pickRaw, Min
<1> QED
  BY <1>2 DEF Mapped, mapOrderStatus, mapCryptoOrderStatus, mapOptionOrderStatus, raw

(* What the lenient reader picks is one of the things said under its names. *)
LEMMA PickSaid ==
  ASSUME NEW o, NEW keys, DOMAIN keys \subseteq Nat, NEW names,
         \A x : x \in names <=> \E i \in DOMAIN keys : keys[i] = x
  PROVE  /\ Named(o, names) = {} => pick(o, keys) = None
         /\ Named(o, names) # {} => pick(o, keys) \in Named(o, names)
<1> DEFINE there == {i \in DOMAIN keys : keys[i] \in DOMAIN o /\ o[keys[i]] # None}
<1>1. there = {} <=> Named(o, names) = {}
  BY DEF Named
<1>2. pick(o, keys) = IF there = {} THEN None ELSE o[keys[Min(there)]]
  BY DEF pick
<1>3. ASSUME there # {} PROVE Min(there) \in there
  <2>1. there \in SUBSET Nat
    OBVIOUS
  <2> HIDE DEF there
  <2> QED
    BY <2>1, <1>3, MinMember
<1> QED
  BY <1>1, <1>2, <1>3 DEF Named

(* ... for the numbers of names that the tools' fields have. *)
LEMMA PickOf1 ==
  ASSUME NEW o, NEW a
  PROVE  /\ Named(o, {a}) = {} => pick(o, <<a>>) = None
         /\ Named(o, {a}) # {} => pick(o, <<a>>) \in Named(o, {a})
<1> DEFINE keys == <<a>>
<1>1. DOMAIN keys = {1} /\ keys[1] = a
  OBVIOUS
<1> HIDE DEF keys
<1>2. \A x : x \in {a} <=> \E i \in DOMAIN keys : keys[i] = x
  BY <1>1
<1>3. DOMAIN keys \subseteq Nat
  BY <1>1
<1>4. /\ Named(o, {a}) = {} => pick(o, keys) = None
      /\ Named(o, {a}) # {} => pick(o, keys) \in Named(o, {a})
  BY <1>2, <1>3, PickSaid
<1> QED
  BY <1>4 DEF keys

LEMMA PickOf2 ==
  ASSUME NEW o, NEW a, NEW b
  PROVE  /\ Named(o, {a, b}) = {} => pick(o, <<a, b>>) = None
         /\ Named(o, {a, b}) # {} => pick(o, <<a, b>>) \in Named(o, {a, b})
<1> DEFINE keys == <<a, b>>
<1>1. DOMAIN keys = {1, 2} /\ keys[1] = a /\ keys[2] = b
  OBVIOUS
<1> HIDE DEF keys
<1>2. \A x : x \in {a, b} <=> \E i \in DOMAIN keys : keys[i] = x
  BY <1>1
<1>3. DOMAIN keys \subseteq Nat
  BY <1>1
<1>4. /\ Named(o, {a, b}) = {} => pick(o, keys) = None
      /\ Named(o, {a, b}) # {} => pick(o, keys) \in Named(o, {a, b})
  BY <1>2, <1>3, PickSaid
<1> QED
  BY <1>4 DEF keys

LEMMA PickOf3 ==
  ASSUME NEW o, NEW a, NEW b, NEW c
  PROVE  /\ Named(o, {a, b, c}) = {} => pick(o, <<a, b, c>>) = None
         /\ Named(o, {a, b, c}) # {} => pick(o, <<a, b, c>>) \in Named(o, {a, b, c})
<1> DEFINE keys == <<a, b, c>>
<1>1. DOMAIN keys = {1, 2, 3} /\ keys[1] = a /\ keys[2] = b /\ keys[3] = c
  OBVIOUS
<1> HIDE DEF keys
<1>2. \A x : x \in {a, b, c} <=> \E i \in DOMAIN keys : keys[i] = x
  BY <1>1
<1>3. DOMAIN keys \subseteq Nat
  BY <1>1
<1>4. /\ Named(o, {a, b, c}) = {} => pick(o, keys) = None
      /\ Named(o, {a, b, c}) # {} => pick(o, keys) \in Named(o, {a, b, c})
  BY <1>2, <1>3, PickSaid
<1> QED
  BY <1>4 DEF keys

LEMMA PickOf4 ==
  ASSUME NEW o, NEW a, NEW b, NEW c, NEW d
  PROVE  /\ Named(o, {a, b, c, d}) = {} => pick(o, <<a, b, c, d>>) = None
         /\ Named(o, {a, b, c, d}) # {} => pick(o, <<a, b, c, d>>) \in Named(o, {a, b, c, d})
<1> DEFINE keys == <<a, b, c, d>>
<1>1. DOMAIN keys = {1, 2, 3, 4} /\ keys[1] = a /\ keys[2] = b /\ keys[3] = c /\ keys[4] = d
  OBVIOUS
<1> HIDE DEF keys
<1>2. \A x : x \in {a, b, c, d} <=> \E i \in DOMAIN keys : keys[i] = x
  BY <1>1
<1>3. DOMAIN keys \subseteq Nat
  BY <1>1
<1>4. /\ Named(o, {a, b, c, d}) = {} => pick(o, keys) = None
      /\ Named(o, {a, b, c, d}) # {} => pick(o, keys) \in Named(o, {a, b, c, d})
  BY <1>2, <1>3, PickSaid
<1> QED
  BY <1>4 DEF keys

-----------------------------------------------------------------------------
LEMMA Built ==
  ASSUME NEW s, NEW t, NEW u, NEW v, NEW x, NEW y, NEW z
  PROVE  LET b == buildOptionParsed(s, t, u, v, x, y, z)
         IN  /\ b.kind = "place" /\ b.cancelsOrderId = None
             /\ {"kind", "cancelsOrderId", "legs"} \subseteq DOMAIN b
BY DEF buildOptionParsed, Blank

(* The card of an option order is built in one place. *)
LEMMA OptionRead ==
  ASSUME NEW o
  PROVE  \E s, t, u, v, x, y, z : parseOptionOrder(o) = buildOptionParsed(s, t, u, v, x, y, z)
<1> DEFINE raw == Or(pick(o, <<"legs">>), <<>>)
           legs == [i \in DOMAIN raw |->
                      Leg(pick(raw[i], <<"option_id", "optionId", "id">>),
                          low(pick(raw[i], <<"side">>)),
                          low(pick(raw[i], <<"position_effect", "positionEffect">>)),
                          Or(numv(pick(raw[i], <<"ratio_quantity", "ratioQuantity">>)), 1))]
           priced == pick(o, <<"price", "limit_price">>) # None
           type == Or(low(pick(o, <<"type", "order_type", "orderType">>)),
                      IF priced THEN "limit" ELSE None)
           own == IF Len(legs) = 1 THEN legs[1].side ELSE None
           direction == Or(low(pick(o, <<"direction">>)),
                           IF own = None THEN None ELSE IF own = "sell" THEN "credit" ELSE "debit")
           quantity == numv(pick(o, <<"quantity", "qty">>))
           limit == numv(pick(o, <<"price", "limit_price", "limitPrice">>))
           stop == numv(pick(o, <<"stop_price", "stopPrice">>))
           side == IF Len(legs) = 1 THEN legs[1].side ELSE direction
<1>1. parseOptionOrder(o)
        = buildOptionParsed(legs, quantity, type, limit, stop, direction, side)
  BY DEF parseOptionOrder
<1> HIDE DEF raw, legs, priced, type, own, direction, quantity, limit, stop, side
<1> QED
  BY <1>1

(* A card is of its tool's kind, and only a cancel by order id names an order. *)
LEMMA ReadKind ==
  ASSUME NEW tool \in MONEY_MOVERS, NEW o
  PROVE  LET read == parseOrderInput(tool, o)
         IN  /\ read.kind = ActOf(tool)
             /\ tool \in CancelTools \ ExerciseTools =>
                  read.cancelsOrderId = pick(o, <<"order_id", "id", "orderId">>)
             /\ tool \notin CancelTools \ ExerciseTools => read.cancelsOrderId = None
             /\ read.legs # <<>> => tool \notin CancelTools \ ExerciseTools
             /\ {"kind", "cancelsOrderId", "legs"} \subseteq DOMAIN read
<1>1. CASE tool \in ExerciseTools
  <2> DEFINE read == parseExercise(tool, o)
  <2>1. read.kind = (IF tool \in CancelTools THEN "cancel" ELSE "exercise") /\ read.cancelsOrderId = None
        /\ {"kind", "cancelsOrderId", "legs"} \subseteq DOMAIN read
    BY DEF parseExercise, buildExerciseParsed, Blank
  <2> QED
    BY <1>1, <2>1 DEF parseOrderInput, ActOf
<1>2. CASE tool \in CancelTools \ ExerciseTools
  BY <1>2 DEF parseOrderInput, parseCancel, ActOf, Blank
<1>3. CASE tool \notin ExerciseTools /\ tool \notin CancelTools
  <2>1. parseOptionOrder(o).kind = "place" /\ parseOptionOrder(o).cancelsOrderId = None
        /\ {"kind", "cancelsOrderId", "legs"} \subseteq DOMAIN parseOptionOrder(o)
    <3>1. PICK s, t, u, v, x, y, z : parseOptionOrder(o) = buildOptionParsed(s, t, u, v, x, y, z)
      BY OptionRead
    <3> QED
      BY <3>1, Built
  <2>2. parseFlat(tool, o).kind = "place" /\ parseFlat(tool, o).cancelsOrderId = None
        /\ {"kind", "cancelsOrderId", "legs"} \subseteq DOMAIN parseFlat(tool, o)
    BY DEF parseFlat, Blank
  <2> QED
    BY <1>3, <2>1, <2>2 DEF parseOrderInput, ActOf
<1> QED
  BY <1>1, <1>2, <1>3

LEMMA CancelKeeps ==
  ASSUME NEW p, NEW target, {"kind", "cancelsOrderId", "legs"} \subseteq DOMAIN p
  PROVE  LET q == enrichCancelParsed(p, target)
         IN  q.kind = p.kind /\ q.cancelsOrderId = p.cancelsOrderId /\ q.legs = p.legs
BY DEF enrichCancelParsed

LEMMA OptionKeeps ==
  ASSUME NEW p, NEW memory, p.kind \in {"place", "cancel", "exercise"},
         p.legs # <<>> => p.cancelsOrderId = None
  PROVE  LET q == enrichOptionParsed(p, memory)
         IN  q.kind = p.kind /\ q.cancelsOrderId = p.cancelsOrderId
<1> DEFINE q == enrichOptionParsed(p, memory)
<1>1. CASE p.assetType # "option" \/ p.legs = <<>>
  BY <1>1 DEF enrichOptionParsed
<1>2. CASE p.assetType = "option" /\ p.legs # <<>>
  <2>3. p.cancelsOrderId = None
    BY <1>2
  <2>4. CASE p.kind = "place"
    BY <2>4, <2>3, <1>2, Built DEF enrichOptionParsed
  <2>5. CASE p.kind = "exercise"
    BY <2>5, <2>3, <1>2 DEF enrichOptionParsed, buildExerciseParsed, Blank
  <2>6. CASE p.kind = "cancel"
    BY <2>6, <2>3, <1>2 DEF enrichOptionParsed, buildExerciseParsed, Blank
  <2> QED
    BY <2>4, <2>5, <2>6
<1> QED
  BY <1>1, <1>2

(* The card request() stores, without and with the contracts it knows. *)
Bare(c, target) ==
  LET read == parseOrderInput(c.tool, c.input)
  IN  IF read.kind = "cancel" /\ read.cancelsOrderId # None
      THEN enrichCancelParsed(read, target) ELSE read

Drawn(c, target, answer, memory) ==
  IF answer = "late" THEN Bare(c, target) ELSE enrichOptionParsed(Bare(c, target), memory)

LEMMA DrawnKind ==
  ASSUME NEW i \in DOMAIN Approvals, NEW c \in Calls[Approvals[i]], c.tool \in MONEY_MOVERS,
         NEW target, NEW answer, NEW memory
  PROVE  LET p == Drawn(c, target, answer, memory)
         IN  /\ p.kind = c.means.act
             /\ c.means.act = "cancel" => p.cancelsOrderId = c.means.target
<1> DEFINE read == parseOrderInput(c.tool, c.input)
           named == IF read.kind = "cancel" /\ read.cancelsOrderId # None
                    THEN enrichCancelParsed(read, target) ELSE read
<1>1. /\ c.means.act = ActOf(c.tool)
      /\ c.tool \in CancelTools \ ExerciseTools =>
           pick(c.input, <<"order_id", "id", "orderId">>) = c.means.target
      /\ c.tool \in CancelTools \cap ExerciseTools => c.means.target = None
  <2>1. /\ c.means.act = ActOf(c.tool)
        /\ c.tool \in CancelTools \ ExerciseTools =>
             Says(Named(c.input, {"order_id", "id", "orderId"}), c.means.target)
        /\ c.tool \in CancelTools \cap ExerciseTools => c.means.target = None
    BY CallsAssumption DEF CancelSays
  <2> DEFINE o == c.input
  <2>2. c.tool \in CancelTools \ ExerciseTools => pick(o, <<"order_id", "id", "orderId">>) = c.means.target
    BY <2>1, PickOf3 DEF Says
  <2> QED
    BY <2>1, <2>2
<1>2. /\ read.kind = ActOf(c.tool)
      /\ c.tool \in CancelTools \ ExerciseTools =>
           read.cancelsOrderId = pick(c.input, <<"order_id", "id", "orderId">>)
      /\ c.tool \notin CancelTools \ ExerciseTools => read.cancelsOrderId = None
      /\ read.legs # <<>> => c.tool \notin CancelTools \ ExerciseTools
      /\ {"kind", "cancelsOrderId", "legs"} \subseteq DOMAIN read
  BY ReadKind
<1>3. read.kind = "cancel" => read.cancelsOrderId = c.means.target
  BY <1>1, <1>2 DEF ActOf
<1> HIDE DEF read
<1>4. named.kind = read.kind /\ named.cancelsOrderId = read.cancelsOrderId /\ named.legs = read.legs
  BY <1>2, CancelKeeps
<1>5. read.kind \in {"place", "cancel", "exercise"}
  BY <1>2 DEF ActOf
<1> HIDE DEF named
<1>6. LET q == enrichOptionParsed(named, memory)
      IN  q.kind = named.kind /\ q.cancelsOrderId = named.cancelsOrderId
  BY <1>2, <1>4, <1>5, OptionKeeps
<1>7. Drawn(c, target, answer, memory)
        = IF answer = "late" THEN named ELSE enrichOptionParsed(named, memory)
  BY DEF Drawn, Bare, named, read
<1> QED
  BY <1>1, <1>2, <1>3, <1>4, <1>6, <1>7

-----------------------------------------------------------------------------
(* The bookkeeping of a card depends on what belongs to it alone. *)
LEMMA BookedKept ==
  ASSUME NEW a \in A, Booked(a),
         call'[a] = call[a], card'[a] = card[a], status'[a] = status[a], did'[a] = did[a],
         reply'[a] = reply[a], outcome'[a] = outcome[a],
         \A kind \in EntryKinds : Noted(kind, a)' <=> Noted(kind, a)
  PROVE  Booked(a)'
<1>1. /\ Noted("order_intent", a)' <=> Noted("order_intent", a)
      /\ Noted("approval_decision", a)' <=> Noted("approval_decision", a)
      /\ Noted("order_observed", a)' <=> Noted("order_observed", a)
  BY DEF EntryKinds
<1>2. FairReply(a, reply[a]) => FairReply(a, reply[a])'
  BY DEF FairReply
<1>3. FairOutcome(a, outcome[a]) => FairOutcome(a, outcome[a])'
  BY DEF FairOutcome
<1> HIDE DEF Noted, FairReply, FairOutcome
<1> QED
  BY <1>1, <1>2, <1>3 DEF Booked

LEMMA NotedKept == ASSUME audit' = audit, NEW kind, NEW a PROVE Noted(kind, a)' <=> Noted(kind, a)
BY DEF Noted

(* What an entry at the end of the log changes. *)
LEMMA Written ==
  ASSUME NEW kind \in EntryKinds, NEW a \in A, audit \in Seq([kind : EntryKinds, approvalId : A]),
         audit' = Append(audit, Entry(kind, a)), AuditOrdered,
         \A i \in DOMAIN audit : Precedes(audit[i], Entry(kind, a))
  PROVE  /\ audit' \in Seq([kind : EntryKinds, approvalId : A])
         /\ AuditOrdered'
         /\ Noted(kind, a)'
         /\ \A k, b : Noted(k, b)' <=> Noted(k, b) \/ (k = kind /\ b = a)
<1> DEFINE E == [kind : EntryKinds, approvalId : A]
           e == Entry(kind, a)
           n == Len(audit)
<1>1. e \in E /\ e.kind = kind /\ e.approvalId = a
  BY DEF Entry
<1>2. n \in Nat /\ DOMAIN audit = 1 .. n
  OBVIOUS
<1> HIDE DEF e
<1>3. /\ audit' \in Seq(E) /\ Len(audit') = n + 1 /\ DOMAIN audit' = 1 .. (n + 1)
      /\ audit'[n + 1] = e /\ \A i \in 1 .. n : audit'[i] = audit[i]
  BY <1>1, <1>2 DEF e
<1> HIDE DEF n
<1>4. \A k, b : Noted(k, b)' <=> Noted(k, b) \/ (k = kind /\ b = a)
  BY <1>1, <1>2, <1>3 DEF Noted
<1>5. AuditOrdered'
  <2> SUFFICES ASSUME NEW i \in DOMAIN audit', NEW j \in DOMAIN audit', i < j
               PROVE  Precedes(audit'[i], audit'[j])
    BY DEF AuditOrdered, Precedes
  <2>1. CASE j = n + 1
    BY <2>1, <1>2, <1>3 DEF e
  <2>2. CASE j # n + 1
    BY <2>2, <1>2, <1>3 DEF AuditOrdered
  <2> QED
    BY <2>1, <2>2
<1> QED
  BY <1>3, <1>4, <1>5

(* Where an entry may be appended: nothing was written of a later card. *)
LEMMA MayWrite ==
  ASSUME TrailInv, NEW a \in A, NEW kind \in EntryKinds,
         \A b \in A : Rank(a) < Rank(b) => status[b] = "none",
         \A k \in EntryKinds : Noted(k, a) => KindNo(k) < KindNo(kind)
  PROVE  \A i \in DOMAIN audit : Precedes(audit[i], Entry(kind, a))
<1> TAKE i \in DOMAIN audit
<1> DEFINE k == audit[i].kind
           b == audit[i].approvalId
<1>1. k \in EntryKinds /\ b \in A
  <2>1. audit \in Seq([kind : EntryKinds, approvalId : A])
    BY DEF TrailInv, TrailTypes
  <2>2. i \in 1 .. Len(audit)
    BY <2>1
  <2>3. audit[i] \in [kind : EntryKinds, approvalId : A]
    BY <2>1, <2>2, ElementOfSeq
  <2> QED
    BY <2>3
<1>2. Noted(k, b)
  BY DEF Noted
<1>3. Entry(kind, a).kind = kind /\ Entry(kind, a).approvalId = a
  BY DEF Entry
<1>4. status[b] # "none"
  <2>1. Booked(b)
    BY <1>1 DEF TrailInv
  <2> QED
    BY <2>1, <1>1, <1>2 DEF Booked, EntryKinds
<1>5. CASE b = a
  BY <1>1, <1>2, <1>3, <1>5 DEF Precedes
<1>6. CASE b # a
  <2>1. ~(Rank(a) < Rank(b))
    BY <1>1, <1>4
  <2>2. Rank(b) < Rank(a)
    BY <2>1, <1>1, <1>6, RanksApart
  <2> QED
    BY <2>2, <1>3 DEF Precedes
<1> QED
  BY <1>5, <1>6

(* While something is left to do for a card, no later one is raised. *)
LEMMA NoneLater ==
  ASSUME TrailInv, NEW a \in A, ~Finished(a)
  PROVE  \A b \in A : Rank(a) < Rank(b) => status[b] = "none"
BY DEF TrailInv, OneAtATime

LEMMA OneAtATimeKept ==
  ASSUME TrailInv, \A a \in A : Finished(a) => Finished(a)',
         \A a \in A : status'[a] # "none" => status[a] # "none"
  PROVE  OneAtATime'
<1> HIDE DEF Finished
<1> QED
  BY DEF TrailInv, OneAtATime

-----------------------------------------------------------------------------
(* The conjuncts of the invariant that a step leaving the broker, the      *)
(* ledger and the log alone keeps.                                         *)
LEMMA BrokerKept ==
  ASSUME TrailInv, UNCHANGED <<orders, ledger>>
  PROVE  NoStrays' /\ LedgerFollows'
         /\ \A id \in DOMAIN orders' : DOMAIN orders'[id] = {"means", "state", "done", "by"}
BY DEF TrailInv, TrailTypes, NoStrays, LedgerFollows

LEMMA LogKept ==
  ASSUME TrailInv, audit' = audit
  PROVE  AuditOrdered' /\ audit' \in Seq([kind : EntryKinds, approvalId : A])
         /\ \A kind, a : Noted(kind, a)' <=> Noted(kind, a)
BY NotedKept DEF TrailInv, TrailTypes, AuditOrdered, Precedes, Noted

LEMMA OwnedKept ==
  ASSUME NEW a \in A, Owned(a), call'[a] = call[a], did'[a] = did[a],
         Placed(a)' <=> Placed(a),
         Placed(a) => /\ orders'[OrderOf[a]].by = orders[OrderOf[a]].by
                      /\ orders'[OrderOf[a]].state \in OrderStates
  PROVE  Owned(a)'
BY DEF Owned

LEMMA InitTrail == TrailInit => TrailInv
<1> SUFFICES ASSUME TrailInit PROVE TrailInv
  OBVIOUS
<1> USE DEF TrailInit
<1>1. TrailTypes
  <2>1. audit \in Seq([kind : EntryKinds, approvalId : A])
    OBVIOUS
  <2>2. \A id \in DOMAIN orders : DOMAIN orders[id] = {"means", "state", "done", "by"}
    BY OrderIdsAssumption
  <2> QED
    BY <2>1, <2>2 DEF TrailTypes, Statuses, Deeds
<1>2. \A kind, a : ~Noted(kind, a)
  BY DEF Noted
<1>3. ASSUME NEW a \in A PROVE Booked(a)
  BY <1>2, <1>3 DEF Booked
<1>4. ASSUME NEW a \in A PROVE Owned(a)
  BY <1>4, OrderIdsAssumption DEF Owned, Placed
<1>5. NoStrays /\ LedgerFollows
  BY DEF NoStrays, LedgerFollows
<1>6. AuditOrdered /\ OneAtATime
  BY DEF AuditOrdered, OneAtATime
<1> QED
  BY <1>1, <1>3, <1>4, <1>5, <1>6 DEF TrailInv

LEMMA ProposeKeeps ==
  ASSUME TrailInv, NEW a \in A, NEW c \in Calls[a], NEW answer \in {"none", "found", "late"},
         Propose(a, c, answer)
  PROVE  TrailInv'
<1> DEFINE memory == contracts'
           p == card'[a]
<1>1. /\ TrailTypes /\ \A b \in A : Booked(b) /\ Owned(b)
      /\ OneAtATime /\ AuditOrdered
  BY DEF TrailInv
<1>2. /\ status[a] = "none" /\ c.tool \in MONEY_MOVERS
      /\ call' = [call EXCEPT ![a] = c] /\ status' = [status EXCEPT ![a] = "pending"]
      /\ audit' = Append(audit, Entry("order_intent", a))
      /\ UNCHANGED <<did, reply, outcome, aged, orders, ledger>>
  BY DEF Propose
<1>3. \A x \in A : Rank(x) < Rank(a) => Finished(x)
  <2> SUFFICES ASSUME NEW x \in A, Rank(x) < Rank(a) PROVE Finished(x)
    OBVIOUS
  <2>1. /\ Rank(a) \in DOMAIN Approvals /\ Approvals[Rank(a)] = a /\ Approvals[Rank(x)] = x
        /\ Rank(x) \in 1 .. (Rank(a) - 1)
    BY Ranks
  <2>2. \A i \in DOMAIN Approvals :
          Approvals[i] = a => \A j \in 1..(i - 1) :
            /\ status[Approvals[j]] \notin {"none", "pending"}
            /\ status[Approvals[j]] = "approved" =>
                  did[Approvals[j]] # "unsent" /\ reply[Approvals[j]] = None
    BY DEF Propose
  <2> QED
    BY <2>1, <2>2 DEF Finished
<1>4. card' = [card EXCEPT ![a] = Drawn(c, Target(parseOrderInput(c.tool, c.input).cancelsOrderId),
                                        answer, contracts')]
  BY DEF Propose, Drawn, Bare
<1>5. p.kind = c.means.act /\ (c.means.act = "cancel" => p.cancelsOrderId = c.means.target)
  <2>1. PICK i \in DOMAIN Approvals : Approvals[i] = a
    BY Ranks
  <2>2. p = Drawn(c, Target(parseOrderInput(c.tool, c.input).cancelsOrderId), answer, contracts')
    BY <1>1, <1>4 DEF TrailTypes
  <2> HIDE DEF p
  <2>3. c \in Calls[Approvals[i]]
    BY <2>1
  <2> QED
    BY <2>2, <2>3, <1>2, DrawnKind
<1> HIDE DEF p
<1>6. did[a] = "unsent" /\ reply[a] = None /\ outcome[a] = None /\ \A k \in EntryKinds : ~Noted(k, a)
  BY <1>1, <1>2 DEF Booked, EntryKinds, TrailTypes, Deeds
<1>7. /\ audit' \in Seq([kind : EntryKinds, approvalId : A]) /\ AuditOrdered'
      /\ \A k, b : Noted(k, b)' <=> Noted(k, b) \/ (k = "order_intent" /\ b = a)
  <2>1. \A b \in A : Rank(a) < Rank(b) => status[b] = "none"
    BY <1>1, <1>2 DEF OneAtATime, Finished
  <2>2. \A i \in DOMAIN audit : Precedes(audit[i], Entry("order_intent", a))
    BY <2>1, <1>6, MayWrite DEF EntryKinds
  <2> QED
    BY <2>2, <1>1, <1>2, Written DEF EntryKinds, TrailTypes
<1>8. TrailTypes'
  BY <1>1, <1>2, <1>4, <1>7, BrokerKept DEF TrailTypes, Statuses
<1>9. ASSUME NEW b \in A PROVE Booked(b)' /\ Owned(b)'
  <2>1. CASE b = a
    <3>1. /\ call'[a] = c /\ card'[a] = p /\ status'[a] = "pending" /\ did'[a] = "unsent"
          /\ reply'[a] = None /\ outcome'[a] = None
      BY <1>1, <1>2, <1>6 DEF TrailTypes, p
    <3>2. Noted("order_intent", a)' /\ ~Noted("approval_decision", a)' /\ ~Noted("order_observed", a)'
      BY <1>6, <1>7 DEF EntryKinds
    <3>3. Booked(a)'
      BY <3>1, <3>2, <1>2, <1>5 DEF Booked
    <3>4. ~Placed(a)
      BY <1>1, <1>6 DEF Owned
    <3>5. Owned(a)'
      BY <3>1, <3>4, <1>2 DEF Owned, Placed
    <3> QED
      BY <3>3, <3>5, <2>1
  <2>2. CASE b # a
    <3>1. call'[b] = call[b] /\ card'[b] = card[b] /\ status'[b] = status[b]
      BY <1>1, <1>2, <1>4, <2>2 DEF TrailTypes
    <3>2. \A kind \in EntryKinds : Noted(kind, b)' <=> Noted(kind, b)
      BY <1>7, <2>2
    <3>3. Booked(b)'
      BY <3>1, <3>2, <1>1, <1>2, BookedKept
    <3>4. Owned(b)'
      BY <3>1, <1>1, <1>2 DEF Owned, Placed
    <3> QED
      BY <3>3, <3>4
  <2> QED
    BY <2>1, <2>2
<1>10. OneAtATime'
  <2> SUFFICES ASSUME NEW x \in A, NEW y \in A, Rank(x) < Rank(y), status'[y] # "none"
               PROVE  Finished(x)'
    BY DEF OneAtATime
  <2>1. Finished(x)
    <3>1. CASE y = a
      BY <3>1, <1>3
    <3>2. CASE y # a
      <4>1. status[y] # "none"
        BY <3>2, <1>1, <1>2 DEF TrailTypes
      <4> QED
        BY <4>1, <1>1 DEF OneAtATime
    <3> QED
      BY <3>1, <3>2
  <2>2. x # a
    BY <2>1, <1>2 DEF Finished
  <2> QED
    BY <2>1, <2>2, <1>1, <1>2 DEF Finished, TrailTypes
<1> QED
  BY <1>7, <1>8, <1>9, <1>10, <1>2, BrokerKept DEF TrailInv

LEMMA FinalizeKeeps ==
  ASSUME TrailInv, NEW a \in A, NEW v \in {"approved", "rejected", "expired"}, Finalize(a, v)
  PROVE  TrailInv'
<1>1. /\ TrailTypes /\ \A b \in A : Booked(b) /\ Owned(b)
      /\ OneAtATime /\ AuditOrdered
  BY DEF TrailInv
<1>2. /\ status[a] = "pending"
      /\ status' = [status EXCEPT ![a] = v]
      /\ audit' = Append(audit, Entry("approval_decision", a))
      /\ UNCHANGED <<call, card, did, reply, outcome, aged, orders, ledger, contracts>>
  BY DEF Finalize
<1>3. ~Finished(a)
  BY <1>2 DEF Finished
<1>4. did[a] = "unsent" /\ reply[a] = None /\ outcome[a] = None
      /\ Noted("order_intent", a) /\ ~Noted("approval_decision", a) /\ ~Noted("order_observed", a)
  BY <1>1, <1>2 DEF Booked, TrailTypes, Deeds
<1>5. /\ audit' \in Seq([kind : EntryKinds, approvalId : A]) /\ AuditOrdered'
      /\ \A k, b : Noted(k, b)' <=> Noted(k, b) \/ (k = "approval_decision" /\ b = a)
  <2>1. \A b \in A : Rank(a) < Rank(b) => status[b] = "none"
    BY <1>3, NoneLater
  <2>2. \A k \in EntryKinds : Noted(k, a) => KindNo(k) < KindNo("approval_decision")
    BY <1>4 DEF EntryKinds, KindNo
  <2>3. \A i \in DOMAIN audit : Precedes(audit[i], Entry("approval_decision", a))
    BY <2>1, <2>2, MayWrite DEF EntryKinds
  <2> QED
    BY <2>3, <1>1, <1>2, Written DEF EntryKinds, TrailTypes
<1>6. TrailTypes'
  BY <1>1, <1>2, <1>5, BrokerKept DEF TrailTypes, Statuses
<1>7. ASSUME NEW b \in A PROVE Booked(b)' /\ Owned(b)'
  <2>1. CASE b = a
    <3>1. status'[a] = v
      BY <1>1, <1>2 DEF TrailTypes
    <3>2. Noted("order_intent", a)' /\ Noted("approval_decision", a)' /\ ~Noted("order_observed", a)'
      BY <1>4, <1>5
    <3>3. Booked(a)'
      BY <3>1, <3>2, <1>1, <1>2, <1>4 DEF Booked
    <3>4. Owned(a)'
      BY <1>1, <1>2 DEF Owned, Placed
    <3> QED
      BY <3>3, <3>4, <2>1
  <2>2. CASE b # a
    <3>1. status'[b] = status[b]
      BY <1>1, <1>2, <2>2 DEF TrailTypes
    <3>2. \A kind \in EntryKinds : Noted(kind, b)' <=> Noted(kind, b)
      BY <1>5, <2>2
    <3>3. Booked(b)'
      BY <3>1, <3>2, <1>1, <1>2, BookedKept
    <3>4. Owned(b)'
      BY <1>1, <1>2 DEF Owned, Placed
    <3> QED
      BY <3>3, <3>4
  <2> QED
    BY <2>1, <2>2
<1>8. OneAtATime'
  <2>1. \A x \in A : Finished(x) => Finished(x)'
    BY <1>1, <1>2, <1>3 DEF Finished, TrailTypes
  <2>2. \A x \in A : status'[x] # "none" => status[x] # "none"
    BY <1>1, <1>2 DEF TrailTypes
  <2> QED
    BY <2>1, <2>2, OneAtATimeKept
<1> QED
  BY <1>5, <1>6, <1>7, <1>8, <1>2, BrokerKept DEF TrailInv

(* A step that leaves the cards, the log and the broker alone. *)
LEMMA QuietKeeps ==
  ASSUME TrailInv, UNCHANGED <<call, card, status, did, reply, outcome, audit, orders, ledger>>
  PROVE  TrailInv'
<1>1. /\ TrailTypes /\ \A b \in A : Booked(b) /\ Owned(b) /\ OneAtATime
  BY DEF TrailInv
<1>2. TrailTypes'
  BY <1>1 DEF TrailTypes
<1>3. ASSUME NEW b \in A PROVE Booked(b)' /\ Owned(b)'
  <2>1. Booked(b)'
    BY <1>1, BookedKept, LogKept
  <2>2. Owned(b)'
    BY <1>1 DEF Owned, Placed
  <2> QED
    BY <2>1, <2>2
<1>4. OneAtATime'
  BY <1>1 DEF OneAtATime, Finished
<1> QED
  BY <1>2, <1>3, <1>4, BrokerKept, LogKept DEF TrailInv

(* The broker answers the call of a, with or without an order. *)
LEMMA RunKeeps ==
  ASSUME TrailInv, NEW a \in A, Ready(a), NEW r, NEW deed \in {"accepted", "refused"},
         did' = [did EXCEPT ![a] = deed], reply' = [reply EXCEPT ![a] = r],
         UNCHANGED <<gate, outcome, audit, ledger, contracts>>,
         r # None => FairReply(a, r)',
         \/ orders' = orders /\ (call[a].means.act = "place" => deed = "refused")
         \/ /\ call[a].means.act = "place" /\ deed = "accepted"
            /\ \E m : orders' = [id \in DOMAIN orders \cup {OrderOf[a]} |->
                              IF id = OrderOf[a]
                              THEN [means |-> m, state |-> "queued", done |-> 0, by |-> a]
                              ELSE orders[id]]
  PROVE  TrailInv'
<1>1. /\ TrailTypes /\ \A b \in A : Booked(b) /\ Owned(b)
      /\ OneAtATime /\ AuditOrdered /\ NoStrays /\ LedgerFollows
  BY DEF TrailInv
<1>2. status[a] = "approved" /\ did[a] = "unsent" /\ reply[a] = None
  BY <1>1 DEF Ready, Booked
<1>3. /\ did'[a] = deed /\ reply'[a] = r
      /\ \A b \in A : b # a => did'[b] = did[b] /\ reply'[b] = reply[b]
      /\ UNCHANGED <<call, card, status, aged, outcome, audit, ledger, contracts>>
  BY <1>1 DEF TrailTypes, gate
<1>4. ~Placed(a)
  BY <1>1, <1>2 DEF Owned
<1>5. /\ DOMAIN orders' = DOMAIN orders
          \cup (IF call[a].means.act = "place" /\ deed = "accepted" THEN {OrderOf[a]} ELSE {})
      /\ \A id \in DOMAIN orders : id # OrderOf[a] => orders'[id] = orders[id]
      /\ Placed(a)' => orders'[OrderOf[a]].by = a /\ orders'[OrderOf[a]].state = "queued"
      /\ \A id \in DOMAIN orders' : DOMAIN orders'[id] = {"means", "state", "done", "by"}
  <2>1. CASE orders' = orders /\ (call[a].means.act = "place" => deed = "refused")
    BY <2>1, <1>1, <1>4 DEF TrailTypes, Placed
  <2>2. CASE /\ call[a].means.act = "place" /\ deed = "accepted"
             /\ \E m : orders' = [id \in DOMAIN orders \cup {OrderOf[a]} |->
                              IF id = OrderOf[a]
                              THEN [means |-> m, state |-> "queued", done |-> 0, by |-> a]
                              ELSE orders[id]]
    <3>1. PICK m : orders' = [id \in DOMAIN orders \cup {OrderOf[a]} |->
                              IF id = OrderOf[a]
                              THEN [means |-> m, state |-> "queued", done |-> 0, by |-> a]
                              ELSE orders[id]]
      BY <2>2
    <3> DEFINE o == [means |-> m, state |-> "queued", done |-> 0, by |-> a]
    <3>2. o.by = a /\ o.state = "queued" /\ DOMAIN o = {"means", "state", "done", "by"}
      OBVIOUS
    <3>3. orders' = [id \in DOMAIN orders \cup {OrderOf[a]} |-> IF id = OrderOf[a] THEN o ELSE orders[id]]
      BY <3>1
    <3> HIDE DEF o
    <3>4. /\ DOMAIN orders' = DOMAIN orders \cup {OrderOf[a]} /\ orders'[OrderOf[a]] = o
          /\ \A id \in DOMAIN orders : id # OrderOf[a] => orders'[id] = orders[id]
      BY <3>3
    <3> QED
      BY <3>2, <3>4, <2>2, <1>1 DEF TrailTypes
  <2> QED
    BY <2>1, <2>2
<1>6. TrailTypes'
  BY <1>1, <1>3, <1>5 DEF TrailTypes, Deeds
<1>7. ASSUME NEW b \in A PROVE Booked(b)' /\ Owned(b)'
  <2>1. \A kind : Noted(kind, b)' <=> Noted(kind, b)
    BY <1>3, NotedKept
  <2>2. CASE b = a
    <3>1. Booked(a)'
      <4>1. ~Noted("order_observed", a)
        BY <1>1, <1>2 DEF Booked
      <4>2. reply'[a] # None => FairReply(a, reply[a])'
        BY <1>3
      <4> HIDE DEF FairReply, FairOutcome, Noted
      <4> QED
        BY <4>1, <4>2, <2>1, <2>2, <1>1, <1>2, <1>3 DEF Booked
    <3>2. Owned(a)'
      BY <1>3, <1>4, <1>5 DEF Owned, Placed, OrderStates, Live
    <3> QED
      BY <3>1, <3>2, <2>2
  <2>3. CASE b # a
    <3>1. Booked(b)'
      BY <2>1, <2>3, <1>1, <1>3, BookedKept
    <3>2. OrderOf[b] # OrderOf[a]
      BY <2>3, OrderIdsAssumption
    <3>3. Owned(b)'
      BY <3>2, <2>3, <1>1, <1>3, <1>5 DEF Owned, Placed
    <3> QED
      BY <3>1, <3>3
  <2> QED
    BY <2>2, <2>3
<1>8. NoStrays' /\ LedgerFollows'
  <2>1. NoStrays'
    BY <1>1, <1>5 DEF NoStrays
  <2>2. LedgerFollows'
    <3> SUFFICES ASSUME ledger # None PROVE
            /\ DOMAIN ledger \subseteq DOMAIN orders'
            /\ \A b \in A : OrderOf[b] \in DOMAIN ledger =>
                 \/ ledger[OrderOf[b]].state \in Live
                 \/ ledger[OrderOf[b]].state = orders'[OrderOf[b]].state
      BY <1>3 DEF LedgerFollows
    <3>1. OrderOf[a] \notin DOMAIN ledger
      BY <1>1, <1>4 DEF LedgerFollows, Placed
    <3> QED
      BY <3>1, <1>1, <1>5, OrderIdsAssumption DEF LedgerFollows
  <2> QED
    BY <2>1, <2>2
<1>9. OneAtATime'
  <2>1. \A x \in A : Finished(x) => Finished(x)'
    BY <1>2, <1>3 DEF Finished
  <2> QED
    BY <2>1, <1>3, OneAtATimeKept
<1> QED
  BY <1>6, <1>7, <1>8, <1>9, <1>3, LogKept DEF TrailInv

LEMMA CallAsNamed ==
  ASSUME TrailInv, NEW a \in A, status[a] # "none"
  PROVE  call[a].means.act = ActOf(call[a].tool) /\ call[a].means.act \in {"place", "cancel", "exercise"}
<1>1. PICK i \in DOMAIN Approvals : Approvals[i] = a
  BY Ranks
<1>2. call[a] \in Calls[Approvals[i]]
  BY <1>1 DEF TrailInv, Booked
<1>3. call[a].means.act = ActOf(call[a].tool)
  BY <1>2, CallsAssumption
<1> QED
  BY <1>3 DEF ActOf

LEMMA BrokerRuns ==
  ASSUME TrailInv, NEW a \in A, PlaceOrder(a) \/ Refuse(a) \/ Exercise(a) \/ Cancel(a)
  PROVE  TrailInv'
<1>1. Ready(a) /\ DOMAIN did = A /\ DOMAIN call = A
  BY DEF PlaceOrder, Refuse, Exercise, Cancel, TrailInv, TrailTypes
<1>2. call[a].means.act \in {"place", "cancel", "exercise"}
  BY <1>1, CallAsNamed DEF Ready
<1>3. CASE PlaceOrder(a)
  <2>1. PICK r \in Accepted(OrderOf[a]) : Run(a, r, "accepted")
    BY <1>3 DEF PlaceOrder
  <2>2. /\ call[a].means.act = "place"
        /\ \E m : orders' = [id \in DOMAIN orders \cup {OrderOf[a]} |->
                              IF id = OrderOf[a]
                              THEN [means |-> m, state |-> "queued", done |-> 0, by |-> a]
                              ELSE orders[id]]
        /\ UNCHANGED <<gate, outcome, audit, ledger, contracts>>
    BY <1>3 DEF PlaceOrder
  <2>3. did' = [did EXCEPT ![a] = "accepted"] /\ reply' = [reply EXCEPT ![a] = r]
    BY <2>1 DEF Run
  <2>4. FairReply(a, r)'
    BY <2>1, <2>2, <2>3, <1>1 DEF FairReply, gate
  <2> QED
    BY <2>2, <2>3, <2>4, <1>1, RunKeeps
<1>4. CASE Refuse(a)
  <2>1. /\ call[a].means.act \in {"place", "exercise"} /\ orders' = orders
        /\ UNCHANGED <<gate, outcome, audit, ledger, contracts>>
        /\ did' = [did EXCEPT ![a] = "refused"] /\ reply' = [reply EXCEPT ![a] = Refusal]
    BY <1>4 DEF Refuse, Run
  <2>2. FairReply(a, Refusal)'
    BY <2>1, <1>1 DEF FairReply, gate
  <2> QED
    BY <2>1, <2>2, <1>1, RunKeeps
<1>5. CASE Exercise(a)
  <2> DEFINE r == [isError |-> FALSE, top |-> [state |-> "queued"], uuids |-> <<>>, worded |-> FALSE]
  <2>1. /\ call[a].means.act = "exercise" /\ orders' = orders
        /\ UNCHANGED <<gate, outcome, audit, ledger, contracts>>
        /\ did' = [did EXCEPT ![a] = "accepted"] /\ reply' = [reply EXCEPT ![a] = r]
    BY <1>5 DEF Exercise, Run
  <2>2. FairReply(a, r)'
    BY <2>1, <1>1 DEF FairReply, gate
  <2> HIDE DEF r
  <2> QED
    BY <2>1, <2>2, <1>1, RunKeeps
<1>6. CASE Cancel(a)
  <2> DEFINE id == call[a].means.target
             yes == id = None \/ (id \in DOMAIN orders /\ orders[id].state \in Live)
  <2>1. /\ call[a].means.act = "cancel" /\ orders' = orders
        /\ UNCHANGED <<gate, outcome, audit, ledger, contracts>>
        /\ did' = [did EXCEPT ![a] = IF yes THEN "accepted" ELSE "refused"]
        /\ reply' = [reply EXCEPT ![a] = CancelReply(yes, id)]
    BY <1>6 DEF Cancel, Run
  <2>2. PICK r, deed : /\ deed \in {"accepted", "refused"}
                       /\ r = CancelReply(deed = "accepted", id)
                       /\ did' = [did EXCEPT ![a] = deed] /\ reply' = [reply EXCEPT ![a] = r]
    <3>1. CASE yes
      <4>1. CancelReply(yes, id) = CancelReply("accepted" = "accepted", id)
        BY <3>1
      <4> QED
        BY <4>1, <3>1, <2>1
    <3>2. CASE ~yes
      <4>1. CancelReply(yes, id) = CancelReply("refused" = "accepted", id)
        BY <3>2
      <4> QED
        BY <4>1, <3>2, <2>1
    <3> QED
      BY <3>1, <3>2
  <2> HIDE DEF yes
  <2>3. FairReply(a, r)'
    <3>1. did'[a] = deed /\ call' = call
      BY <2>1, <2>2, <1>1 DEF gate
    <3> QED
      BY <3>1, <2>1, <2>2 DEF FairReply
  <2> QED
    BY <2>1, <2>2, <2>3, <1>1, RunKeeps
<1> QED
  BY <1>3, <1>4, <1>5, <1>6

LEMMA TradeKeeps ==
  ASSUME TrailInv, NEW id \in DOMAIN orders,
         NEW s \in {"partially_filled", "filled", "cancelled", "rejected", "expired"}, Trade(id, s)
  PROVE  TrailInv'
<1>1. /\ TrailTypes /\ \A b \in A : Booked(b) /\ Owned(b)
      /\ OneAtATime /\ AuditOrdered /\ NoStrays /\ LedgerFollows
  BY DEF TrailInv
<1>2. /\ orders[id].state \in Live
      /\ UNCHANGED <<call, card, status, did, reply, outcome, audit, aged, ledger, contracts>>
  BY DEF Trade
<1>3. /\ DOMAIN orders' = DOMAIN orders
      /\ \A x \in DOMAIN orders : x # id => orders'[x] = orders[x]
      /\ orders'[id].state = s /\ orders'[id].by = orders[id].by
      /\ DOMAIN orders'[id] = {"means", "state", "done", "by"}
  BY <1>1 DEF Trade, TrailTypes
<1>4. TrailTypes'
  BY <1>1, <1>2, <1>3 DEF TrailTypes
<1>5. ASSUME NEW b \in A PROVE Booked(b)' /\ Owned(b)'
  <2>1. Booked(b)'
    BY <1>1, <1>2, BookedKept, NotedKept
  <2>2. Placed(b)' <=> Placed(b)
    BY <1>3 DEF Placed
  <2>3. Placed(b) => /\ orders'[OrderOf[b]].by = orders[OrderOf[b]].by
                     /\ orders'[OrderOf[b]].state \in OrderStates
    BY <1>1, <1>3 DEF Owned, Placed, OrderStates, Live
  <2>4. Owned(b)'
    BY <2>2, <2>3, <1>1, <1>2, OwnedKept
  <2> QED
    BY <2>1, <2>4
<1>6. NoStrays'
  BY <1>1, <1>3 DEF NoStrays
<1>7. LedgerFollows'
  <2> SUFFICES ASSUME ledger # None, NEW b \in A, OrderOf[b] \in DOMAIN ledger,
                      ledger[OrderOf[b]].state \notin Live
               PROVE  ledger[OrderOf[b]].state = orders'[OrderOf[b]].state
    BY <1>1, <1>2, <1>3 DEF LedgerFollows
  <2>1. ledger[OrderOf[b]].state = orders[OrderOf[b]].state /\ OrderOf[b] \in DOMAIN orders
    BY <1>1 DEF LedgerFollows
  <2>2. OrderOf[b] # id
    BY <2>1, <1>2
  <2> QED
    BY <2>1, <2>2, <1>3
<1>8. OneAtATime'
  BY <1>1, <1>2 DEF OneAtATime, Finished
<1> QED
  BY <1>2, <1>4, <1>5, <1>6, <1>7, <1>8, LogKept DEF TrailInv

(* A result that arrives, or does not. *)
LEMMA ReportLostKeeps ==
  ASSUME TrailInv, NEW a \in A, ReportLost(a) PROVE TrailInv'
<1>1. /\ TrailTypes /\ \A b \in A : Booked(b) /\ Owned(b) /\ OneAtATime
  BY DEF TrailInv
<1>2. /\ reply[a] # None /\ reply' = [reply EXCEPT ![a] = None]
      /\ UNCHANGED <<call, card, status, aged, did, outcome, audit, orders, ledger, contracts>>
  BY DEF ReportLost, gate
<1>3. reply'[a] = None /\ (\A b \in A : b # a => reply'[b] = reply[b]) /\ DOMAIN reply' = A
  BY <1>1, <1>2 DEF TrailTypes
<1>4. TrailTypes'
  BY <1>1, <1>2, <1>3 DEF TrailTypes
<1>5. ASSUME NEW b \in A PROVE Booked(b)' /\ Owned(b)'
  <2>1. \A kind : Noted(kind, b)' <=> Noted(kind, b)
    BY <1>2, NotedKept
  <2>2. Booked(b)'
    <3>1. CASE b = a
      <4>1. FairOutcome(a, outcome[a]) => FairOutcome(a, outcome[a])'
        BY <1>2 DEF FairOutcome
      <4>2. ~Noted("order_observed", a)
        BY <1>1, <1>2 DEF Booked
      <4> HIDE DEF FairReply, FairOutcome, Noted
      <4> QED
        BY <4>1, <4>2, <3>1, <2>1, <1>1, <1>2, <1>3 DEF Booked
    <3>2. CASE b # a
      BY <3>2, <2>1, <1>1, <1>2, <1>3, BookedKept
    <3> QED
      BY <3>1, <3>2
  <2>3. Owned(b)'
    BY <1>1, <1>2 DEF Owned, Placed
  <2> QED
    BY <2>2, <2>3
<1>6. OneAtATime'
  <2>1. \A x \in A : Finished(x) => Finished(x)'
    BY <1>2, <1>3 DEF Finished
  <2> QED
    BY <2>1, <1>2, OneAtATimeKept
<1> QED
  BY <1>2, <1>4, <1>5, <1>6, BrokerKept, LogKept DEF TrailInv

LEMMA ObserveKeeps ==
  ASSUME TrailInv, NEW a \in A, Observe(a) PROVE TrailInv'
<1>1. /\ TrailTypes /\ \A b \in A : Booked(b) /\ Owned(b)
      /\ OneAtATime /\ AuditOrdered
  BY DEF TrailInv
<1> DEFINE o == parseOrderResult(reply[a], call[a].tool)
<1>2. /\ reply[a] # None /\ reply' = [reply EXCEPT ![a] = None]
      /\ outcome' = [outcome EXCEPT ![a] = o]
      /\ audit' = Append(audit, Entry("order_observed", a))
      /\ UNCHANGED <<call, card, status, aged, did, orders, ledger, contracts>>
  BY DEF Observe, gate
<1>3. did[a] # "unsent" /\ did[a] \in Deeds /\ status[a] = "approved" /\ FairReply(a, reply[a])
      /\ Noted("order_intent", a) /\ Noted("approval_decision", a) /\ ~Noted("order_observed", a)
  BY <1>1, <1>2 DEF Booked, TrailTypes
<1>4. FairOutcome(a, o)
  <2>1. call[a].means.act = ActOf(call[a].tool)
    BY <1>3, CallAsNamed
  <2> QED
    BY <2>1, <1>3, OutcomeFair
<1> HIDE DEF o
<1>5. /\ reply'[a] = None /\ outcome'[a] = o
      /\ \A b \in A : b # a => reply'[b] = reply[b] /\ outcome'[b] = outcome[b]
      /\ DOMAIN reply' = A /\ DOMAIN outcome' = A
  BY <1>1, <1>2 DEF TrailTypes
<1>6. /\ audit' \in Seq([kind : EntryKinds, approvalId : A]) /\ AuditOrdered'
      /\ \A k, b : Noted(k, b)' <=> Noted(k, b) \/ (k = "order_observed" /\ b = a)
  <2>1. \A b \in A : Rank(a) < Rank(b) => status[b] = "none"
    BY <1>2, <1>3, NoneLater DEF Finished
  <2>2. \A k \in EntryKinds : Noted(k, a) => KindNo(k) < KindNo("order_observed")
    BY <1>3 DEF EntryKinds, KindNo
  <2>3. \A i \in DOMAIN audit : Precedes(audit[i], Entry("order_observed", a))
    BY <2>1, <2>2, MayWrite DEF EntryKinds
  <2> QED
    BY <2>3, <1>1, <1>2, Written DEF EntryKinds, TrailTypes
<1>7. TrailTypes'
  BY <1>1, <1>2, <1>5, <1>6 DEF TrailTypes
<1>8. ASSUME NEW b \in A PROVE Booked(b)' /\ Owned(b)'
  <2>1. CASE b = a
    <3>1. FairOutcome(a, outcome[a])'
      BY <1>2, <1>4, <1>5 DEF FairOutcome
    <3>2. Noted("order_intent", a)' /\ Noted("approval_decision", a)' /\ Noted("order_observed", a)'
      BY <1>3, <1>6
    <3>3. Booked(a)'
      <4> HIDE DEF FairReply, FairOutcome, Noted
      <4> QED
        BY <3>1, <3>2, <1>1, <1>2, <1>3, <1>5 DEF Booked
    <3>4. Owned(a)'
      BY <1>1, <1>2 DEF Owned, Placed
    <3> QED
      BY <3>3, <3>4, <2>1
  <2>2. CASE b # a
    <3>1. \A kind \in EntryKinds : Noted(kind, b)' <=> Noted(kind, b)
      BY <1>6, <2>2
    <3>2. Booked(b)'
      BY <3>1, <2>2, <1>1, <1>2, <1>5, BookedKept
    <3>3. Owned(b)'
      BY <1>1, <1>2 DEF Owned, Placed
    <3> QED
      BY <3>2, <3>3
  <2> QED
    BY <2>1, <2>2
<1>9. OneAtATime'
  <2>1. \A x \in A : Finished(x) => Finished(x)'
    BY <1>2, <1>5 DEF Finished
  <2> QED
    BY <2>1, <1>2, OneAtATimeKept
<1> QED
  BY <1>2, <1>6, <1>7, <1>8, <1>9, BrokerKept DEF TrailInv

LEMMA PollKeeps ==
  ASSUME TrailInv, NEW brief \in BOOLEAN, Poll(brief) PROVE TrailInv'
<1>1. /\ TrailTypes /\ \A b \in A : Booked(b) /\ Owned(b)
      /\ OneAtATime /\ NoStrays
  BY DEF TrailInv
<1>2. /\ ledger' = [id \in DOMAIN orders |-> Mapped(id, orders[id], brief)]
      /\ UNCHANGED <<call, card, status, did, reply, outcome, audit, aged, orders>>
  BY DEF Poll
<1>3. TrailTypes' /\ OneAtATime' /\ NoStrays'
  BY <1>1, <1>2 DEF TrailTypes, OneAtATime, Finished, NoStrays
<1>4. ASSUME NEW b \in A PROVE Booked(b)' /\ Owned(b)'
  <2>1. Booked(b)'
    BY <1>1, <1>2, BookedKept, NotedKept
  <2>2. Owned(b)'
    BY <1>1, <1>2 DEF Owned, Placed
  <2> QED
    BY <2>1, <2>2
<1>5. LedgerFollows'
  <2>1. DOMAIN ledger' = DOMAIN orders /\ \A id \in DOMAIN orders : ledger'[id].state = orders[id].state
    BY <1>2, MappedState
  <2> QED
    BY <2>1, <1>2 DEF LedgerFollows
<1> QED
  BY <1>2, <1>3, <1>4, <1>5, LogKept DEF TrailInv

LEMMA StepsTrail == TrailInv /\ [TrailNext]_trailVars => TrailInv'
<1> SUFFICES ASSUME TrailInv, [TrailNext]_trailVars PROVE TrailInv'
  OBVIOUS
<1>1. ASSUME NEW a \in A, NEW c \in Calls[a], NEW answer \in {"none", "found", "late"},
             Propose(a, c, answer)
      PROVE  TrailInv'
  BY <1>1, ProposeKeeps
<1>2. ASSUME NEW a \in A, NEW v \in {"approved", "rejected", "expired"}, Finalize(a, v)
      PROVE  TrailInv'
  BY <1>2, FinalizeKeeps
<1>3. ASSUME NEW a \in A, Age(a) PROVE TrailInv'
  BY <1>3, QuietKeeps DEF Age
<1>4. ASSUME NEW a \in A, PlaceOrder(a) \/ Refuse(a) \/ Exercise(a) \/ Cancel(a) PROVE TrailInv'
  BY <1>4, BrokerRuns
<1>5. ASSUME NEW a \in A, Observe(a) PROVE TrailInv'
  BY <1>5, ObserveKeeps
<1>6. ASSUME NEW a \in A, ReportLost(a) PROVE TrailInv'
  BY <1>6, ReportLostKeeps
<1>7. ASSUME NEW id \in DOMAIN orders,
             NEW s \in {"partially_filled", "filled", "cancelled", "rejected", "expired"}, Trade(id, s)
      PROVE  TrailInv'
  BY <1>7, TradeKeeps
<1>8. ASSUME NEW brief \in BOOLEAN, Poll(brief) PROVE TrailInv'
  BY <1>8, PollKeeps
<1>9. CASE UNCHANGED trailVars
  BY <1>9, QuietKeeps DEF trailVars
<1> QED
  BY <1>1, <1>2, <1>3, <1>4, <1>5, <1>6, <1>7, <1>8, <1>9 DEF TrailNext

-----------------------------------------------------------------------------
LEMMA LeastOf ==
  ASSUME NEW S \in SUBSET Nat, NEW i \in S, \A j \in S : i <= j
  PROVE  Min(S) = i
<1>1. \A x \in S : (\A y \in S : x <= y) => x = i
  OBVIOUS
<1>2. \E x \in S : \A y \in S : x <= y
  OBVIOUS
<1> QED
  BY <1>1, <1>2 DEF Min

(* The Activity tab, as the bookkeeping lets it be read. *)
LEMMA FeedFacts ==
  ASSUME TrailInv
  PROVE  /\ \A i \in Feed : /\ i \in DOMAIN audit /\ i \in Nat
                            /\ audit[i].kind \in EntryKinds /\ audit[i].approvalId \in A
                            /\ Noted(audit[i].kind, audit[i].approvalId)
         /\ \A i \in Feed, j \in DOMAIN audit : i <= j => j \in Feed
         /\ DOMAIN audit \subseteq Nat
<1>1. audit \in Seq([kind : EntryKinds, approvalId : A])
  BY DEF TrailInv, TrailTypes
<1>2. DOMAIN audit = 1 .. Len(audit) /\ Len(audit) \in Nat
  BY <1>1
<1>3. \A i \in 1 .. Len(audit) : audit[i] \in [kind : EntryKinds, approvalId : A]
  BY <1>1, ElementOfSeq
<1> QED
  BY <1>2, <1>3, FeedLimitAssumption DEF Feed, Noted

LEMMA KindsFacts ==
  ASSUME TrailInv, NEW as, NEW kind
  PROVE  /\ kind \in Kinds(as) <=> \E i \in Feed : audit[i].kind = kind /\ audit[i].approvalId \in as
         /\ \A a : kind \in Kinds({a}) => kind \in EntryKinds /\ a \in A /\ Noted(kind, a) /\ a \in Keys
<1>1. kind \in Kinds(as) <=> \E i \in Feed : audit[i].kind = kind /\ audit[i].approvalId \in as
  BY DEF Kinds, EntriesOf
<1>2. ASSUME NEW a, kind \in Kinds({a}) PROVE kind \in EntryKinds /\ a \in A /\ Noted(kind, a) /\ a \in Keys
  <2>1. PICK i \in Feed : audit[i].kind = kind /\ audit[i].approvalId = a
    BY <1>2 DEF Kinds, EntriesOf
  <2> QED
    BY <2>1, FeedFacts DEF Keys
<1> QED
  BY <1>1, <1>2

LEMMA KeysFacts ==
  ASSUME TrailInv, NEW k \in Keys
  PROVE  k \in A /\ status[k] # "none" /\ Booked(k) /\ Owned(k)
<1>1. PICK i \in Feed : audit[i].approvalId = k
  BY DEF Keys
<1>2. k \in A /\ audit[i].kind \in EntryKinds /\ Noted(audit[i].kind, k)
  BY <1>1, FeedFacts
<1>3. Booked(k) /\ Owned(k)
  BY <1>2 DEF TrailInv
<1> QED
  BY <1>2, <1>3 DEF Booked, EntryKinds

(* Of two entries of the log, the one that precedes the other is further up. *)
LEMMA Further ==
  ASSUME TrailInv, NEW i \in DOMAIN audit, NEW j \in DOMAIN audit,
         \/ Rank(audit[i].approvalId) < Rank(audit[j].approvalId)
         \/ /\ audit[i].approvalId = audit[j].approvalId
            /\ KindNo(audit[i].kind) <= KindNo(audit[j].kind)
  PROVE  i <= j
<1> SUFFICES ASSUME j < i PROVE FALSE
  BY FeedFacts
<1>1. Precedes(audit[j], audit[i])
  BY DEF TrailInv, AuditOrdered
<1>2. audit[i].approvalId \in A /\ audit[j].approvalId \in A
      /\ audit[i].kind \in EntryKinds /\ audit[j].kind \in EntryKinds
  <2>1. audit \in Seq([kind : EntryKinds, approvalId : A])
    BY DEF TrailInv, TrailTypes
  <2>2. i \in 1 .. Len(audit) /\ j \in 1 .. Len(audit)
    BY <2>1
  <2>3. audit[i] \in [kind : EntryKinds, approvalId : A] /\ audit[j] \in [kind : EntryKinds, approvalId : A]
    BY <2>1, <2>2, ElementOfSeq
  <2> QED
    BY <2>3
<1>3. Rank(audit[i].approvalId) \in Nat /\ Rank(audit[j].approvalId) \in Nat
  BY <1>2, Ranks
<1>4. KindNo(audit[i].kind) \in Nat /\ KindNo(audit[j].kind) \in Nat
  BY DEF KindNo
<1> QED
  BY <1>1, <1>3, <1>4 DEF Precedes

(* Who shows an intent shows everything written since. *)
LEMMA IntentShows ==
  ASSUME TrailInv, NEW a, "order_intent" \in Kinds({a}), NEW kind \in EntryKinds, Noted(kind, a)
  PROVE  kind \in Kinds({a})
<1>1. PICK i \in Feed : audit[i].kind = "order_intent" /\ audit[i].approvalId = a
  BY KindsFacts
<1>2. PICK j \in DOMAIN audit : audit[j].kind = kind /\ audit[j].approvalId = a
  BY DEF Noted
<1>3. KindNo(audit[i].kind) <= KindNo(audit[j].kind)
  BY <1>1, <1>2 DEF KindNo
<1>4. i <= j
  BY <1>1, <1>2, <1>3, Further, FeedFacts
<1>5. j \in Feed
  BY <1>4, FeedFacts
<1> QED
  BY <1>2, <1>5, KindsFacts

(* The order id a row carries. *)
LEMMA PlacedFacts ==
  ASSUME TrailInv, NEW a \in A, placedOrderId(a) # None
  PROVE  /\ "order_observed" \in Kinds({a}) /\ Noted("order_observed", a) /\ a \in Keys
         /\ placedOrderId(a) = outcome[a].orderId
         /\ placedOrderId(a) \in {"ref", OrderOf[a]}
         /\ call[a].means.act = "place" /\ did[a] = "accepted" /\ status[a] = "approved"
         /\ Placed(a) /\ outcome[a].ok = TRUE
<1>1. "order_observed" \in Kinds({a}) /\ placedOrderId(a) = outcome[a].orderId
  BY DEF placedOrderId
<1>2. Noted("order_observed", a) /\ a \in Keys
  BY <1>1, KindsFacts
<1>3. Booked(a) /\ Owned(a)
  BY DEF TrailInv
<1>4. FairOutcome(a, outcome[a]) /\ did[a] # "unsent" /\ status[a] = "approved"
  BY <1>2, <1>3 DEF Booked
<1> QED
  BY <1>1, <1>2, <1>3, <1>4 DEF FairOutcome, Owned

LEMMA IntentKinds ==
  ASSUME TrailInv, NEW a \in A
  PROVE  /\ "order_intent" \in Kinds({a}) => intentKind(a) = call[a].means.act /\ a \in Keys
                                             /\ status[a] # "none"
         /\ "order_intent" \notin Kinds({a}) => intentKind(a) = None
<1>1. CASE "order_intent" \in Kinds({a})
  <2>1. a \in Keys
    BY <1>1, KindsFacts
  <2>2. Booked(a) /\ status[a] # "none"
    BY <2>1, KeysFacts
  <2> QED
    BY <1>1, <2>1, <2>2 DEF Booked, intentKind
<1>2. CASE "order_intent" \notin Kinds({a})
  BY <1>2 DEF intentKind
<1> QED
  BY <1>1, <1>2

(* A cancel is folded into the earlier order it names. *)
LEMMA FoldFacts ==
  ASSUME TrailInv, NEW c \in Keys, foldedInto(c) # None
  PROVE  LET k == foldedInto(c)
         IN  /\ k \in A /\ k \in Keys /\ c \in A
             /\ call[c].means.act = "cancel" /\ call[c].means.target = OrderOf[k]
             /\ intentKind(k) = "place" /\ placedOrderId(k) = OrderOf[k]
             /\ Rank(k) < Rank(c)
<1> DEFINE k == foldedInto(c)
           id == card[c].cancelsOrderId
<1>1. c \in A /\ status[c] # "none" /\ Booked(c)
  BY KeysFacts
<1>2. intentKind(c) = "cancel" /\ id # None /\ PlacedAs(id) # {} /\ k = CHOOSE x \in PlacedAs(id) : TRUE
  BY DEF foldedInto
<1>3. k \in PlacedAs(id)
  BY <1>2
<1> HIDE DEF k
<1>4. k \in Keys /\ intentKind(k) = "place" /\ placedOrderId(k) = id
  BY <1>3 DEF PlacedAs
<1>5. k \in A
  BY <1>4, KeysFacts
<1>6. call[c].means.act = "cancel"
  BY <1>1, <1>2, IntentKinds, NoneApart
<1>7. id = call[c].means.target /\ call[c] \in Calls[c]
  BY <1>1, <1>6 DEF Booked
<1>8. PICK i \in DOMAIN Approvals : Approvals[i] = c /\ i = Rank(c)
  BY <1>1, Ranks
<1>9. call[c].means.target # "ref"
      /\ \A j \in DOMAIN Approvals : i <= j => call[c].means.target # OrderOf[Approvals[j]]
  <2>1. call[c] \in Calls[Approvals[i]]
    BY <1>7, <1>8
  <2> QED
    BY <2>1, CallsAssumption
<1>10. id = OrderOf[k]
  <2>1. placedOrderId(k) \in {"ref", OrderOf[k]}
    BY <1>2, <1>4, <1>5, PlacedFacts
  <2> QED
    BY <2>1, <1>4, <1>7, <1>9
<1>11. Rank(k) < Rank(c)
  <2>1. Rank(k) \in DOMAIN Approvals /\ Rank(k) \in Nat /\ Approvals[Rank(k)] = k /\ Rank(c) \in Nat
    BY <1>1, <1>5, Ranks
  <2>2. ~(i <= Rank(k))
    BY <2>1, <1>7, <1>9, <1>10
  <2> QED
    BY <2>1, <2>2, <1>8
<1> QED
  BY <1>1, <1>4, <1>5, <1>6, <1>7, <1>10, <1>11 DEF k

LEMMA MembersFacts ==
  ASSUME TrailInv, NEW k \in Keys
  PROVE  /\ Members(k) \subseteq A /\ k \in Members(k)
         /\ \A c \in Members(k) : c # k =>
              /\ call[c].means.act = "cancel" /\ Rank(k) < Rank(c)
              /\ intentKind(k) = "place" /\ placedOrderId(k) = OrderOf[k]
<1>1. k \in A /\ k # None
  BY KeysFacts, ApprovalsAssumption
<1>2. ASSUME NEW c \in Members(k), c # k
      PROVE  /\ c \in A /\ call[c].means.act = "cancel" /\ Rank(k) < Rank(c)
             /\ intentKind(k) = "place" /\ placedOrderId(k) = OrderOf[k]
  <2>1. c \in Keys /\ foldedInto(c) = k
    BY <1>2 DEF Members
  <2> QED
    BY <2>1, <1>1, FoldFacts
<1> QED
  BY <1>1, <1>2 DEF Members

(* A row speaks of its own order. *)
LEMMA SpeaksWell ==
  ASSUME TrailInv, NEW k \in Keys, NEW kind \in {"order_observed", "approval_decision"}
  PROVE  Speaks(k, kind) = IF kind \in Kinds({k}) THEN k ELSE None
<1> DEFINE told == {i \in EntriesOf(Members(k)) : audit[i].kind = kind}
<1>1. told = {i \in Feed : audit[i].approvalId \in Members(k) /\ audit[i].kind = kind}
  BY DEF EntriesOf
<1>2. Speaks(k, kind) = IF told = {} THEN None ELSE audit[Min(told)].approvalId
  BY DEF Speaks
<1> HIDE DEF told
<1>3. CASE kind \in Kinds({k})
  <2>1. PICK i \in Feed : audit[i].kind = kind /\ audit[i].approvalId = k
    BY <1>3, KindsFacts
  <2>2. i \in told /\ i \in Nat
    BY <2>1, <1>1, MembersFacts, FeedFacts
  <2>3. ASSUME NEW j \in told PROVE i <= j
    <3>1. j \in Feed /\ audit[j].approvalId \in Members(k) /\ audit[j].kind = kind
      BY <2>3, <1>1
    <3>2. Rank(audit[i].approvalId) < Rank(audit[j].approvalId) \/ audit[j].approvalId = k
      BY <3>1, <2>1, MembersFacts
    <3>3. KindNo(audit[i].kind) <= KindNo(audit[j].kind)
      BY <3>1, <2>1 DEF KindNo
    <3> QED
      BY <3>1, <3>2, <3>3, <2>1, Further, FeedFacts
  <2>4. told \subseteq Nat
    BY <1>1, FeedFacts
  <2>5. Min(told) = i
    BY <2>2, <2>3, <2>4, LeastOf
  <2> QED
    BY <2>1, <2>2, <2>5, <1>2, <1>3
<1>4. CASE kind \notin Kinds({k})
  <2>1. told = {}
    <3> SUFFICES ASSUME NEW j \in told PROVE FALSE
      OBVIOUS
    <3>1. j \in Feed /\ audit[j].approvalId \in Members(k) /\ audit[j].kind = kind
      BY <1>1
    <3>2. audit[j].approvalId # k
      BY <3>1, <1>4, KindsFacts
    <3>3. intentKind(k) = "place" /\ placedOrderId(k) = OrderOf[k] /\ k \in A
      BY <3>1, <3>2, MembersFacts, KeysFacts
    <3>4. "order_intent" \in Kinds({k})
      BY <3>3, IntentKinds, NoneApart
    <3>5. placedOrderId(k) # None
      BY <3>3, OrderIdsAssumption
    <3>6. Noted("order_observed", k) /\ status[k] = "approved"
      BY <3>3, <3>5, PlacedFacts
    <3>7. Noted("approval_decision", k)
      BY <3>3, <3>6 DEF TrailInv, Booked
    <3> QED
      BY <3>4, <3>6, <3>7, <1>4, IntentShows DEF EntryKinds
  <2> QED
    BY <2>1, <1>2, <1>4
<1> QED
  BY <1>3, <1>4

LEMMA IntentOfRow ==
  ASSUME TrailInv, NEW k \in Keys
  PROVE  "order_intent" \in Kinds(Members(k)) <=> "order_intent" \in Kinds({k})
<1>1. ASSUME "order_intent" \in Kinds(Members(k)) PROVE "order_intent" \in Kinds({k})
  <2>1. PICK i \in Feed : audit[i].kind = "order_intent" /\ audit[i].approvalId \in Members(k)
    BY <1>1, KindsFacts
  <2>2. CASE audit[i].approvalId = k
    BY <2>1, <2>2, KindsFacts
  <2>3. CASE audit[i].approvalId # k
    BY <2>1, <2>3, MembersFacts, IntentKinds, NoneApart, KeysFacts
  <2> QED
    BY <2>2, <2>3
<1>2. ASSUME "order_intent" \in Kinds({k}) PROVE "order_intent" \in Kinds(Members(k))
  <2>1. PICK i \in Feed : audit[i].kind = "order_intent" /\ audit[i].approvalId = k
    BY <1>2, KindsFacts
  <2> QED
    BY <2>1, MembersFacts, KindsFacts
<1> QED
  BY <1>1, <1>2

(* The state of a row, read off its own card. *)
OwnState(k) ==
  LET ok      == IF "order_observed" \in Kinds({k}) THEN outcome[k].ok ELSE None
      verdict == IF "approval_decision" \in Kinds({k}) THEN status[k] ELSE "none"
      denied  == ok = FALSE \/ verdict \in {"rejected", "expired"}
  IN  IF "order_intent" \notin Kinds({k}) THEN "other"
      ELSE IF StatusOf(k) # None THEN fromRhState(StatusOf(k).state)
      ELSE IF intentKind(k) = "exercise"
           THEN IF ok = TRUE THEN "filled" ELSE IF denied THEN "failed"
                ELSE IF verdict = "approved" THEN "working" ELSE "proposed"
      ELSE IF denied THEN "failed"
      ELSE IF orderIdByApproval(k) # None \/ ok = TRUE THEN "working"
      ELSE IF verdict # "approved" THEN "proposed"
      ELSE IF k \notin aged THEN "working"
      ELSE IF ledger # None THEN "failed" ELSE "unknown"

LEMMA RowReads == ASSUME TrailInv, NEW k \in Keys PROVE orderState(k) = OwnState(k)
<1>1. Speaks(k, "order_observed") = IF "order_observed" \in Kinds({k}) THEN k ELSE None
  BY SpeaksWell
<1>2. Speaks(k, "approval_decision") = IF "approval_decision" \in Kinds({k}) THEN k ELSE None
  BY SpeaksWell
<1>3. k # None
  BY KeysFacts, ApprovalsAssumption
<1>4. "order_intent" \in Kinds(Members(k)) <=> "order_intent" \in Kinds({k})
  BY IntentOfRow
<1> QED
  BY <1>1, <1>2, <1>3, <1>4 DEF orderState, OwnState

(* What a row says of the order of its card. *)
LEMMA StatusFacts ==
  ASSUME TrailInv, NEW k \in Keys, StatusOf(k) # None
  PROVE  /\ orderIdByApproval(k) = OrderOf[k] /\ Placed(k) /\ ledger # None
         /\ StatusOf(k) = ledger[OrderOf[k]] /\ OrderOf[k] \in DOMAIN ledger
         /\ call[k].means.act = "place"
         /\ orders[OrderOf[k]].state \in OrderStates
         /\ StatusOf(k).state \in Live \/ StatusOf(k).state = orders[OrderOf[k]].state
<1>1. k \in A /\ Owned(k)
  BY KeysFacts
<1> DEFINE id == orderIdByApproval(k)
<1>2. id # None /\ StatusOf(k) = Target(id)
  BY DEF StatusOf
<1>3. ledger # None /\ id \in DOMAIN ledger /\ StatusOf(k) = ledger[id]
  BY <1>2 DEF Target
<1>4. id \in {"ref", OrderOf[k]} /\ Placed(k) /\ call[k].means.act = "place"
  BY <1>1, <1>2, PlacedFacts DEF orderIdByApproval
<1>5. id \in DOMAIN orders
  BY <1>3 DEF TrailInv, LedgerFollows
<1>6. "ref" \notin DOMAIN orders
  BY OrderIdsAssumption DEF TrailInv, NoStrays
<1>7. id = OrderOf[k]
  BY <1>4, <1>5, <1>6
<1>8. ledger[OrderOf[k]].state \in Live \/ ledger[OrderOf[k]].state = orders[OrderOf[k]].state
  BY <1>1, <1>3, <1>7 DEF TrailInv, LedgerFollows
<1> QED
  BY <1>1, <1>3, <1>4, <1>7, <1>8 DEF Owned

LEMMA PlaceRow ==
  ASSUME TrailInv, NEW k \in Keys, call[k].means.act = "place"
  PROVE  LET o == orders[OrderOf[k]]
             row == orderState(k)
         IN  /\ row = "filled" => Placed(k) /\ o.state = "filled"
             /\ row = "failed" /\ Placed(k) => ~Recorded(k) \/ o.state \in {"cancelled", "rejected"}
             /\ row = "working" /\ Recorded(k) /\ UpToDate(OrderOf[k]) =>
                  o.state \in Live \cup {"expired"}
<1> DEFINE o == orders[OrderOf[k]]
           row == OwnState(k)
<1>1. k \in A /\ Booked(k) /\ Owned(k) /\ status[k] # "none"
  BY KeysFacts
<1>2. orderState(k) = row
  BY RowReads
<1>3. intentKind(k) # "exercise"
  BY <1>1, IntentKinds, NoneApart
<1>4. CASE StatusOf(k) # None
  <2>1. row \in {"other", fromRhState(StatusOf(k).state)}
    BY <1>4 DEF OwnState
  <2>2. /\ Placed(k) /\ o.state \in OrderStates /\ StatusOf(k) = Target(OrderOf[k])
        /\ StatusOf(k).state \in Live \/ StatusOf(k).state = o.state
    BY <1>4, StatusFacts DEF Target
  <2>3. row = "filled" => o.state = "filled"
    BY <2>1, <2>2 DEF fromRhState, OrderStates, Live
  <2>4. row = "failed" => o.state \in {"cancelled", "rejected"}
    BY <2>1, <2>2 DEF fromRhState, OrderStates, Live
  <2>5. row = "working" /\ UpToDate(OrderOf[k]) => o.state \in Live \cup {"expired"}
    BY <2>1, <2>2 DEF fromRhState, OrderStates, Live, UpToDate
  <2> QED
    BY <1>2, <2>2, <2>3, <2>4, <2>5
<1>5. CASE StatusOf(k) = None
  <2>1. row # "filled"
    BY <1>3, <1>5 DEF OwnState
  <2>2. ASSUME Recorded(k) PROVE row # "failed"
    <3>1. /\ "order_observed" \in Kinds({k}) /\ orderIdByApproval(k) = OrderOf[k] /\ OrderOf[k] # None
      BY <2>2, <1>1, OrderIdsAssumption DEF Recorded, orderIdByApproval, placedOrderId
    <3>2. outcome[k].ok = TRUE /\ status[k] = "approved"
      BY <3>1, <1>1, PlacedFacts DEF orderIdByApproval
    <3> QED
      BY <3>1, <3>2, <1>3, <1>5 DEF OwnState
  <2>3. ~(Recorded(k) /\ UpToDate(OrderOf[k]))
    <3> SUFFICES ASSUME Recorded(k), UpToDate(OrderOf[k]) PROVE FALSE
      OBVIOUS
    <3>1. orderIdByApproval(k) = OrderOf[k] /\ OrderOf[k] # None
      BY <1>1, OrderIdsAssumption DEF Recorded, orderIdByApproval, placedOrderId
    <3> QED
      BY <3>1, <1>5 DEF StatusOf, UpToDate
  <2> QED
    BY <1>2, <2>1, <2>2, <2>3
<1> QED
  BY <1>4, <1>5

LEMMA OtherRow ==
  ASSUME TrailInv, NEW k \in Keys
  PROVE  /\ call[k].means.act = "exercise" =>
             /\ orderState(k) = "filled" => did[k] = "accepted"
             /\ orderState(k) = "failed" => did[k] # "accepted"
         /\ call[k].means.act = "cancel" /\ orderState(k) = "failed" =>
             did[k] # "accepted" \/ outcome[k] = None
<1> SUFFICES ASSUME call[k].means.act # "place"
             PROVE  /\ call[k].means.act = "exercise" =>
                        /\ orderState(k) = "filled" => did[k] = "accepted"
                        /\ orderState(k) = "failed" => did[k] # "accepted"
                    /\ call[k].means.act = "cancel" /\ orderState(k) = "failed" =>
                        did[k] # "accepted" \/ outcome[k] = None
  OBVIOUS
<1>1. k \in A /\ Booked(k) /\ status[k] # "none"
  BY KeysFacts
<1>2. StatusOf(k) = None /\ orderIdByApproval(k) = None
  BY <1>1, StatusFacts, PlacedFacts DEF orderIdByApproval
<1>3. orderState(k) = OwnState(k)
  BY RowReads
<1> DEFINE ok == IF "order_observed" \in Kinds({k}) THEN outcome[k].ok ELSE None
           verdict == IF "approval_decision" \in Kinds({k}) THEN status[k] ELSE "none"
<1>4. ok # None => did[k] \in {"accepted", "refused"} /\ (ok = TRUE <=> did[k] = "accepted")
                   /\ (ok = FALSE <=> did[k] = "refused")
  <2> SUFFICES ASSUME ok # None
               PROVE did[k] \in {"accepted", "refused"} /\ (ok = TRUE <=> did[k] = "accepted")
                     /\ (ok = FALSE <=> did[k] = "refused")
    OBVIOUS
  <2>1. "order_observed" \in Kinds({k}) /\ ok = outcome[k].ok
    OBVIOUS
  <2>2. FairOutcome(k, outcome[k]) /\ did[k] # "unsent"
    BY <1>1, <2>1, KindsFacts DEF Booked
  <2>3. did[k] \in Deeds
    BY <1>1 DEF TrailInv, TrailTypes
  <2> QED
    BY <2>1, <2>2, <2>3 DEF FairOutcome, Deeds
<1>5. verdict \in {"rejected", "expired"} => did[k] = "unsent"
  BY <1>1 DEF Booked
<1>6. "order_observed" \in Kinds({k}) => ok # None
  <2> SUFFICES ASSUME "order_observed" \in Kinds({k}) PROVE ok # None
    OBVIOUS
  <2>1. FairOutcome(k, outcome[k]) /\ did[k] # "unsent"
    BY <1>1, KindsFacts DEF Booked
  <2>2. did[k] \in Deeds
    BY <1>1 DEF TrailInv, TrailTypes
  <2> QED
    BY <2>1, <2>2, NoneApart DEF FairOutcome, Deeds
<1>7. CASE call[k].means.act = "exercise"
  <2>1. OwnState(k) \in {"filled", "failed"} => intentKind(k) = "exercise"
    BY <1>1, <1>7, IntentKinds DEF OwnState
  <2>2. OwnState(k) = "filled" => ok = TRUE
    BY <2>1, <1>2 DEF OwnState
  <2>3. OwnState(k) = "failed" => ok = FALSE \/ verdict \in {"rejected", "expired"}
    BY <2>1, <1>2 DEF OwnState
  <2> HIDE DEF ok, verdict
  <2> QED
    BY <2>2, <2>3, <1>3, <1>4, <1>5, <1>7, NoneApart
<1>8. CASE call[k].means.act = "cancel"
  <2>1. OwnState(k) = "failed" => "order_intent" \in Kinds({k}) /\ intentKind(k) # "exercise"
    BY <1>1, <1>8, IntentKinds DEF OwnState
  <2>2. OwnState(k) = "failed" => ok = FALSE \/ verdict \in {"rejected", "expired"} \/ ok # TRUE
    BY <2>1, <1>2 DEF OwnState
  <2>3. OwnState(k) = "failed" /\ ok = None => outcome[k] = None
    <3> SUFFICES ASSUME OwnState(k) = "failed", ok = None PROVE outcome[k] = None
      OBVIOUS
    <3>1. "order_observed" \notin Kinds({k}) /\ "order_intent" \in Kinds({k})
      BY <1>6, <2>1
    <3>2. ~Noted("order_observed", k)
      BY <3>1, IntentShows DEF EntryKinds
    <3> QED
      BY <3>2, <1>1 DEF Booked
  <2> HIDE DEF ok, verdict
  <2> QED
    BY <2>2, <2>3, <1>3, <1>4, <1>5, <1>8
<1> QED
  BY <1>7, <1>8

LEMMA StageFacts ==
  ASSUME TrailInv, NEW i \in Feed
  PROVE  LET b == audit[i].approvalId
             says == describe(audit[i])
         IN  /\ says \in {"taken_by_broker", "cancel_accepted"} => did[b] = "accepted"
             /\ says = "cancel_refused" => did[b] = "refused"
             /\ says = "rejected_by_broker" => did[b] # "accepted"
<1> DEFINE b == audit[i].approvalId
           says == describe(audit[i])
<1>1. b \in A /\ Noted(audit[i].kind, b) /\ audit[i].kind \in EntryKinds
  BY FeedFacts
<1>2. Booked(b) /\ status[b] \in Statuses /\ did[b] \in Deeds
  BY <1>1 DEF TrailInv, TrailTypes
<1>3. CASE audit[i].kind # "order_observed"
  <2>1. says \in {"proposed"} \cup Statuses
    BY <1>1, <1>2, <1>3 DEF describe, EntryKinds
  <2> QED
    BY <2>1 DEF Statuses
<1>4. CASE audit[i].kind = "order_observed"
  <2>1. FairOutcome(b, outcome[b]) /\ did[b] \in {"accepted", "refused"} /\ status[b] # "none"
    BY <1>1, <1>2, <1>4 DEF Booked, Deeds
  <2>2. call[b].means.act = ActOf(call[b].tool)
    BY <1>1, <2>1, CallAsNamed
  <2>3. call[b].means.act = "cancel" <=> isCancelTool(b)
    BY <2>2 DEF ActOf, isCancelTool
  <2>5. CASE isCancelTool(b)
    <3>1. outcome[b].ok = (did[b] = "accepted")
      BY <2>1, <2>3, <2>5 DEF FairOutcome
    <3>2. outcome[b].ok # None
      BY <3>1, NoneApart
    <3>3. says = IF outcome[b].ok THEN "cancel_accepted" ELSE "cancel_refused"
      BY <1>4, <2>5, <3>2 DEF describe
    <3> QED
      BY <3>1, <3>3, <2>1
  <2>6. CASE ~isCancelTool(b)
    <3>1. says = IF outcome[b].ok = None THEN "result"
                 ELSE IF outcome[b].ok THEN "taken_by_broker" ELSE "rejected_by_broker"
      BY <1>4, <2>6 DEF describe
    <3>2. CASE did[b] = "refused"
      <4>1. outcome[b].ok = FALSE /\ outcome[b].ok # None
        BY <2>1, <3>2, NoneApart DEF FairOutcome
      <4> QED
        BY <3>1, <3>2, <4>1
    <3>3. CASE did[b] = "accepted"
      <4>1. outcome[b].ok \in {TRUE, None}
        BY <2>1, <3>3 DEF FairOutcome
      <4> QED
        BY <3>1, <3>3, <4>1, NoneApart
    <3> QED
      BY <3>2, <3>3, <2>1
  <2> QED
    BY <2>5, <2>6
<1> QED
  BY <1>3, <1>4

(* A row and its timeline tell the truth of the broker. *)
LEMMA RowsTruthful == ASSUME TrailInv PROVE RowTellsTheTruth
<1> SUFFICES ASSUME NEW k \in groupActivity
             PROVE  LET o == orders[OrderOf[k]]
                        row == orderState(k)
                    IN  /\ call[k].means.act = "place" =>
                             /\ row = "filled" => Placed(k) /\ o.state = "filled"
                             /\ row = "failed" /\ Placed(k) =>
                                  ~Recorded(k) \/ o.state \in {"cancelled", "rejected"}
                             /\ row = "working" /\ Recorded(k) /\ UpToDate(OrderOf[k]) =>
                                  o.state \in Live \cup {"expired"}
                        /\ call[k].means.act = "exercise" =>
                             /\ row = "filled" => did[k] = "accepted"
                             /\ row = "failed" => did[k] # "accepted"
                        /\ call[k].means.act = "cancel" /\ row = "failed" =>
                             did[k] # "accepted" \/ outcome[k] = None
                        /\ \A st \in stagesFor(k) :
                             /\ st.says \in {"taken_by_broker", "cancel_accepted"} =>
                                  did[st.of] = "accepted"
                             /\ st.says = "cancel_refused" => did[st.of] = "refused"
                             /\ st.says = "rejected_by_broker" =>
                                  closer(k) \/ did[st.of] # "accepted"
  BY DEF RowTellsTheTruth
<1>1. k \in Keys
  BY DEF groupActivity
<1>2. ASSUME NEW st \in stagesFor(k)
      PROVE  /\ st.says \in {"taken_by_broker", "cancel_accepted"} => did[st.of] = "accepted"
             /\ st.says = "cancel_refused" => did[st.of] = "refused"
             /\ st.says = "rejected_by_broker" => closer(k) \/ did[st.of] # "accepted"
  <2>1. CASE closer(k) /\ st = [of |-> k, says |-> "rejected_by_broker"]
    BY <2>1
  <2>2. CASE \E i \in EntriesOf(Members(k)) :
               st = [of |-> audit[i].approvalId, says |-> describe(audit[i])]
    <3>1. PICK i \in Feed : st = [of |-> audit[i].approvalId, says |-> describe(audit[i])]
      BY <2>2 DEF EntriesOf
    <3>2. st.of = audit[i].approvalId /\ st.says = describe(audit[i])
      BY <3>1
    <3> QED
      BY <3>2, StageFacts
  <2> QED
    BY <2>1, <2>2 DEF stagesFor
<1>3. CASE call[k].means.act = "place"
  BY <1>1, <1>2, <1>3, PlaceRow
<1>4. CASE call[k].means.act # "place"
  BY <1>1, <1>2, <1>4, OtherRow
<1> QED
  BY <1>3, <1>4

(* Only one row carries the id of an order, the one of the card that placed it. *)
LEMMA ShownRows ==
  ASSUME TrailInv, NEW id \in DOMAIN orders, NEW k \in Keys, orderIdByApproval(k) = id
  PROVE  k \in groupActivity /\ id = OrderOf[k] /\ orders[id].by = k
<1>1. k \in A /\ Owned(k)
  BY KeysFacts
<1>2. id \notin {"ref", None}
  BY OrderIdsAssumption DEF TrailInv, NoStrays
<1>3. id = OrderOf[k] /\ call[k].means.act = "place" /\ Placed(k)
  BY <1>1, <1>2, PlacedFacts DEF orderIdByApproval
<1>4. intentKind(k) # "cancel"
  BY <1>1, <1>3, IntentKinds, NoneApart
<1> QED
  BY <1>1, <1>3, <1>4 DEF foldedInto, groupActivity, Owned

LEMMA ShownOnce == ASSUME TrailInv PROVE EachOrderShownOnce
<1>1. ASSUME ledger # None, NEW id \in DOMAIN ledger
      PROVE  LET shown == {k \in groupActivity : orderIdByApproval(k) = id}
             IN  /\ Cardinality(shown) + (IF id \in External THEN 1 ELSE 0) = 1
                 /\ shown \subseteq {orders[id].by}
  <2> DEFINE shown == {k \in groupActivity : orderIdByApproval(k) = id}
  <2>1. id \in DOMAIN orders
    BY <1>1 DEF TrailInv, LedgerFollows
  <2>2. shown = {k \in Keys : orderIdByApproval(k) = id}
    BY <2>1, ShownRows DEF groupActivity
  <2>3. shown \subseteq {orders[id].by}
    BY <2>1, <2>2, ShownRows
  <2>4. id \in External <=> shown = {}
    BY <1>1, <2>2 DEF External
  <2> HIDE DEF shown
  <2>5. Cardinality(shown) + (IF id \in External THEN 1 ELSE 0) = 1
    <3>1. CASE shown = {}
      <4>1. Cardinality(shown) = 0
        BY <3>1, FS_EmptySet
      <4>2. id \in External
        BY <2>4, <3>1
      <4> QED
        BY <4>1, <4>2
    <3>2. CASE shown # {}
      <4>1. shown = {orders[id].by}
        BY <2>3, <3>2
      <4>2. Cardinality(shown) = 1
        BY <4>1, FS_Singleton
      <4>3. id \notin External
        BY <2>4, <3>2
      <4> QED
        BY <4>2, <4>3
    <3> QED
      BY <3>1, <3>2
  <2> QED
    BY <2>3, <2>5 DEF shown
<1>2. ASSUME NEW c \in Keys, foldedInto(c) # None
      PROVE  call[c].means.target = OrderOf[foldedInto(c)]
  BY <1>2, FoldFacts
<1> QED
  BY <1>1, <1>2 DEF EachOrderShownOnce

(***************************************************************************)
(* The rows of the Activity tab tell the truth, whatever the calls, the    *)
(* accounts, the ids and the length of the feed: green, red and amber are  *)
(* what the broker's order is, a stage says what the broker did, and each  *)
(* order of the cached ledger has exactly one row, its cancels within.     *)
(***************************************************************************)
THEOREM RowsHold == TrailSpec => []RowsTrue
<1>1. TrailInit => TrailInv
  BY InitTrail
<1>2. TrailInv /\ [TrailNext]_trailVars => TrailInv'
  BY StepsTrail
<1>3. TrailInv => RowsTrue
  BY RowsTruthful, ShownOnce DEF RowsTrue
<1> QED
  BY <1>1, <1>2, <1>3, PTL DEF TrailSpec

-----------------------------------------------------------------------------
(***************************************************************************)
(* What the cards tell.  The second invariant: whatever the host knows of  *)
(* orders and contracts is so, and each card was drawn from that.          *)
(***************************************************************************)
(* c is what is known of contract id, some of its fields perhaps not yet. *)
Known(c, id) ==
  /\ id \in DOMAIN Facts /\ DOMAIN c = Fields
  /\ \A x \in Fields : Fair(c[x], Facts[id][x])
  /\ c.multiplier = Facts[id].multiplier

(* s is how the ledger shows an order that means m. *)
Lists(s, m) ==
  /\ s.assetType = m.asset /\ s.symbol = m.symbol /\ s.side = m.side
  /\ s.quantity = m.qty /\ s.limitPrice = m.price /\ s.dollarAmount \in {None, m.dollars}
  /\ m.asset = "option" => s.multiplier = Multiplier(m)

OrdersMeant == \A id \in DOMAIN orders : WellFormed(orders[id].means)
ContractsKnown == \A id \in DOMAIN contracts : Known(contracts[id], id)
LedgerTells == ledger # None => \A id \in DOMAIN ledger : Lists(ledger[id], orders[id].means)
CardsTell ==
  \A a \in A : IF status[a] = "none" THEN card[a] = None
               ELSE Tells(card[a], call[a].means, Aimed(call[a].means))

CardInv == OrdersMeant /\ ContractsKnown /\ LedgerTells /\ CardsTell

(* Reading a number, a word or a ticker. *)
LEMMA ReadNumber ==
  ASSUME NEW v \in Numbers, NEW said, NEW x, SaysNumber(said, v),
         said = {} => x = None, said # {} => x \in said
  PROVE  numv(x) = v
<1>1. v # Garbage /\ None # Garbage
  BY NoneAssumption DEF Numbers
<1> QED
  BY <1>1 DEF SaysNumber, numv

LEMMA NoneIsNoWord == None \notin DOMAIN Lower /\ None \notin DOMAIN Upper /\ None \notin DOMAIN Coin
BY NoneAssumption DEF Words

LEMMA ReadWord ==
  ASSUME NEW v, NEW said, NEW x, Says({low(w) : w \in said}, v),
         said = {} => x = None, said # {} => x \in said
  PROVE  low(x) = v
<1>1. low(None) = None
  BY NoneIsNoWord DEF low
<1>2. CASE said = {}
  BY <1>1, <1>2 DEF Says
<1>3. CASE said # {}
  BY <1>3 DEF Says
<1> QED
  BY <1>2, <1>3

(* An estimate, in whichever order its factors are multiplied. *)
LEMMA Factors == \A x, y, z \in Int : (x * y) * z = (x * z) * y /\ x * y \in Int /\ (x * y) * z \in Int
<1> SUFFICES ASSUME NEW x \in Int, NEW y \in Int, NEW z \in Int
             PROVE  (x * y) * z = (x * z) * y /\ x * y \in Int /\ (x * y) * z \in Int
  OBVIOUS
<1>1. x * y \in Int
  OBVIOUS
<1>2. (x * y) * z \in Int
  BY <1>1
<1>3. (x * y) * z = (x * z) * y
  OBVIOUS
<1> QED
  BY <1>1, <1>2, <1>3

LEMMA Estimates ==
  ASSUME NEW price \in Numbers, NEW qty \in Numbers, NEW mult \in Int
  PROVE  /\ times(times(price, mult), qty) =
              IF price # None /\ qty # None THEN price * qty * mult ELSE None
         /\ times(price, qty) = IF price # None /\ qty # None THEN price * qty ELSE None
         /\ price # None /\ qty # None => price * qty * mult \in Int /\ price * qty \in Int
         /\ price # None /\ qty # None => price * qty * 1 = price * qty
<1>1. mult # None /\ None \notin Int
  BY NoneAssumption
<1>2. CASE price = None \/ qty = None
  BY <1>2 DEF times
<1>3. CASE price # None /\ qty # None
  <2>1. price \in Int /\ qty \in Int
    BY <1>3 DEF Numbers
  <2>2. /\ (price * mult) * qty = (price * qty) * mult
        /\ price * mult \in Int /\ price * qty \in Int /\ (price * qty) * mult \in Int
    BY <2>1, Factors
  <2>3. times(price, mult) = price * mult /\ price * mult # None
    BY <2>2, <1>1, <1>3 DEF times
  <2>4. times(times(price, mult), qty) = (price * mult) * qty
    BY <2>3, <1>3 DEF times
  <2>5. times(price, qty) = price * qty
    BY <1>3 DEF times
  <2>6. (price * qty) * 1 = price * qty
    BY <2>2
  <2> QED
    BY <2>2, <2>4, <2>5, <2>6, <1>3
<1> QED
  BY <1>2, <1>3

(* What an order moves. *)
LEMMA MovesOf ==
  ASSUME NEW m, m.act = "place"
  PROVE  Moves(m) = IF m.price # None /\ m.qty # None
                    THEN m.price * m.qty * Multiplier(m) ELSE m.dollars
BY DEF Moves

(* The card of an order for shares or coins. *)
LEMMA FlatTells ==
  ASSUME NEW tool, NEW o, NEW m, WellFormed(m), FlatSays(tool, o, m)
  PROVE  LET p == parseFlat(tool, o)
         IN  Tells(p, m, m) /\ p.assetType # "option" /\ p.legs = <<>> /\ p.kind = "place"
<1> DEFINE p == parseFlat(tool, o)
           raw == up(pick(o, <<"symbol", "ticker", "instrument">>))
           limit == numv(pick(o, <<"limit_price", "limitPrice", "price">>))
           quantity == numv(pick(o, <<"quantity", "qty", "shares", "amount_in_shares">>))
           dollars == numv(pick(o, <<"amount", "dollar_amount", "amount_in_dollars", "notional">>))
           symbol == IF tool \in CryptoTools /\ raw \in DOMAIN Coin THEN Coin[raw] ELSE raw
           side == low(pick(o, <<"side", "direction">>))
<1>1. m.qty \in Numbers /\ m.price \in Numbers /\ m.dollars \in Numbers /\ m.act = "place"
      /\ Multiplier(m) = 1
  BY DEF WellFormed, FlatSays, Multiplier
<1>2. limit = m.price
  BY <1>1, PickOf3, ReadNumber DEF FlatSays
<1>3. quantity = m.qty
  BY <1>1, PickOf4, ReadNumber DEF FlatSays
<1>4. dollars = m.dollars
  BY <1>1, PickOf4, ReadNumber DEF FlatSays
<1>5. side = m.side
  BY PickOf2, ReadWord DEF FlatSays
<1>6. symbol = m.symbol
  <2> DEFINE ticker(w) == IF tool \in CryptoTools /\ up(w) \in DOMAIN Coin THEN Coin[up(w)] ELSE up(w)
             said == Named(o, {"symbol", "ticker", "instrument"})
             x == pick(o, <<"symbol", "ticker", "instrument">>)
  <2>1. Says({ticker(w) : w \in said}, m.symbol)
    BY DEF FlatSays
  <2>2. (said = {} => x = None) /\ (said # {} => x \in said)
    BY PickOf3
  <2>3. symbol = ticker(x)
    OBVIOUS
  <2>4. ticker(None) = None
    BY NoneIsNoWord DEF up
  <2> HIDE DEF ticker, said, x, symbol
  <2>5. CASE said = {}
    BY <2>1, <2>2, <2>3, <2>4, <2>5 DEF Says
  <2>6. CASE said # {}
    BY <2>1, <2>2, <2>3, <2>6 DEF Says
  <2> QED
    BY <2>5, <2>6
<1>7. /\ p.kind = "place" /\ p.assetType # "option" /\ p.legs = <<>>
      /\ p.side = side /\ p.symbol = symbol /\ p.quantity = quantity /\ p.limitPrice = limit
      /\ p.estCost = Or(times(limit, quantity), dollars)
      /\ p.summary.est \in {p.estCost, None} /\ p.summary.effect = None
  <2> DEFINE flat == [Blank EXCEPT
               !.assetType = IF tool \in CryptoTools THEN "crypto" ELSE "equity",
               !.symbol = symbol, !.side = side, !.quantity = quantity,
               !.orderType = Or(low(pick(o, <<"type", "order_type", "orderType">>)), inferType(o)),
               !.limitPrice = limit,
               !.stopPrice = numv(pick(o, <<"stop_price", "stopPrice">>)),
               !.estCost = Or(times(limit, quantity), dollars)]
  <2>1. p = [flat EXCEPT !.summary = placeSummary(flat, dollars)]
    BY DEF parseFlat
  <2> HIDE DEF p, limit, quantity, dollars, symbol, side, raw
  <2>2. /\ flat.kind = "place" /\ flat.assetType # "option" /\ flat.legs = <<>>
        /\ flat.side = side /\ flat.symbol = symbol /\ flat.quantity = quantity
        /\ flat.limitPrice = limit /\ flat.estCost = Or(times(limit, quantity), dollars)
        /\ "summary" \in DOMAIN flat
    BY DEF Blank
  <2> HIDE DEF flat
  <2>3. /\ placeSummary(flat, dollars).est \in {flat.estCost, None}
        /\ placeSummary(flat, dollars).effect = None
    BY DEF placeSummary, Summary
  <2> QED
    BY <2>1, <2>2, <2>3
<1> HIDE DEF p, limit, quantity, dollars, symbol, side, raw
<1>8. p.estCost = Moves(m)
  <2>1. None \notin Int
    BY NoneAssumption
  <2>2. times(m.price, m.qty) = IF m.price # None /\ m.qty # None THEN m.price * m.qty ELSE None
    BY <1>1, Estimates
  <2>3. m.price # None /\ m.qty # None =>
          m.price * m.qty \in Int /\ m.price * m.qty * 1 = m.price * m.qty
    BY <1>1, Estimates
  <2>4. Moves(m) = IF m.price # None /\ m.qty # None THEN m.price * m.qty * 1 ELSE m.dollars
    BY <1>1, MovesOf
  <2>5. p.estCost = Or(times(m.price, m.qty), m.dollars)
    BY <1>2, <1>3, <1>4, <1>7
  <2> QED
    BY <2>1, <2>2, <2>3, <2>4, <2>5 DEF Or
<1>9. Effect(m) = None
  BY DEF FlatSays, Effect
<1> QED
  BY <1>1, <1>2, <1>3, <1>5, <1>6, <1>7, <1>8, <1>9 DEF Tells, Fair, p

(* The legs of a card are those of the order; a contract shown is its own. *)
LegsMatch(legs, m) ==
  /\ DOMAIN legs = DOMAIN m.legs /\ Len(legs) = Len(m.legs)
  /\ \A i \in DOMAIN legs :
       /\ legs[i].optionId = m.legs[i].optionId
       /\ {"optionId", "contract"} \subseteq DOMAIN legs[i]
       /\ legs[i].contract = None \/ Known(legs[i].contract, legs[i].optionId)

\* They open and close what the order says.
EffectsMatch(legs, m) ==
  \A i \in DOMAIN legs : legs[i].positionEffect = m.legs[i].positionEffect

LEMMA LegsFair ==
  ASSUME NEW p, NEW m, LegsMatch(p.legs, m)
  PROVE  FairLegs(p, m)
<1> SUFFICES ASSUME NEW i \in DOMAIN p.legs, p.legs[i].contract # None,
                    NEW x \in DOMAIN Facts[m.legs[i].optionId]
             PROVE  Fair(p.legs[i].contract[x], Facts[m.legs[i].optionId][x])
  BY DEF LegsMatch, FairLegs
<1>1. Known(p.legs[i].contract, m.legs[i].optionId)
  BY DEF LegsMatch
<1>2. DOMAIN Facts[m.legs[i].optionId] = Fields
  BY <1>1, FactsAssumption DEF Known
<1> QED
  BY <1>1, <1>2 DEF Known

(* What the legs let a card know of the chain. *)
LEMMA FirstKnown ==
  ASSUME NEW legs, NEW m, LegsMatch(legs, m), OneChain(m)
  PROVE  LET known == firstKnown(legs)
         IN  /\ known = None => \A i \in DOMAIN legs : legs[i].contract = None
             /\ known # None => /\ Fair(up(known.chainSymbol), m.symbol)
                                /\ known.multiplier = Multiplier(m) /\ known.multiplier \in Int
                                /\ \E i \in DOMAIN legs : legs[i].contract # None
<1> DEFINE there == {i \in DOMAIN legs : legs[i].contract # None}
<1>1. firstKnown(legs) = IF there = {} THEN None ELSE legs[Min(there)].contract
  BY DEF firstKnown
<1>2. CASE there = {}
  BY <1>1, <1>2
<1>3. CASE there # {}
  <2>1. there \in SUBSET Nat
    <3>1. DOMAIN m.legs = 1 .. Len(m.legs) /\ Len(m.legs) \in Nat
      BY DEF OneChain
    <3> QED
      BY <3>1 DEF LegsMatch
  <2>2. there # {}
    BY <1>3
  <2> HIDE DEF there
  <2>3. PICK i \in there : i = Min(there)
    BY <2>1, <2>2, MinMember
  <2>4. i \in DOMAIN legs /\ legs[i].contract # None /\ firstKnown(legs) = legs[i].contract
    BY <2>2, <2>3, <1>1 DEF there
  <2>5. Known(legs[i].contract, m.legs[i].optionId) /\ i \in DOMAIN m.legs
    BY <2>4 DEF LegsMatch
  <2>6. /\ Facts[m.legs[i].optionId].chainSymbol = m.symbol
        /\ Facts[m.legs[i].optionId].multiplier = Multiplier(m)
        /\ Facts[m.legs[i].optionId].multiplier \in Int
        /\ m.symbol \notin DOMAIN Upper
    BY <2>5, FactsAssumption DEF OneChain
  <2>7. Fair(legs[i].contract.chainSymbol, m.symbol)
    BY <2>5, <2>6 DEF Known, Fields
  <2>8. Fair(up(legs[i].contract.chainSymbol), m.symbol)
    BY <2>6, <2>7, NoneIsNoWord DEF Fair, up
  <2> QED
    BY <2>4, <2>5, <2>6, <2>8 DEF Known, Fields
<1> QED
  BY <1>2, <1>3

LEMMA BuildTells ==
  ASSUME NEW m, WellFormed(m), m.asset = "option",
         NEW legs, LegsMatch(legs, m), EffectsMatch(legs, m), NEW type, NEW stop, NEW direction,
         m.price # None => type \in {"limit", "stop_limit"}
  PROVE  LET p == buildOptionParsed(legs, m.qty, type, m.price, stop, direction, m.side)
         IN  /\ Tells(p, m, m)
             /\ p.kind = "place" /\ p.assetType = "option" /\ p.legs = legs /\ p.orderType = type
             /\ p.quantity = m.qty /\ p.limitPrice = m.price /\ p.side = m.side
<1> DEFINE p == buildOptionParsed(legs, m.qty, type, m.price, stop, direction, m.side)
           known == firstKnown(legs)
           mult == IF known = None THEN STANDARD_MULTIPLIER
                   ELSE Or(known.multiplier, STANDARD_MULTIPLIER)
<1>1. /\ p.kind = "place" /\ p.assetType = "option" /\ p.legs = legs /\ p.orderType = type
      /\ p.quantity = m.qty /\ p.limitPrice = m.price /\ p.side = m.side
      /\ p.symbol = IF known = None THEN None ELSE up(known.chainSymbol)
      /\ p.estCost = IF type \in {"limit", "stop_limit"}
                     THEN times(times(m.price, mult), m.qty) ELSE None
      /\ p.summary.est = p.estCost
      /\ p.summary.effect = IF Len(legs) = 1 THEN legs[1].positionEffect ELSE None
  BY DEF buildOptionParsed, Blank, optionSummary, Summary
<1>2. /\ m.act = "place" /\ m.qty \in Numbers /\ m.price \in Numbers /\ m.dollars = None
      /\ OneChain(m)
  BY DEF WellFormed
<1>3. /\ known = None => \A i \in DOMAIN legs : legs[i].contract = None
      /\ known # None => /\ Fair(up(known.chainSymbol), m.symbol)
                         /\ known.multiplier = Multiplier(m) /\ known.multiplier \in Int
                         /\ \E i \in DOMAIN legs : legs[i].contract # None
  BY <1>2, FirstKnown
<1> HIDE DEF p, known
<1>4. mult \in Int /\ (known # None => mult = Multiplier(m))
  BY <1>3, NoneAssumption DEF Or, STANDARD_MULTIPLIER
<1>5. Unscaled(p, m) \/ mult = Multiplier(m)
  BY <1>1, <1>2, <1>3, <1>4 DEF Unscaled, OneChain
<1>6. mult = Multiplier(m) => p.estCost = Moves(m)
  <2> SUFFICES ASSUME mult = Multiplier(m) PROVE p.estCost = Moves(m)
    OBVIOUS
  <2> HIDE DEF mult
  <2>1. times(times(m.price, mult), m.qty) =
          IF m.price # None /\ m.qty # None THEN m.price * m.qty * mult ELSE None
    BY <1>2, <1>4, Estimates
  <2>2. Moves(m) = IF m.price # None /\ m.qty # None THEN m.price * m.qty * mult ELSE None
    BY <1>2, MovesOf
  <2> QED
    BY <2>1, <2>2, <1>1
<1>7. Fair(p.symbol, m.symbol)
  BY <1>1, <1>3 DEF Fair
<1>8. FairLegs(p, m)
  BY <1>1, LegsFair
<1> HIDE DEF mult
<1>9. p.summary.effect = Effect(m)
  <2>1. Len(legs) = Len(m.legs) /\ DOMAIN legs = 1 .. Len(m.legs) /\ Len(m.legs) \in Nat
    BY <1>2 DEF LegsMatch, OneChain
  <2>2. Len(legs) = 1 => 1 \in DOMAIN legs
    BY <2>1
  <2> QED
    BY <2>1, <2>2, <1>1 DEF Effect, EffectsMatch
<1>10. Tells(p, m, m)
  BY <1>1, <1>2, <1>5, <1>6, <1>7, <1>8, <1>9 DEF Tells, Fair
<1> QED
  BY <1>1, <1>10 DEF p

(* A sequence has as many members as its domain says. *)
LEMMA LenOf == ASSUME NEW s, NEW n \in Nat, DOMAIN s = 1 .. n PROVE Len(s) = n
<1>1. \A k \in Nat : DOMAIN s = 1 .. k => k = n
  OBVIOUS
<1> QED
  BY <1>1

(* The card of an option order, before and after its contracts are named. *)
OptionCard(p, m) ==
  /\ Tells(p, m, m) /\ p.kind = "place" /\ p.assetType = "option"
  /\ LegsMatch(p.legs, m) /\ EffectsMatch(p.legs, m)
  /\ p.quantity = m.qty /\ p.limitPrice = m.price /\ p.side = m.side
  /\ m.price # None => p.orderType \in {"limit", "stop_limit"}

LEMMA OptionParsed ==
  ASSUME NEW o, NEW m, WellFormed(m), OptionSays(o, m)
  PROVE  OptionCard(parseOptionOrder(o), m)
<1> DEFINE raw == Or(pick(o, <<"legs">>), <<>>)
           legs == [i \in DOMAIN raw |->
                      Leg(pick(raw[i], <<"option_id", "optionId", "id">>),
                          low(pick(raw[i], <<"side">>)),
                          low(pick(raw[i], <<"position_effect", "positionEffect">>)),
                          Or(numv(pick(raw[i], <<"ratio_quantity", "ratioQuantity">>)), 1))]
           priced == pick(o, <<"price", "limit_price">>) # None
           type == Or(low(pick(o, <<"type", "order_type", "orderType">>)),
                      IF priced THEN "limit" ELSE None)
           own == IF Len(legs) = 1 THEN legs[1].side ELSE None
           direction == Or(low(pick(o, <<"direction">>)),
                           IF own = None THEN None ELSE IF own = "sell" THEN "credit" ELSE "debit")
           quantity == numv(pick(o, <<"quantity", "qty">>))
           limit == numv(pick(o, <<"price", "limit_price", "limitPrice">>))
           stop == numv(pick(o, <<"stop_price", "stopPrice">>))
           side == IF Len(legs) = 1 THEN legs[1].side ELSE direction
<1>1. parseOptionOrder(o)
        = buildOptionParsed(legs, quantity, type, limit, stop, direction, side)
  BY DEF parseOptionOrder
<1>2. /\ m.qty \in Numbers /\ m.price \in Numbers /\ OneChain(m) /\ m.asset = "option"
      /\ Len(m.legs) = 1 => m.legs[1].side = m.side
  BY DEF WellFormed, OptionSays
<1>3. raw = o.legs
  <2>1. "legs" \in DOMAIN o /\ o.legs # None
    BY DEF OptionSays
  <2>2. Named(o, {"legs"}) = {o.legs}
    BY <2>1 DEF Named
  <2>3. pick(o, <<"legs">>) = o.legs
    BY <2>2, PickOf1
  <2> QED
    BY <2>1, <2>3 DEF Or
<1>4. DOMAIN raw = DOMAIN m.legs /\ DOMAIN m.legs = 1 .. Len(m.legs) /\ Len(m.legs) \in Nat
  BY <1>2, <1>3 DEF OptionSays, OneChain
<1>5. ASSUME NEW i \in DOMAIN m.legs
      PROVE  /\ pick(raw[i], <<"option_id", "optionId", "id">>) = m.legs[i].optionId
             /\ low(pick(raw[i], <<"side">>)) = m.legs[i].side
             /\ low(pick(raw[i], <<"position_effect", "positionEffect">>))
                  = m.legs[i].positionEffect
  <2>1. Says(Named(o.legs[i], {"option_id", "optionId", "id"}), m.legs[i].optionId)
    BY DEF OptionSays
  <2>2. Says({low(w) : w \in Named(o.legs[i], {"side"})}, m.legs[i].side)
    BY DEF OptionSays
  <2>5. Says({low(w) : w \in Named(o.legs[i], {"position_effect", "positionEffect"})},
             m.legs[i].positionEffect)
    BY DEF OptionSays
  <2> HIDE DEF raw
  <2>3. pick(raw[i], <<"option_id", "optionId", "id">>) = m.legs[i].optionId
    BY <2>1, <1>3, PickOf3 DEF Says
  <2>4. low(pick(raw[i], <<"side">>)) = m.legs[i].side
    BY <2>2, <1>3, PickOf1, ReadWord
  <2>6. low(pick(raw[i], <<"position_effect", "positionEffect">>)) = m.legs[i].positionEffect
    BY <2>5, <1>3, PickOf2, ReadWord
  <2> QED
    BY <2>3, <2>4, <2>6
<1> HIDE DEF raw
<1>6. DOMAIN legs = DOMAIN m.legs
  BY <1>4
<1>7. \A i \in DOMAIN m.legs :
         /\ legs[i].optionId = m.legs[i].optionId /\ legs[i].side = m.legs[i].side
         /\ legs[i].contract = None /\ {"optionId", "contract"} \subseteq DOMAIN legs[i]
         /\ legs[i].positionEffect = m.legs[i].positionEffect
  BY <1>4, <1>5 DEF Leg
<1> HIDE DEF legs
<1>8. Len(legs) = Len(m.legs)
  BY <1>4, <1>6, LenOf
<1>9. LegsMatch(legs, m) /\ EffectsMatch(legs, m)
  BY <1>6, <1>7, <1>8 DEF LegsMatch, EffectsMatch
<1>10. quantity = m.qty
  BY <1>2, PickOf2, ReadNumber DEF OptionSays
<1>11. limit = m.price
  BY <1>2, PickOf3, ReadNumber DEF OptionSays
<1>12. side = m.side
  <2>1. CASE Len(m.legs) = 1
    <3>1. 1 \in DOMAIN m.legs
      BY <1>4, <2>1
    <3> QED
      BY <2>1, <3>1, <1>2, <1>7, <1>8
  <2>2. CASE Len(m.legs) # 1
    <3>1. low(pick(o, <<"direction">>)) = m.side
      BY <2>2, PickOf1, ReadWord DEF OptionSays
    <3> QED
      BY <2>2, <3>1, <1>8 DEF Or
  <2> QED
    BY <2>1, <2>2
<1>13. m.price # None => type \in {"limit", "stop_limit"}
  <2> SUFFICES ASSUME m.price # None PROVE type \in {"limit", "stop_limit"}
    OBVIOUS
  <2> DEFINE said == Named(o, {"type", "order_type", "orderType"})
             x == pick(o, <<"type", "order_type", "orderType">>)
  <2>1. (said = {} => x = None) /\ (said # {} => x \in said)
    BY PickOf3
  <2>2. IF said = {} THEN Named(o, {"price", "limit_price"}) # {}
        ELSE {low(w) : w \in said} \subseteq {"limit", "stop_limit"}
    BY DEF OptionSays
  <2>3. said = {} => priced
    <3>1. None \notin Named(o, {"price", "limit_price"})
      BY DEF Named
    <3> QED
      BY <2>2, <3>1, PickOf2
  <2>4. None \notin {"limit", "stop_limit"}
    BY NoneAssumption DEF Words
  <2> HIDE DEF said, x, priced
  <2>5. type = Or(low(x), IF priced THEN "limit" ELSE None)
    BY DEF x, priced
  <2>6. said # {} => low(x) \in {"limit", "stop_limit"}
    BY <2>1, <2>2
  <2>7. said = {} => low(x) = None
    BY <2>1, NoneIsNoWord DEF low
  <2> QED
    BY <2>3, <2>4, <2>5, <2>6, <2>7 DEF Or
<1> HIDE DEF quantity, limit, side, type, direction, stop
<1>14. LET p == buildOptionParsed(legs, quantity, type, limit, stop, direction, side)
       IN  /\ Tells(p, m, m)
           /\ p.kind = "place" /\ p.assetType = "option" /\ p.legs = legs /\ p.orderType = type
           /\ p.quantity = m.qty /\ p.limitPrice = m.price /\ p.side = m.side
  BY <1>2, <1>9, <1>10, <1>11, <1>12, <1>13, BuildTells
<1> QED
  BY <1>1, <1>9, <1>13, <1>14 DEF OptionCard

(* Naming the contracts of the legs. *)
NamedLegs(legs, memory) ==
  [i \in DOMAIN legs |->
     LET l == legs[i]
     IN  [l EXCEPT !.contract = IF l.optionId \in DOMAIN memory THEN memory[l.optionId] ELSE @]]

LEMMA NamedLegsMatch ==
  ASSUME NEW legs, NEW m, LegsMatch(legs, m), OneChain(m),
         NEW memory, \A id \in DOMAIN memory : Known(memory[id], id)
  PROVE  LegsMatch(NamedLegs(legs, memory), m)
<1> DEFINE named == NamedLegs(legs, memory)
<1>1. DOMAIN named = DOMAIN m.legs /\ DOMAIN named = 1 .. Len(m.legs) /\ Len(m.legs) \in Nat
  BY DEF NamedLegs, LegsMatch, OneChain
<1>2. ASSUME NEW i \in DOMAIN m.legs
      PROVE  /\ named[i].optionId = m.legs[i].optionId
             /\ {"optionId", "contract"} \subseteq DOMAIN named[i]
             /\ named[i].contract = None \/ Known(named[i].contract, named[i].optionId)
  <2> DEFINE l == legs[i]
  <2>1. named[i] = [l EXCEPT !.contract = IF l.optionId \in DOMAIN memory
                                          THEN memory[l.optionId] ELSE l.contract]
    BY DEF NamedLegs, LegsMatch
  <2>2. /\ l.optionId = m.legs[i].optionId /\ {"optionId", "contract"} \subseteq DOMAIN l
        /\ l.contract = None \/ Known(l.contract, l.optionId)
    BY DEF LegsMatch
  <2> HIDE DEF l, named
  <2>3. /\ named[i].optionId = l.optionId /\ DOMAIN named[i] = DOMAIN l
        /\ named[i].contract = IF l.optionId \in DOMAIN memory THEN memory[l.optionId] ELSE l.contract
    BY <2>1, <2>2
  <2> QED
    BY <2>2, <2>3
<1> HIDE DEF named
<1>3. Len(named) = Len(m.legs)
  BY <1>1, LenOf
<1> QED
  BY <1>1, <1>2, <1>3 DEF LegsMatch, named

LEMMA NamedLegsEffects ==
  ASSUME NEW legs, NEW m, EffectsMatch(legs, m), NEW memory
  PROVE  EffectsMatch(NamedLegs(legs, memory), m)
<1> SUFFICES ASSUME NEW i \in DOMAIN legs
             PROVE  NamedLegs(legs, memory)[i].positionEffect = m.legs[i].positionEffect
  BY DEF EffectsMatch, NamedLegs
<1> DEFINE l == legs[i]
           c == IF l.optionId \in DOMAIN memory THEN memory[l.optionId] ELSE l.contract
<1>1. NamedLegs(legs, memory)[i] = [l EXCEPT !.contract = c]
  BY DEF NamedLegs
<1>2. l.positionEffect = m.legs[i].positionEffect
  BY DEF EffectsMatch
<1> HIDE DEF l, c
<1> QED
  BY <1>1, <1>2

LEMMA OptionEnriched ==
  ASSUME NEW p, NEW m, WellFormed(m), m.asset = "option", OptionCard(p, m),
         NEW memory, \A id \in DOMAIN memory : Known(memory[id], id)
  PROVE  OptionCard(enrichOptionParsed(p, memory), m)
<1> DEFINE legs == NamedLegs(p.legs, memory)
<1>1. CASE p.legs = <<>>
  BY <1>1 DEF enrichOptionParsed
<1>2. CASE p.legs # <<>>
  <2>1. enrichOptionParsed(p, memory)
          = buildOptionParsed(legs, m.qty, p.orderType, m.price, p.stopPrice, p.direction, m.side)
    BY <1>2 DEF enrichOptionParsed, OptionCard, NamedLegs
  <2>2. LegsMatch(legs, m) /\ EffectsMatch(legs, m)
    BY NamedLegsMatch, NamedLegsEffects DEF OptionCard, WellFormed
  <2> HIDE DEF legs
  <2> QED
    BY <2>1, <2>2, BuildTells DEF OptionCard
<1> QED
  BY <1>1, <1>2

(* The card of an exercise, or of its cancellation, before and after. *)
ExerciseCard(p, m) ==
  /\ Tells(p, m, m) /\ p.kind = m.act /\ p.assetType = "option" /\ LegsMatch(p.legs, m)
  /\ p.quantity = m.qty
  /\ m.act = "cancel" => p.summary.verb = "cancel_exercise"

Exercises(m) ==
  /\ m.act \in {"exercise", "cancel"} /\ OneChain(m) /\ Len(m.legs) = 1
  /\ m.asset = "option" /\ m.qty \in Numbers
  /\ m.act = "cancel" => m.target = None

LEMMA ExerciseTells ==
  ASSUME NEW m, Exercises(m), NEW legs, LegsMatch(legs, m),
         NEW shorts, m.act = "exercise" => shorts = m.shorts
  PROVE  ExerciseCard(buildExerciseParsed(m.act = "cancel", legs, m.qty, shorts), m)
<1> DEFINE cancel == m.act = "cancel"
           p == buildExerciseParsed(cancel, legs, m.qty, shorts)
           contract == IF legs = <<>> THEN None ELSE legs[1].contract
           mult == IF contract = None THEN STANDARD_MULTIPLIER
                   ELSE Or(contract.multiplier, STANDARD_MULTIPLIER)
           est == IF cancel \/ contract = None THEN None
                  ELSE IF contract.optionType # "call" THEN None
                  ELSE times(times(contract.strikePrice, mult), m.qty)
           f == Facts[m.legs[1].optionId]
<1>1. /\ p.kind = IF cancel THEN "cancel" ELSE "exercise"
      /\ p.assetType = "option" /\ p.quantity = m.qty /\ p.legs = legs
      /\ p.side = None /\ p.limitPrice = None /\ p.cancelsOrderId = None /\ p.estCost = est
      /\ p.symbol = IF contract = None THEN None ELSE up(contract.chainSymbol)
      /\ p.summary.est = IF cancel THEN None ELSE est
      /\ cancel => p.summary.verb = "cancel_exercise"
      /\ ~cancel => p.summary.shorts = shorts
  BY DEF buildExerciseParsed, Blank, Summary
<1>2. /\ m.act \in {"exercise", "cancel"} /\ m.qty \in Numbers /\ OneChain(m)
      /\ 1 \in DOMAIN m.legs /\ (cancel => m.target = None)
  BY DEF Exercises, OneChain
<1>3. legs # <<>> /\ contract = legs[1].contract
  BY <1>2 DEF LegsMatch
<1>4. contract = None \/ Known(contract, m.legs[1].optionId)
  BY <1>2, <1>3 DEF LegsMatch
<1>5. /\ m.legs[1].optionId \in DOMAIN Facts /\ f.chainSymbol = m.symbol
      /\ m.symbol \notin DOMAIN Upper
      /\ f.multiplier \in Int /\ f.strikePrice \in Int
  BY <1>2, FactsAssumption DEF OneChain
<1> HIDE DEF p, contract, cancel
<1>6. contract # None =>
        /\ Fair(contract.chainSymbol, f.chainSymbol) /\ Fair(contract.strikePrice, f.strikePrice)
        /\ Fair(contract.optionType, f.optionType) /\ contract.multiplier = f.multiplier
  BY <1>4 DEF Known, Fields
<1> HIDE DEF f
<1>7. ASSUME est # None
      PROVE  /\ ~cancel /\ f.optionType = "call" /\ est = f.strikePrice * f.multiplier * m.qty
  <2>1. ~cancel /\ contract # None /\ contract.optionType = "call"
        /\ est = times(times(contract.strikePrice, mult), m.qty)
    BY <1>7
  <2>2. "call" # None /\ None \notin Int
    BY NoneAssumption DEF Words
  <2>3. mult = f.multiplier
    BY <2>1, <2>2, <1>5, <1>6 DEF Or
  <2>4. contract.strikePrice # None
    BY <2>1, <1>7 DEF times
  <2>5. contract.strikePrice = f.strikePrice /\ f.optionType = "call"
    BY <2>1, <2>2, <2>4, <1>6 DEF Fair
  <2> HIDE DEF mult
  <2>6. times(f.strikePrice, f.multiplier) = f.strikePrice * f.multiplier
    BY <2>2, <1>5 DEF times
  <2>7. est = times(f.strikePrice * f.multiplier, m.qty)
    BY <2>1, <2>3, <2>5, <2>6
  <2> HIDE DEF est
  <2>8. est = f.strikePrice * f.multiplier * m.qty
    BY <2>7, <1>7 DEF times
  <2> QED
    BY <2>1, <2>5, <2>8
<1> HIDE DEF est
<1>8. Fair(p.estCost, Moves(m))
  <2>1. m.act = "exercise" =>
          Moves(m) = IF f.optionType = "call" THEN f.strikePrice * f.multiplier * m.qty ELSE None
    BY DEF Moves, f
  <2>2. est # None => Moves(m) = est
    BY <2>1, <1>2, <1>7 DEF cancel
  <2> QED
    BY <2>2, <1>1 DEF Fair
<1>9. Fair(p.symbol, m.symbol)
  BY <1>1, <1>5, <1>6, NoneIsNoWord DEF Fair, up
<1>10. FairLegs(p, m)
  BY <1>1, LegsFair
<1>11. Tells(p, m, m)
  BY <1>1, <1>2, <1>8, <1>9, <1>10 DEF Tells, Fair, cancel
<1> QED
  BY <1>1, <1>2, <1>11 DEF ExerciseCard, p, cancel

LEMMA ExerciseParsed ==
  ASSUME NEW tool \in ExerciseTools, NEW o, NEW m, m.act = ActOf(tool), ExerciseSays(o, m),
         m.act = "cancel" => m.target = None
  PROVE  ExerciseCard(parseExercise(tool, o), m) /\ Exercises(m)
<1> DEFINE id == pick(o, <<"option_id", "optionId">>)
           legs == IF id = None THEN <<>> ELSE <<Leg(id, None, None, 1)>>
           shorts == pick(o, <<"allow_shorts", "allowShorts">>) = TRUE
           quantity == numv(pick(o, <<"quantity">>))
<1>1. /\ (tool \in CancelTools) = (m.act = "cancel") /\ m.act \in {"exercise", "cancel"}
  BY DEF ActOf
<1>2. Exercises(m)
  BY <1>1 DEF Exercises, ExerciseSays
<1>3. m.legs[1].optionId \in DOMAIN Facts /\ DOMAIN m.legs = {1}
  BY <1>2 DEF Exercises, OneChain
<1>4. id = m.legs[1].optionId /\ id # None
  <2>1. m.legs[1].optionId # None
    BY <1>3, FactsAssumption
  <2> QED
    BY <2>1, PickOf2 DEF ExerciseSays, Says
<1>5. quantity = m.qty
  BY PickOf1, ReadNumber DEF ExerciseSays
<1>6. shorts = m.shorts
  <2> DEFINE said == Named(o, {"allow_shorts", "allowShorts"})
             x == pick(o, <<"allow_shorts", "allowShorts">>)
             yes == TRUE
  <2>1. (said = {} => x = None) /\ (said # {} => x \in said)
    BY PickOf2
  <2>2. m.shorts = (yes \in said) /\ said \subseteq {m.shorts}
    BY DEF ExerciseSays
  <2>3. None # yes
    BY NoneAssumption
  <2>4. shorts = (x = yes)
    OBVIOUS
  <2> HIDE DEF said, x, yes
  <2>5. x = yes => yes \in said
    BY <2>1, <2>3
  <2>6. yes \in said => x = yes
    <3> SUFFICES ASSUME yes \in said PROVE x = yes
      OBVIOUS
    <3>1. yes = m.shorts /\ x \in said /\ x = m.shorts
      BY <2>1, <2>2, Zenon
    <3> QED
      BY <3>1, Zenon
  <2>7. m.shorts = (x = yes)
    BY <2>2, <2>5, <2>6
  <2> QED
    BY <2>4, <2>7
<1>7. LegsMatch(legs, m)
  <2> HIDE DEF id
  <2>1. legs = <<Leg(id, None, None, 1)>>
    BY <1>4
  <2>2. DOMAIN legs = {1} /\ Len(legs) = 1
    BY <2>1
  <2>3. legs[1].optionId = id /\ legs[1].contract = None /\ {"optionId", "contract"} \subseteq DOMAIN legs[1]
    BY <2>1 DEF Leg
  <2> HIDE DEF legs
  <2> QED
    BY <2>2, <2>3, <1>2, <1>3, <1>4 DEF LegsMatch, Exercises
<1>8. parseExercise(tool, o) = buildExerciseParsed(m.act = "cancel", legs, m.qty, shorts)
  BY <1>1, <1>5 DEF parseExercise
<1> HIDE DEF legs, shorts
<1> QED
  BY <1>2, <1>6, <1>7, <1>8, ExerciseTells

LEMMA ExerciseEnriched ==
  ASSUME NEW p, NEW m, Exercises(m), ExerciseCard(p, m),
         NEW memory, \A id \in DOMAIN memory : Known(memory[id], id)
  PROVE  ExerciseCard(enrichOptionParsed(p, memory), m)
<1> DEFINE legs == NamedLegs(p.legs, memory)
<1>1. CASE p.legs = <<>>
  BY <1>1 DEF enrichOptionParsed
<1>2. CASE p.legs # <<>>
  <2>1. enrichOptionParsed(p, memory)
          = buildExerciseParsed(m.act = "cancel", legs, m.qty, p.summary.shorts)
    BY <1>2 DEF enrichOptionParsed, ExerciseCard, Exercises, NamedLegs
  <2>2. LegsMatch(legs, m)
    BY NamedLegsMatch DEF ExerciseCard, Exercises
  <2>3. m.act = "exercise" => p.summary.shorts = m.shorts
    BY DEF ExerciseCard, Tells
  <2> HIDE DEF legs
  <2> QED
    BY <2>1, <2>2, <2>3, ExerciseTells
<1> QED
  BY <1>1, <1>2

(* The card of a cancel: bare, and with the order it cancels from the ledger. *)
LEMMA CancelParsed ==
  ASSUME NEW tool, NEW o, NEW m, m.act = "cancel", CancelSays(o, m), NEW t
  PROVE  LET p == parseCancel(tool, o)
         IN  /\ Tells(p, m, t) /\ p.kind = "cancel" /\ p.legs = <<>>
             /\ p.cancelsOrderId = m.target /\ p.symbol = None
             /\ DOMAIN p = DOMAIN Blank
<1> DEFINE p == parseCancel(tool, o)
<1>1. pick(o, <<"order_id", "id", "orderId">>) = m.target
  BY PickOf3 DEF CancelSays, Says
<1>2. pick(o, <<"symbol", "ticker">>) = None
  BY PickOf2 DEF CancelSays
<1>3. /\ p.kind = "cancel" /\ p.legs = <<>> /\ DOMAIN p = DOMAIN Blank
      /\ p.cancelsOrderId = pick(o, <<"order_id", "id", "orderId">>)
      /\ p.symbol = pick(o, <<"symbol", "ticker">>)
      /\ p.side = None /\ p.quantity = None /\ p.limitPrice = None /\ p.estCost = None
      /\ p.summary.est = None
  BY DEF parseCancel, Blank, Summary
<1> HIDE DEF p
<1>4. Tells(p, m, t)
  BY <1>1, <1>2, <1>3 DEF Tells, Fair
<1> QED
  BY <1>1, <1>2, <1>3, <1>4 DEF p

LEMMA CancelNamed ==
  ASSUME NEW p, NEW m, NEW t, m.act = "cancel", WellFormed(t), Tells(p, m, t), p.kind = "cancel",
         p.legs = <<>>, p.cancelsOrderId = m.target, p.symbol = None, DOMAIN p = DOMAIN Blank,
         NEW target, target = None \/ Lists(target, t)
  PROVE  LET q == enrichCancelParsed(p, target)
         IN  Tells(q, m, t) /\ q.legs = <<>>
<1> DEFINE q == enrichCancelParsed(p, target)
           option == target.assetType = "option"
           mult == IF option THEN Or(target.multiplier, STANDARD_MULTIPLIER) ELSE 1
           qty == IF target.quantity # None /\ target.quantity > 0 THEN target.quantity ELSE None
<1>1. CASE target = None
  BY <1>1 DEF enrichCancelParsed
<1>2. CASE target # None
  <2>1. /\ q.kind = p.kind /\ q.legs = p.legs /\ q.cancelsOrderId = p.cancelsOrderId
        /\ q.symbol = Or(up(target.symbol), None) /\ q.side = low(target.side)
        /\ q.quantity = qty /\ q.limitPrice = target.limitPrice
        /\ q.estCost = Or(times(times(target.limitPrice, mult), qty),
                          target.dollarAmount)
        /\ q.summary.est = None
    BY <1>2 DEF enrichCancelParsed, cancelSummary, Summary, Blank
  <2>2. /\ t.act = "place" /\ t.price \in Numbers /\ t.qty \in Numbers
        /\ low(t.side) = t.side /\ up(t.symbol) = t.symbol
        /\ t.asset = "option" => Multiplier(t) \in Int
        /\ t.qty = None \/ t.qty > 0
    <3>1. t.asset = "option" => Multiplier(t) \in Int
      BY FactsAssumption DEF WellFormed, OneChain, Multiplier
    <3> QED
      BY <3>1 DEF WellFormed, low, up
  <2>3. Lists(target, t)
    BY <1>2
  <2>4. mult = Multiplier(t) /\ mult \in Int
    <3>1. CASE t.asset = "option"
      <4>1. Multiplier(t) # None
        BY <3>1, <2>2, NoneAssumption
      <4> QED
        BY <3>1, <4>1, <2>2, <2>3 DEF Lists, Or
    <3>2. CASE t.asset # "option"
      BY <3>2, <2>3 DEF Lists, Multiplier
    <3> QED
      BY <3>1, <3>2
  <2>8. qty = t.qty
    BY <2>2, <2>3 DEF Lists
  <2> HIDE DEF q, mult, qty
  <2>5. Fair(q.estCost, Moves(t))
    <3>1. times(times(t.price, mult), t.qty) =
            IF t.price # None /\ t.qty # None THEN t.price * t.qty * mult ELSE None
      BY <2>2, <2>4, Estimates
    <3>2. Moves(t) = IF t.price # None /\ t.qty # None THEN t.price * t.qty * mult ELSE t.dollars
      BY <2>2, <2>4, MovesOf
    <3>3. t.price # None /\ t.qty # None => t.price * t.qty * mult \in Int
      BY <2>2, <2>4, Estimates
    <3>4. target.limitPrice = t.price /\ target.quantity = t.qty /\ target.dollarAmount \in {None, t.dollars}
      BY <2>3 DEF Lists
    <3>5. None \notin Int
      BY NoneAssumption
    <3> QED
      BY <3>1, <3>2, <3>3, <3>4, <3>5, <2>1, <2>8 DEF Fair, Or
  <2>6. q.symbol = t.symbol /\ q.side = t.side /\ q.quantity = t.qty /\ q.limitPrice = t.price
    BY <2>1, <2>2, <2>3, <2>8 DEF Lists, Or
  <2>7. Tells(q, m, t)
    BY <2>1, <2>5, <2>6 DEF Tells, Fair
  <2> QED
    BY <2>1, <2>7 DEF q
<1> QED
  BY <1>1, <1>2

(* The mappers take the first key that is there. *)
LEMMA Raw1 == ASSUME NEW o, NEW a, a \in DOMAIN o PROVE pickRaw(o, <<a>>) = o[a]
BY DEF pickRaw, Min

LEMMA Raw2 == ASSUME NEW o, NEW a, NEW b, a \in DOMAIN o PROVE pickRaw(o, <<a, b>>) = o[a]
BY DEF pickRaw, Min

(* What is learnt of contracts is so, and so is what is kept of it. *)
LEMMA MergeKnown ==
  ASSUME NEW id, NEW c, Known(c, id), NEW old, old = None \/ Known(old, id)
  PROVE  Known(Merge(c, old), id)
<1> DEFINE now == Merge(c, old)
<1>1. DOMAIN now = Fields /\ \A x \in Fields : now[x] = Or(c[x], IF old = None THEN None ELSE old[x])
  BY DEF Merge, Known
<1> HIDE DEF now
<1>2. \A x \in Fields : Fair(now[x], Facts[id][x])
  BY <1>1 DEF Known, Fair, Or
<1>3. Facts[id].multiplier # None
  BY NoneAssumption, FactsAssumption DEF Known
<1>4. now.multiplier = Facts[id].multiplier
  BY <1>1, <1>3 DEF Known, Or, Fields
<1> QED
  BY <1>1, <1>2, <1>4 DEF Known, now

LEMMA RememberKnown ==
  ASSUME NEW memory, \A id \in DOMAIN memory : Known(memory[id], id),
         NEW learnt, \A c \in learnt : Known(c, c.optionId)
  PROVE  \A id \in DOMAIN rememberContracts(memory, learnt) :
           Known(rememberContracts(memory, learnt)[id], id)
<1> SUFFICES ASSUME NEW id \in DOMAIN rememberContracts(memory, learnt)
             PROVE  Known(rememberContracts(memory, learnt)[id], id)
  OBVIOUS
<1> DEFINE old == IF id \in DOMAIN memory THEN memory[id] ELSE None
           new == {c \in learnt : c.optionId = id}
<1>1. /\ rememberContracts(memory, learnt)[id]
           = IF new = {} THEN old ELSE Merge(CHOOSE c \in new : TRUE, old)
      /\ id \in DOMAIN memory \/ \E c \in learnt : c.optionId = id
  BY DEF rememberContracts
<1>2. old = None \/ Known(old, id)
  OBVIOUS
<1>3. CASE new = {}
  BY <1>1, <1>3
<1>4. CASE new # {}
  <2>1. PICK c \in new : c = CHOOSE x \in new : TRUE
    BY <1>4
  <2>2. Known(c, id)
    BY <2>1
  <2> HIDE DEF old, new
  <2>3. Known(Merge(c, old), id)
    BY <2>2, <1>2, MergeKnown
  <2> QED
    BY <2>1, <2>3, <1>1, <1>4
<1> QED
  BY <1>3, <1>4

LEMMA InstrumentKnown ==
  ASSUME NEW id \in DOMAIN Facts
  PROVE  LET c == mapOptionInstrument(InstrumentRow(Facts[id]))
         IN  Known(c, id) /\ c.optionId = id
<1> DEFINE f == Facts[id]
           row == InstrumentRow(f)
           c == mapOptionInstrument(row)
<1>1. DOMAIN f = Fields /\ f.optionId = id
  BY FactsAssumption
<1> HIDE DEF f
<1>2. /\ DOMAIN row = {"id", "chain_symbol", "expiration_date", "strike_price", "type",
                       "trade_value_multiplier"}
      /\ row.id = f.optionId /\ row.chain_symbol = f.chainSymbol
      /\ row.expiration_date = f.expirationDate /\ row.strike_price = f.strikePrice
      /\ row.type = f.optionType /\ row.trade_value_multiplier = f.multiplier
  BY DEF InstrumentRow
<1> HIDE DEF row
<1>3. /\ DOMAIN c = Fields
      /\ c.optionId = f.optionId /\ c.chainSymbol = f.chainSymbol
      /\ c.expirationDate = f.expirationDate /\ c.strikePrice = f.strikePrice
      /\ c.optionType = f.optionType /\ c.multiplier = f.multiplier
  BY <1>2, Raw1, Raw2 DEF mapOptionInstrument, Fields
<1> HIDE DEF c
<1>4. Known(c, id)
  BY <1>1, <1>3 DEF Known, Fields, Fair, f
<1> QED
  BY <1>1, <1>3, <1>4 DEF c, row, f

LEMMA ResolveKnown ==
  ASSUME ContractsKnown, NEW ids \in SUBSET DOMAIN Facts
  PROVE  \A id \in DOMAIN resolveOptionContracts(ids) : Known(resolveOptionContracts(ids)[id], id)
<1> DEFINE learnt == {mapOptionInstrument(InstrumentRow(Facts[i])) : i \in ids \ DOMAIN contracts}
<1>1. \A c \in learnt : Known(c, c.optionId)
  BY InstrumentKnown
<1>2. resolveOptionContracts(ids) = rememberContracts(contracts, learnt)
  BY DEF resolveOptionContracts
<1> HIDE DEF learnt
<1> QED
  BY <1>1, <1>2, RememberKnown DEF ContractsKnown

(* A poll takes over what an order means, and the contracts of its legs. *)
LEMMA MappedShares ==
  ASSUME NEW id, NEW o, NEW brief, o.means.asset \in {"equity", "crypto"}
  PROVE  Lists(Mapped(id, o, brief), o.means) /\ Mapped(id, o, brief).legs = <<>>
<1> DEFINE m == o.means
           raw == Rendered(id, o, brief)
           dollar == IF m.dollars # None THEN [amount |-> m.dollars] ELSE None
           s == Mapped(id, o, brief)
<1>1. dollar # None => pickRaw(dollar, <<"amount">>) = m.dollars
  <2>1. dollar # None => "amount" \in DOMAIN dollar /\ dollar.amount = m.dollars
    OBVIOUS
  <2> HIDE DEF dollar
  <2> QED
    BY <2>1, Raw1
<1>2. CASE m.asset = "equity"
  <2>1. /\ {"symbol", "side", "quantity", "price", "dollar_based_amount"} \subseteq DOMAIN raw
        /\ raw.symbol = m.symbol /\ raw.side = m.side /\ raw.quantity = m.qty
        /\ raw.price = m.price /\ raw.dollar_based_amount = dollar
    BY <1>2 DEF Rendered
  <2>2. s = mapOrderStatus(raw)
    BY <1>2 DEF Mapped
  <2> HIDE DEF raw, s, dollar
  <2>3. pickRaw(raw, <<"dollar_based_amount">>) = dollar
    BY <2>1, Raw1
  <2>4. /\ s.assetType = "equity" /\ s.symbol = m.symbol /\ s.side = m.side
        /\ s.quantity = m.qty /\ s.limitPrice = m.price /\ s.legs = <<>>
        /\ s.dollarAmount = IF dollar = None THEN None ELSE pickRaw(dollar, <<"amount">>)
    BY <2>1, <2>2, <2>3, Raw2 DEF mapOrderStatus
  <2> QED
    BY <1>1, <1>2, <2>4 DEF Lists, s
<1>3. CASE m.asset = "crypto"
  <2>1. /\ {"currency_code", "side", "quantity", "limit_price", "dollar_amount"} \subseteq DOMAIN raw
        /\ "dollar_based_amount" \notin DOMAIN raw
        /\ raw.currency_code = m.symbol /\ raw.side = m.side /\ raw.quantity = m.qty
        /\ raw.limit_price = m.price /\ raw.dollar_amount = dollar
    BY <1>3 DEF Rendered
  <2>2. s = mapCryptoOrderStatus(raw)
    BY <1>3 DEF Mapped
  <2> HIDE DEF raw, s, dollar
  <2>3. pickRaw(raw, <<"dollar_based_amount", "dollar_amount">>) = dollar
    BY <2>1 DEF pickRaw, Min
  <2>4. /\ s.assetType = "crypto" /\ s.symbol = m.symbol /\ s.side = m.side
        /\ s.quantity = m.qty /\ s.limitPrice = m.price /\ s.legs = <<>>
        /\ s.dollarAmount = IF dollar = None THEN None ELSE pickRaw(dollar, <<"amount">>)
    BY <2>1, <2>2, <2>3, Raw1, Raw2 DEF mapCryptoOrderStatus
  <2> QED
    BY <1>1, <1>3, <2>4 DEF Lists, s
<1> QED
  BY <1>2, <1>3

LEMMA MappedOption ==
  ASSUME NEW id, NEW o, NEW brief \in BOOLEAN, WellFormed(o.means), o.means.asset = "option"
  PROVE  LET s == Mapped(id, o, brief)
         IN  /\ Lists(s, o.means)
             /\ \A i \in DOMAIN s.legs : Known(s.legs[i].contract, s.legs[i].contract.optionId)
<1> DEFINE m == o.means
           raw == Rendered(id, o, brief)
           s == Mapped(id, o, brief)
           rawLegs == raw.legs
           legs == mapOrderLegs(rawLegs, m.symbol, Multiplier(m))
<1>1. /\ OneChain(m) /\ m.dollars = None /\ (Len(m.legs) = 1 => m.legs[1].side = m.side)
      /\ DOMAIN m.legs = 1 .. Len(m.legs) /\ Len(m.legs) \in Nat
  BY DEF WellFormed, OneChain
<1>2. /\ {"chain_symbol", "direction", "quantity", "price", "trade_value_multiplier", "legs"}
           \subseteq DOMAIN raw
      /\ raw.chain_symbol = m.symbol /\ raw.direction = m.side /\ raw.quantity = m.qty
      /\ raw.price = m.price /\ raw.trade_value_multiplier = Multiplier(m)
      /\ "symbol" \notin DOMAIN raw
  BY DEF Rendered
<1>3. DOMAIN rawLegs = DOMAIN m.legs
  BY DEF Rendered
<1>4. ASSUME NEW i \in DOMAIN m.legs
      PROVE  /\ {"option_id", "side", "expiration_date", "strike_price", "option_type"}
                  \subseteq DOMAIN rawLegs[i]
             /\ rawLegs[i].option_id = Facts[m.legs[i].optionId].optionId
             /\ rawLegs[i].side = m.legs[i].side
             /\ rawLegs[i].expiration_date = Facts[m.legs[i].optionId].expirationDate
             /\ rawLegs[i].strike_price \in {None, Facts[m.legs[i].optionId].strikePrice}
             /\ rawLegs[i].option_type = Facts[m.legs[i].optionId].optionType
  BY DEF Rendered
<1> HIDE DEF rawLegs
<1>5. s = mapOptionOrderStatus(raw)
  BY DEF Mapped
<1>6. pickRaw(raw, <<"legs">>) = rawLegs /\ pickRaw(raw, <<"chain_symbol">>) = m.symbol
      /\ pickRaw(raw, <<"trade_value_multiplier">>) = Multiplier(m)
  BY <1>2, Raw1 DEF rawLegs
<1> HIDE DEF raw
<1>7. /\ s.assetType = "option" /\ s.symbol = m.symbol
      /\ s.side = IF Len(legs) = 1 THEN legs[1].side ELSE pickRaw(raw, <<"direction">>)
      /\ s.quantity = pickRaw(raw, <<"quantity">>)
      /\ s.limitPrice = pickRaw(raw, <<"price", "limit_price">>)
      /\ s.dollarAmount = None /\ s.multiplier = Multiplier(m) /\ s.legs = legs
  BY <1>5, <1>6 DEF mapOptionOrderStatus
<1>8. DOMAIN legs = DOMAIN m.legs
  BY <1>3 DEF mapOrderLegs
<1>9. ASSUME NEW i \in DOMAIN m.legs
      PROVE  /\ legs[i].side = m.legs[i].side
             /\ Known(legs[i].contract, m.legs[i].optionId)
             /\ legs[i].contract.optionId = m.legs[i].optionId
  <2> DEFINE c == legs[i].contract
             key == m.legs[i].optionId
             f == Facts[key]
  <2>1. /\ legs[i].side = pickRaw(rawLegs[i], <<"side">>)
        /\ DOMAIN c = Fields
        /\ c.optionId = pickRaw(rawLegs[i], <<"option_id", "option">>)
        /\ c.chainSymbol = m.symbol /\ c.multiplier = Multiplier(m)
        /\ c.expirationDate = pickRaw(rawLegs[i], <<"expiration_date">>)
        /\ c.strikePrice = pickRaw(rawLegs[i], <<"strike_price">>)
        /\ c.optionType = pickRaw(rawLegs[i], <<"option_type", "type">>)
    BY <1>3 DEF mapOrderLegs, Leg, Fields
  <2>2. /\ key \in DOMAIN Facts /\ f.chainSymbol = m.symbol /\ f.multiplier = Multiplier(m)
        /\ f.optionId = key /\ DOMAIN f = Fields
    BY <1>1, FactsAssumption DEF OneChain
  <2> HIDE DEF c, f, key, legs
  <2>3. /\ legs[i].side = m.legs[i].side /\ c.optionId = f.optionId
        /\ c.expirationDate = f.expirationDate /\ c.strikePrice \in {None, f.strikePrice}
        /\ c.optionType = f.optionType
    <3> DEFINE row == rawLegs[i]
    <3>1. /\ {"option_id", "side", "expiration_date", "strike_price", "option_type"} \subseteq DOMAIN row
          /\ row.option_id = f.optionId /\ row.side = m.legs[i].side
          /\ row.expiration_date = f.expirationDate /\ row.strike_price \in {None, f.strikePrice}
          /\ row.option_type = f.optionType
      BY <1>4 DEF f, key
    <3> HIDE DEF row
    <3>2. /\ pickRaw(row, <<"option_id", "option">>) = row.option_id
          /\ pickRaw(row, <<"side">>) = row.side
          /\ pickRaw(row, <<"expiration_date">>) = row.expiration_date
          /\ pickRaw(row, <<"strike_price">>) = row.strike_price
          /\ pickRaw(row, <<"option_type", "type">>) = row.option_type
      BY <3>1, Raw1, Raw2
    <3> QED
      BY <2>1, <3>1, <3>2 DEF row
  <2>4. Known(c, key)
    BY <2>1, <2>2, <2>3 DEF Known, Fields, Fair, f
  <2> QED
    BY <2>2, <2>3, <2>4 DEF c, key
<1> HIDE DEF legs, s
<1>10. Len(legs) = Len(m.legs)
  BY <1>1, <1>8, LenOf
<1>11. s.side = m.side
  <2>1. Len(m.legs) = 1 => 1 \in DOMAIN m.legs
    BY <1>1
  <2> QED
    BY <2>1, <1>1, <1>2, <1>7, <1>9, <1>10, Raw1
<1>12. s.quantity = m.qty /\ s.limitPrice = m.price
  BY <1>2, <1>7, Raw1, Raw2
<1>13. Lists(s, m)
  BY <1>7, <1>11, <1>12 DEF Lists
<1>14. \A i \in DOMAIN s.legs : Known(s.legs[i].contract, s.legs[i].contract.optionId)
  BY <1>7, <1>8, <1>9
<1> QED
  BY <1>13, <1>14 DEF s

LEMMA MappedTells ==
  ASSUME NEW id, NEW o, NEW brief \in BOOLEAN, WellFormed(o.means)
  PROVE  LET s == Mapped(id, o, brief)
         IN  /\ Lists(s, o.means)
             /\ \A i \in DOMAIN s.legs : Known(s.legs[i].contract, s.legs[i].contract.optionId)
<1>1. CASE o.means.asset = "option"
  BY <1>1, MappedOption
<1>2. CASE o.means.asset \in {"equity", "crypto"}
  <2>1. Lists(Mapped(id, o, brief), o.means) /\ Mapped(id, o, brief).legs = <<>>
    BY <1>2, MappedShares
  <2> QED
    BY <2>1
<1> QED
  BY <1>1, <1>2 DEF WellFormed

(* The option contracts the account holds are listed. *)
LEMMA HeldAreListed == ASSUME OrdersMeant PROVE Names("option") \subseteq DOMAIN Facts
<1> SUFFICES ASSUME NEW l \in Held("option") PROVE l.name \in DOMAIN Facts
  BY DEF Names
<1>1. \/ l \in {[n EXCEPT !.qty = @ - Sold(n.name)] : n \in Overnight}
      \/ \E id \in DOMAIN orders : l \in LotsOf(id)
  BY DEF Held
<1>2. l.asset = "option"
  BY DEF Held
<1>3. CASE l \in {[n EXCEPT !.qty = @ - Sold(n.name)] : n \in Overnight}
  <2>1. PICK n \in Overnight : l = [n EXCEPT !.qty = @ - Sold(n.name)]
    BY <1>3
  <2>2. n.asset = l.asset /\ n.name = l.name
    BY <2>1, OvernightAssumption
  <2> QED
    BY <1>2, <2>2, OvernightAssumption
<1>4. CASE \E id \in DOMAIN orders : l \in LotsOf(id)
  <2>1. PICK id \in DOMAIN orders : l \in LotsOf(id)
    BY <1>4
  <2> DEFINE m == orders[id].means
  <2>2. WellFormed(m)
    BY DEF OrdersMeant
  <2>3. CASE m.asset = "option"
    <3>1. \A i \in DOMAIN m.legs : m.legs[i].optionId \in DOMAIN Facts
      BY <2>2, <2>3 DEF WellFormed, OneChain
    <3>2. \E i \in DOMAIN m.legs : l.name = m.legs[i].optionId
      BY <2>1, <2>3 DEF LotsOf, Lot
    <3> QED
      BY <3>1, <3>2
  <2>4. CASE m.asset # "option"
    BY <2>1, <2>4, <1>2 DEF LotsOf, Lot
  <2> QED
    BY <2>3, <2>4
<1> QED
  BY <1>1, <1>3, <1>4

(* A card that tells the order and will when its contracts are named. *)
Sound(p, m, t) ==
  \/ Exercises(m) /\ ExerciseCard(p, m) /\ t = m
  \/ WellFormed(m) /\ m.asset = "option" /\ OptionCard(p, m) /\ t = m
  \/ Tells(p, m, t) /\ p.legs = <<>>

LEMMA SoundTells ==
  ASSUME NEW p, NEW m, NEW t, Sound(p, m, t)
  PROVE  Tells(p, m, t) /\ Wanted(p) \subseteq DOMAIN Facts
<1>1. CASE p.legs = <<>>
  <2>1. Wanted(p) = {}
    BY <1>1 DEF Wanted
  <2> QED
    BY <2>1 DEF Sound, ExerciseCard, OptionCard
<1>2. CASE p.legs # <<>>
  <2>1. LegsMatch(p.legs, m) /\ OneChain(m) /\ Tells(p, m, t)
    BY <1>2 DEF Sound, ExerciseCard, OptionCard, Exercises, WellFormed
  <2>2. \A i \in DOMAIN p.legs : p.legs[i].optionId \in DOMAIN Facts
    BY <2>1 DEF LegsMatch, OneChain
  <2> QED
    BY <2>1, <2>2 DEF Wanted
<1> QED
  BY <1>1, <1>2

LEMMA SoundNamed ==
  ASSUME NEW p, NEW m, NEW t, Sound(p, m, t),
         NEW memory, \A id \in DOMAIN memory : Known(memory[id], id)
  PROVE  Sound(enrichOptionParsed(p, memory), m, t)
<1>1. CASE Exercises(m) /\ ExerciseCard(p, m) /\ t = m
  BY <1>1, ExerciseEnriched DEF Sound
<1>2. CASE WellFormed(m) /\ m.asset = "option" /\ OptionCard(p, m) /\ t = m
  BY <1>2, OptionEnriched DEF Sound
<1>3. CASE Tells(p, m, t) /\ p.legs = <<>>
  <2>1. enrichOptionParsed(p, memory) = p
    BY <1>3 DEF enrichOptionParsed
  <2> QED
    BY <2>1
<1> QED
  BY <1>1, <1>2, <1>3 DEF Sound

(* The card as it is drawn from the call and the ledger. *)
LEMMA BareSound ==
  ASSUME NEW i \in DOMAIN Approvals, NEW c \in Calls[Approvals[i]], c.tool \in MONEY_MOVERS,
         NEW t, c.means.act # "cancel" \/ c.means.target = None => t = c.means,
         NEW target, target = None \/ (WellFormed(t) /\ Lists(target, t))
  PROVE  Sound(Bare(c, target), c.means, t)
<1> DEFINE tool == c.tool
           o == c.input
           m == c.means
           read == parseOrderInput(tool, o)
<1>1. /\ m.act = ActOf(tool)
      /\ m.act = "place" =>
           /\ WellFormed(m)
           /\ IF tool \in OptionTools THEN OptionSays(o, m) ELSE FlatSays(tool, o, m)
      /\ tool \in ExerciseTools => ExerciseSays(o, m)
      /\ tool \in CancelTools \ ExerciseTools => CancelSays(o, m)
      /\ tool \in CancelTools \cap ExerciseTools => m.target = None
  BY CallsAssumption
<1>2. Bare(c, target) = IF read.kind = "cancel" /\ read.cancelsOrderId # None
                        THEN enrichCancelParsed(read, target) ELSE read
  BY DEF Bare
<1>3. /\ m.act # "cancel" \/ m.target = None => t = m
      /\ tool \in MONEY_MOVERS
  OBVIOUS
<1> HIDE DEF tool, o, m
<1>4. read.kind = ActOf(tool) /\ (tool \notin CancelTools \ ExerciseTools => read.cancelsOrderId = None)
  BY <1>3, ReadKind
<1>5. CASE tool \in ExerciseTools
  <2>1. read = parseExercise(tool, o)
    BY <1>5 DEF parseOrderInput
  <2> HIDE DEF read
  <2>2. Bare(c, target) = read
    BY <1>2, <1>4, <1>5
  <2>3. m.act = "cancel" => m.target = None
    BY <1>1, <1>5 DEF ActOf
  <2>4. t = m
    BY <2>3, <1>3
  <2>5. ExerciseCard(read, m) /\ Exercises(m)
    BY <2>1, <2>3, <1>1, <1>5, ExerciseParsed
  <2> QED
    BY <2>2, <2>4, <2>5 DEF Sound, m
<1>6. CASE tool \in CancelTools \ ExerciseTools
  <2>1. read = parseCancel(tool, o)
    BY <1>6 DEF parseOrderInput
  <2> HIDE DEF read
  <2>2. m.act = "cancel" /\ CancelSays(o, m)
    BY <1>1, <1>6 DEF ActOf
  <2>3. /\ Tells(read, m, t) /\ read.kind = "cancel" /\ read.legs = <<>>
        /\ read.cancelsOrderId = m.target /\ read.symbol = None /\ DOMAIN read = DOMAIN Blank
    BY <2>1, <2>2, CancelParsed
  <2>4. CASE target = None \/ read.cancelsOrderId = None
    <3>1. Bare(c, target) = read
      BY <2>4, <1>2 DEF enrichCancelParsed
    <3> QED
      BY <3>1, <2>3 DEF Sound, m
  <2>5. CASE target # None /\ read.cancelsOrderId # None
    <3>1. Bare(c, target) = enrichCancelParsed(read, target)
      BY <2>3, <2>5, <1>2
    <3>2. WellFormed(t) /\ Lists(target, t)
      BY <2>5
    <3>3. LET q == enrichCancelParsed(read, target) IN Tells(q, m, t) /\ q.legs = <<>>
      BY <2>2, <2>3, <3>2, CancelNamed
    <3> QED
      BY <3>1, <3>3 DEF Sound, m
  <2> QED
    BY <2>4, <2>5
<1>7. CASE tool \notin ExerciseTools /\ tool \notin CancelTools
  <2>1. m.act = "place" /\ t = m
    BY <1>1, <1>3, <1>7 DEF ActOf
  <2>2. Bare(c, target) = read
    BY <1>2, <1>4, <1>7
  <2>3. CASE tool \in OptionTools
    <3>1. read = parseOptionOrder(o)
      BY <2>3, <1>7 DEF parseOrderInput
    <3>2. WellFormed(m) /\ OptionSays(o, m)
      BY <2>1, <2>3, <1>1
    <3> HIDE DEF read
    <3>3. OptionCard(read, m) /\ m.asset = "option"
      BY <3>1, <3>2, OptionParsed DEF OptionSays
    <3> QED
      BY <2>1, <2>2, <3>2, <3>3 DEF Sound, m
  <2>4. CASE tool \notin OptionTools
    <3>1. WellFormed(m) /\ FlatSays(tool, o, m)
      BY <2>1, <2>4, <1>1
    <3>2. read = parseFlat(tool, o)
      BY <2>4, <3>1, <1>7 DEF parseOrderInput, FlatSays
    <3> HIDE DEF read
    <3>3. Tells(read, m, m) /\ read.legs = <<>>
      BY <3>1, <3>2, FlatTells
    <3> QED
      BY <2>1, <2>2, <3>3 DEF Sound, m
  <2> QED
    BY <2>3, <2>4
<1> QED
  BY <1>5, <1>6, <1>7

-----------------------------------------------------------------------------
LEMMA InitCards == TrailInit => CardInv
<1> SUFFICES ASSUME TrailInit PROVE CardInv
  OBVIOUS
<1>1. OrdersMeant
  BY AppOrdersAssumption DEF TrailInit, OrdersMeant
<1>2. ContractsKnown /\ LedgerTells
  BY DEF TrailInit, ContractsKnown, LedgerTells
<1>3. CardsTell
  BY DEF TrailInit, CardsTell
<1> QED
  BY <1>1, <1>2, <1>3 DEF CardInv

(* Nobody's order is called null. *)
LEMMA NoneIsNoOrder == ASSUME TrailInv PROVE None \notin DOMAIN orders
BY OrderIdsAssumption DEF TrailInv, NoStrays

(* A card that is drawn stays as true as the order it is about stays the same. *)
LEMMA CardsKept ==
  ASSUME CardsTell, call' = call, card' = card,
         \A a \in A : status'[a] = "none" <=> status[a] = "none",
         \A a \in A : status[a] # "none" => Aimed(call[a].means)' = Aimed(call[a].means)
  PROVE  CardsTell'
<1> SUFFICES ASSUME NEW a \in A
             PROVE  IF status'[a] = "none" THEN card'[a] = None
                    ELSE Tells(card'[a], call'[a].means, Aimed(call[a].means)')
  BY DEF CardsTell
<1>1. IF status[a] = "none" THEN card[a] = None
      ELSE Tells(card[a], call[a].means, Aimed(call[a].means))
  BY DEF CardsTell
<1> QED
  BY <1>1

(* Orders keep what they mean: steps that leave them alone, or let one trade. *)
LEMMA MeansKept ==
  ASSUME CardInv, TrailInv, DOMAIN orders' = DOMAIN orders,
         \A id \in DOMAIN orders : orders'[id].means = orders[id].means,
         UNCHANGED <<call, card, ledger, contracts>>,
         \A a \in A : status'[a] = "none" <=> status[a] = "none"
  PROVE  CardInv'
<1>1. OrdersMeant' /\ ContractsKnown'
  BY DEF CardInv, OrdersMeant, ContractsKnown
<1>2. LedgerTells'
  BY DEF CardInv, TrailInv, LedgerFollows, LedgerTells
<1>3. CardsTell'
  <2>1. \A a \in A : Aimed(call[a].means)' = Aimed(call[a].means)
    BY DEF Aimed
  <2> QED
    BY <2>1, CardsKept DEF CardInv
<1> QED
  BY <1>1, <1>2, <1>3 DEF CardInv

LEMMA FinalizeTells ==
  ASSUME TrailInv, CardInv, NEW a \in A, NEW v \in {"approved", "rejected", "expired"}, Finalize(a, v)
  PROVE  CardInv'
<1>1. \A b \in A : status'[b] = "none" <=> status[b] = "none"
  BY DEF Finalize, TrailInv, TrailTypes
<1> QED
  BY <1>1, MeansKept DEF Finalize

LEMMA TradeTells ==
  ASSUME TrailInv, CardInv, NEW id \in DOMAIN orders, NEW s, Trade(id, s)
  PROVE  CardInv'
<1>1. DOMAIN orders' = DOMAIN orders
  BY DEF Trade
<1>2. ASSUME NEW x \in DOMAIN orders PROVE orders'[x].means = orders[x].means
  <2>1. DOMAIN orders[x] = {"means", "state", "done", "by"}
    BY DEF TrailInv, TrailTypes
  <2> QED
    BY <2>1 DEF Trade
<1>3. UNCHANGED <<call, card, status, ledger, contracts>>
  BY DEF Trade
<1> QED
  BY <1>1, <1>2, <1>3, MeansKept

(* The order that is placed was named by no cancel before it. *)
LEMMA PlaceOrderTells ==
  ASSUME TrailInv, CardInv, NEW a \in A, PlaceOrder(a)
  PROVE  CardInv'
<1> DEFINE new == OrderOf[a]
<1>1. /\ Ready(a) /\ call[a].means.act = "place" /\ UNCHANGED <<gate, outcome, audit, ledger, contracts>>
      /\ orders' = [id \in DOMAIN orders \cup {new} |->
                      IF id = new THEN [means |-> call[a].means, state |-> "queued", done |-> 0, by |-> a]
                                  ELSE orders[id]]
  BY DEF PlaceOrder
<1>2. /\ new \notin DOMAIN orders /\ status[a] = "approved" /\ did[a] = "unsent"
      /\ \A b \in A : Booked(b)
  BY <1>1 DEF TrailInv, Owned, Placed, Ready
<1>3. WellFormed(call[a].means)
  <2>1. PICK i \in DOMAIN Approvals : Approvals[i] = a
    BY Ranks
  <2>2. call[a] \in Calls[Approvals[i]]
    BY <2>1, <1>2 DEF Booked
  <2> QED
    BY <2>2, <1>1, CallsAssumption
<1>4. /\ DOMAIN orders' = DOMAIN orders \cup {new} /\ orders'[new].means = call[a].means
      /\ \A id \in DOMAIN orders : orders'[id] = orders[id]
  BY <1>1, <1>2
<1>5. OrdersMeant'
  BY <1>3, <1>4 DEF CardInv, OrdersMeant
<1>6. ContractsKnown'
  BY <1>1 DEF CardInv, ContractsKnown
<1>7. LedgerTells'
  BY <1>1, <1>4 DEF CardInv, TrailInv, LedgerFollows, LedgerTells
<1>8. ASSUME NEW b \in A, status[b] # "none"
      PROVE  Aimed(call[b].means)' = Aimed(call[b].means)
  <2>1. call[b].means.target # new
    <3>1. /\ Rank(a) \in DOMAIN Approvals /\ Approvals[Rank(a)] = a
          /\ Rank(b) \in DOMAIN Approvals /\ Approvals[Rank(b)] = b
      BY Ranks
    <3>2. call[b] \in Calls[b]
      BY <1>2, <1>8 DEF Booked
    <3>3. \A j \in DOMAIN Approvals : Rank(b) <= j => call[b].means.target # OrderOf[Approvals[j]]
      BY <3>1, <3>2, CallsAssumption
    <3>4. ~ (Rank(a) < Rank(b))
      BY <1>2, <1>8 DEF TrailInv, OneAtATime, Finished
    <3>5. Rank(a) \in Nat /\ Rank(b) \in Nat
      BY <3>1, ApprovalsAssumption
    <3>6. Rank(b) <= Rank(a)
      BY <3>4, <3>5
    <3> QED
      BY <3>1, <3>3, <3>6
  <2>2. call' = call
    BY <1>1 DEF gate
  <2> QED
    BY <2>1, <2>2, <1>4 DEF Aimed
<1>9. CardsTell'
  <2>1. UNCHANGED <<call, card, status>>
    BY <1>1 DEF gate
  <2> QED
    BY <2>1, <1>8, CardsKept DEF CardInv
<1> QED
  BY <1>5, <1>6, <1>7, <1>9 DEF CardInv

LEMMA PollTells ==
  ASSUME TrailInv, CardInv, NEW brief \in BOOLEAN, Poll(brief)
  PROVE  CardInv'
<1> DEFINE fresh == [id \in DOMAIN orders |-> Mapped(id, orders[id], brief)]
           learnt == UNION {{fresh[id].legs[i].contract : i \in DOMAIN fresh[id].legs} :
                              id \in DOMAIN fresh}
           memory == resolveOptionContracts(Names("option"))
<1>1. /\ ledger' = fresh /\ contracts' = rememberContracts(memory, learnt)
      /\ UNCHANGED <<call, card, status, orders>>
  BY DEF Poll
<1>2. ASSUME NEW id \in DOMAIN orders
      PROVE  /\ Lists(fresh[id], orders[id].means)
             /\ \A i \in DOMAIN fresh[id].legs :
                  Known(fresh[id].legs[i].contract, fresh[id].legs[i].contract.optionId)
  <2>1. WellFormed(orders[id].means)
    BY DEF CardInv, OrdersMeant
  <2>2. fresh[id] = Mapped(id, orders[id], brief)
    OBVIOUS
  <2> HIDE DEF fresh
  <2> QED
    BY <2>1, <2>2, MappedTells
<1>3. DOMAIN fresh = DOMAIN orders
  OBVIOUS
<1> HIDE DEF fresh
<1>4. OrdersMeant'
  BY <1>1 DEF CardInv, OrdersMeant
<1>5. LedgerTells'
  BY <1>1, <1>2, <1>3 DEF LedgerTells
<1>6. CardsTell'
  <2>1. \A a \in A : Aimed(call[a].means)' = Aimed(call[a].means)
    BY <1>1 DEF Aimed
  <2> QED
    BY <2>1, <1>1, CardsKept DEF CardInv
<1>7. ContractsKnown'
  <2>1. \A c \in learnt : Known(c, c.optionId)
    BY <1>2, <1>3
  <2>2. \A id \in DOMAIN memory : Known(memory[id], id)
    BY HeldAreListed, ResolveKnown DEF CardInv
  <2> HIDE DEF learnt, memory
  <2>3. \A id \in DOMAIN rememberContracts(memory, learnt) :
          Known(rememberContracts(memory, learnt)[id], id)
    BY <2>1, <2>2, RememberKnown
  <2> QED
    BY <2>3, <1>1 DEF ContractsKnown
<1> QED
  BY <1>4, <1>5, <1>6, <1>7 DEF CardInv

(* The order a plain cancel's card looks up is the one the call aims at. *)
LEMMA ReadAim ==
  ASSUME NEW i \in DOMAIN Approvals, NEW c \in Calls[Approvals[i]], c.tool \in MONEY_MOVERS
  PROVE  LET id == parseOrderInput(c.tool, c.input).cancelsOrderId
         IN  id # None => id = c.means.target /\ c.means.act = "cancel"
<1> DEFINE tool == c.tool
           o == c.input
<1>1. /\ c.means.act = ActOf(tool)
      /\ tool \in CancelTools \ ExerciseTools =>
           Says(Named(o, {"order_id", "id", "orderId"}), c.means.target)
  BY CallsAssumption DEF CancelSays
<1>2. tool \in MONEY_MOVERS
  OBVIOUS
<1> HIDE DEF tool, o
<1>3. tool \in CancelTools \ ExerciseTools => pick(o, <<"order_id", "id", "orderId">>) = c.means.target
  BY <1>1, PickOf3 DEF Says
<1>4. LET id == parseOrderInput(tool, o).cancelsOrderId
      IN  /\ tool \in CancelTools \ ExerciseTools => id = pick(o, <<"order_id", "id", "orderId">>)
          /\ tool \notin CancelTools \ ExerciseTools => id = None
  BY <1>2, ReadKind
<1>5. tool \in CancelTools \ ExerciseTools => c.means.act = "cancel"
  BY <1>1 DEF ActOf
<1> QED
  BY <1>3, <1>4, <1>5 DEF tool, o

LEMMA ProposeTells ==
  ASSUME TrailInv, CardInv, NEW a \in A, NEW c \in Calls[a], NEW answer \in {"none", "found", "late"},
         Propose(a, c, answer)
  PROVE  CardInv'
<1> DEFINE id == parseOrderInput(c.tool, c.input).cancelsOrderId
           target == Target(id)
           bare == Bare(c, target)
           t == Aimed(c.means)
<1>1. PICK i \in DOMAIN Approvals : Approvals[i] = a
  BY Ranks
<1>2. /\ c \in Calls[Approvals[i]] /\ c.tool \in MONEY_MOVERS /\ status[a] = "none"
      /\ call' = [call EXCEPT ![a] = c] /\ status' = [status EXCEPT ![a] = "pending"]
      /\ UNCHANGED <<orders, ledger>>
      /\ contracts' = IF answer = "none" THEN contracts
                      ELSE resolveOptionContracts(Wanted(bare) \ DOMAIN contracts)
      /\ card' = [card EXCEPT ![a] = Drawn(c, target, answer, contracts')]
  BY <1>1 DEF Propose, Drawn, Bare
<1>3. id # None => id = c.means.target /\ c.means.act = "cancel"
  BY <1>2, ReadAim
<1> HIDE DEF id
<1>4. target = None \/ (WellFormed(t) /\ Lists(target, t))
  <2> SUFFICES ASSUME target # None PROVE WellFormed(t) /\ Lists(target, t)
    OBVIOUS
  <2>1. ledger # None /\ id \in DOMAIN ledger /\ target = ledger[id]
    BY DEF Target
  <2>2. id \in DOMAIN orders
    BY <2>1 DEF TrailInv, LedgerFollows
  <2>3. id # None
    BY <2>2, NoneIsNoOrder
  <2>4. t = orders[id].means
    BY <2>2, <2>3, <1>3 DEF Aimed
  <2> QED
    BY <2>1, <2>2, <2>4 DEF CardInv, LedgerTells, OrdersMeant
<1>5. c.means.act # "cancel" \/ c.means.target = None => t = c.means
  BY NoneIsNoOrder DEF Aimed
<1> HIDE DEF target, t
<1>6. Sound(bare, c.means, t)
  BY <1>2, <1>4, <1>5, BareSound
<1> HIDE DEF bare
<1>7. \A x \in DOMAIN contracts' : Known(contracts'[x], x)
  <2>1. CASE answer = "none"
    BY <2>1, <1>2 DEF CardInv, ContractsKnown
  <2>2. CASE answer # "none"
    <3> DEFINE missing == Wanted(bare) \ DOMAIN contracts
    <3>1. missing \in SUBSET DOMAIN Facts
      BY <1>6, SoundTells
    <3>2. contracts' = resolveOptionContracts(missing)
      BY <2>2, <1>2
    <3> HIDE DEF missing
    <3>3. \A x \in DOMAIN resolveOptionContracts(missing) :
            Known(resolveOptionContracts(missing)[x], x)
      BY <3>1, ResolveKnown DEF CardInv
    <3> QED
      BY <3>2, <3>3
  <2> QED
    BY <2>1, <2>2
<1>8. Tells(Drawn(c, target, answer, contracts'), c.means, t)
  <2>1. PICK memory : memory = contracts'
    OBVIOUS
  <2>2. \A x \in DOMAIN memory : Known(memory[x], x)
    BY <1>7, <2>1
  <2>3. Sound(enrichOptionParsed(bare, memory), c.means, t)
    BY <1>6, <2>2, SoundNamed
  <2>4. Drawn(c, target, answer, contracts') \in {bare, enrichOptionParsed(bare, memory)}
    BY <2>1 DEF Drawn, bare
  <2> QED
    BY <2>3, <2>4, <1>6, SoundTells
<1>9. OrdersMeant' /\ LedgerTells' /\ ContractsKnown'
  BY <1>2, <1>7 DEF CardInv, OrdersMeant, LedgerTells, ContractsKnown
<1>10. CardsTell'
  <2> SUFFICES ASSUME NEW b \in A
               PROVE  IF status'[b] = "none" THEN card'[b] = None
                      ELSE Tells(card'[b], call'[b].means, Aimed(call[b].means)')
    BY DEF CardsTell
  <2>1. DOMAIN call = A /\ DOMAIN card = A /\ DOMAIN status = A
    BY DEF TrailInv, TrailTypes
  <2>2. CASE b = a
    <3>1. status'[a] = "pending" /\ call'[a] = c /\ card'[a] = Drawn(c, target, answer, contracts')
      BY <1>2, <2>1
    <3>2. Aimed(call[a].means)' = t
      BY <3>1, <1>2 DEF Aimed, t
    <3> QED
      BY <2>2, <3>1, <3>2, <1>8
  <2>3. CASE b # a
    <3>1. status'[b] = status[b] /\ call'[b] = call[b] /\ card'[b] = card[b]
      BY <1>2, <2>1, <2>3
    <3>2. Aimed(call[b].means)' = Aimed(call[b].means)
      BY <3>1, <1>2 DEF Aimed
    <3>3. IF status[b] = "none" THEN card[b] = None
          ELSE Tells(card[b], call[b].means, Aimed(call[b].means))
      BY DEF CardInv, CardsTell
    <3> QED
      BY <3>1, <3>2, <3>3
  <2> QED
    BY <2>2, <2>3
<1> QED
  BY <1>9, <1>10 DEF CardInv

LEMMA StepsCards == TrailInv /\ CardInv /\ [TrailNext]_trailVars => CardInv'
<1> SUFFICES ASSUME TrailInv, CardInv, [TrailNext]_trailVars PROVE CardInv'
  OBVIOUS
<1>1. CASE UNCHANGED trailVars
  BY <1>1, MeansKept DEF trailVars
<1>2. ASSUME NEW a \in A, NEW c \in Calls[a], NEW answer \in {"none", "found", "late"},
             Propose(a, c, answer)
      PROVE  CardInv'
  BY <1>2, ProposeTells
<1>3. ASSUME NEW a \in A, NEW v \in {"approved", "rejected", "expired"}, Finalize(a, v)
      PROVE  CardInv'
  BY <1>3, FinalizeTells
<1>4. ASSUME NEW a \in A, PlaceOrder(a) PROVE CardInv'
  BY <1>4, PlaceOrderTells
<1>5. ASSUME NEW a \in A, Age(a) \/ Refuse(a) \/ Exercise(a) \/ Cancel(a) \/ Observe(a) \/ ReportLost(a)
      PROVE  CardInv'
  <2>1. UNCHANGED <<call, card, status, orders, ledger, contracts>>
    BY <1>5 DEF Age, Refuse, Exercise, Cancel, Observe, ReportLost, gate
  <2> QED
    BY <2>1, MeansKept
<1>6. ASSUME NEW id \in DOMAIN orders \cap Moving,
             NEW s \in {"partially_filled", "filled", "cancelled", "rejected", "expired"}, Trade(id, s)
      PROVE  CardInv'
  BY <1>6, TradeTells
<1>7. ASSUME NEW brief \in BOOLEAN, Poll(brief) PROVE CardInv'
  BY <1>7, PollTells
<1> QED
  BY <1>1, <1>2, <1>3, <1>4, <1>5, <1>6, <1>7 DEF TrailNext

(* The card a user decides on never misstates the order: kind, side, size, *)
(* price, dollars, contract and the target of a cancel are left open or    *)
(* are those of the call, whatever the host knew of the ledger and of the  *)
(* contracts when it drew the card and whenever a lookup answered          *)
(* (approvals/parse.ts, approvals/index.ts, broker/robinhood/mapping.ts).  *)
THEOREM CardsHold == TrailSpec => []CardTellsTheOrder
<1>1. TrailInit => TrailInv /\ CardInv
  BY InitTrail, InitCards
<1>2. TrailInv /\ CardInv /\ [TrailNext]_trailVars => (TrailInv /\ CardInv)'
  BY StepsTrail, StepsCards
<1>3. CardInv => CardTellsTheOrder
  BY DEF CardInv, CardsTell, CardTellsTheOrder
<1> QED
  BY <1>1, <1>2, <1>3, PTL DEF TrailSpec

=============================================================================
