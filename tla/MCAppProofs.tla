---------------------------- MODULE MCAppProofs ----------------------------
(***************************************************************************)
(* The broker's session is sound for any number of calls of connect() and  *)
(* disconnect(), whatever joins, cancels or resets what                    *)
(* (services/broker/index.ts, robinhood/client.ts), and the launcher for   *)
(* any number of sockets its host has yet to see close (main/index.ts,     *)
(* updater.ts, gui-presence.ts): each as it is specified, and as the       *)
(* composition runs it.                                                    *)
(*                                                                         *)
(* The argument for the session is about one call at a time: what may be   *)
(* true of the session while that call is inside runConnect.  The launcher *)
(* is finite but for those sockets: its invariant says where an icon is    *)
(* left, and what the updater's flags stand for.                           *)
(***************************************************************************)
EXTENDS MCApp, TLAPS

(* Where a run of runConnect begins. *)
FirstStages == {"refresh", "bind", "accounts"}

(* Someone who waits will settle a status that a superseded consent left. *)
Superseder == \E i \in DOMAIN waiters : kind[waiters[i]] # "silent"
Settler == \E i \in DOMAIN ready : kind[ready[i]] # "silent"

(* What is true of the session while c is in flight, and only then. *)
RunOf(c) ==
  /\ stage[c] \in Flow <=> inflight = c
  /\ stage[c] \in Flow => kind[c] # "disconnect"
  /\ stage[c] \in Authorizing \cup {"bind"} => kind[c] = "interactive"
  /\ stage[c] \in Authorizing <=> redirect = c
  /\ stage[c] \in Authorizing /\ pending # c => Superseder
  /\ stage[c] = "firstPoll" <=> poll = "first" /\ inflight = c
  /\ stage[c] \in Flow \ {"firstPoll"} => status # "connected"
  /\ stage[c] \in Flow /\ ready # <<>> => stage[c] \in FirstStages

(* Who awaits the connect in flight, or has just been woken, waits, and once. *)
Queues ==
  /\ \A i \in DOMAIN waiters : stage[waiters[i]] = "wait"
  /\ \A i \in DOMAIN ready : stage[ready[i]] = "wait"
  /\ \A i, j \in DOMAIN waiters : waiters[i] = waiters[j] => i = j
  /\ \A i, j \in DOMAIN ready : ready[i] = ready[j] => i = j
  /\ \A i \in DOMAIN waiters, j \in DOMAIN ready : waiters[i] # ready[j]

(* The session as it stands, without its calls. *)
Whole ==
  /\ pending # NoCall => pending = redirect
  /\ status = "connecting" => inflight # NoCall \/ Settler
  /\ status = "connected" => client /\ (timer # "off" \/ poll = "first")
  /\ timer # "off" => status = "connected"
  /\ poll # "none" => status = "connected" /\ account
  /\ poll = "first" => inflight # NoCall
  /\ account => client /\ status = "connected"
  /\ timer = "fast" => focused

BInv == TypeOK /\ (\A c \in Calls : RunOf(c)) /\ Queues /\ Whole


LEMMA Stages ==
  /\ FirstStages \subseteq Flow /\ Authorizing \subseteq Flow
  /\ FirstStages \cap Authorizing = {} /\ "idle" \notin Flow /\ "wait" \notin Flow
  /\ "accounts" \notin Authorizing /\ "bind" \notin Authorizing /\ "refresh" \notin Authorizing
  /\ "firstPoll" \notin Authorizing /\ "firstPoll" \in Flow /\ "firstPoll" \notin FirstStages
  /\ "refresh" \in Flow /\ "bind" \in Flow /\ "accounts" \in Flow
  /\ "request" \in Authorizing /\ "consent" \in Authorizing
  /\ "exchange" \in Authorizing /\ "redo" \in Authorizing
  /\ \A s \in Authorizing : s \in Flow /\ s # "firstPoll" /\ s # "bind"
  BY DEF FirstStages, Flow, Authorizing

(* The types, said of each variable. *)
Types ==
  /\ status \in {"disconnected", "connecting", "connected", "error"}
  /\ inflight \in Calls \cup {NoCall} /\ pending \in Calls \cup {NoCall}
  /\ redirect \in Calls \cup {NoCall}
  /\ kind \in [Calls -> {"silent", "interactive", "disconnect"}]
  /\ stage \in [Calls -> Flow \cup {"idle", "wait"}]
  /\ waiters \in Seq(Calls) /\ ready \in Seq(Calls)
  /\ client \in BOOLEAN /\ tokens \in BOOLEAN /\ account \in BOOLEAN
  /\ focused \in BOOLEAN /\ autoTried \in BOOLEAN
  /\ poll \in {"none", "first", "timer"} /\ timer \in {"off", "fast", "slow"}

LEMMA TypesAre == TypeOK <=> Types
  BY DEF TypeOK, Types

(* The run in flight goes on to its next await. *)
LEMMA Advances ==
  ASSUME BInv, NEW c \in Calls, NEW s \in Flow, Settled, stage[c] \in Flow, Advance(c, s),
         Types', Whole',
         s \in Authorizing \cup {"bind"} => kind[c] = "interactive",
         redirect' \in {c, NoCall}, s \in Authorizing <=> redirect' = c,
         s \in Authorizing /\ pending' # c => stage[c] \in Authorizing /\ pending # c,
         s = "firstPoll" <=> poll' = "first",
         s # "firstPoll" => status' # "connected"
  PROVE  BInv'
<1>0. /\ Types /\ \A d \in Calls : RunOf(d)
      /\ stage' = [stage EXCEPT ![c] = s] /\ UNCHANGED <<inflight, kind, waiters, ready>>
      /\ NoCall \notin Calls /\ inflight = c
  BY TypesAre, NoCallAssumption DEF BInv, Advance, RunOf
<1>1. stage'[c] = s /\ \A d \in Calls : d # c => stage'[d] = stage[d]
  BY <1>0 DEF Types
<1>2. ASSUME NEW d \in Calls PROVE RunOf(d)'
  <2>1. CASE d = c
    <3>1. RunOf(c)
      BY <1>0
    <3>2. s \in Authorizing /\ pending' # c => Superseder'
      BY <1>0, <3>1 DEF RunOf, Superseder
    <3>3. ready' = <<>>
      BY <1>0 DEF Settled
    <3> QED
      BY <1>0, <1>1, <2>1, <3>1, <3>2, <3>3, Stages DEF RunOf
  <2>2. CASE d # c
    <3>1. stage'[d] = stage[d] /\ inflight' # d /\ stage[d] \notin Flow /\ redirect' # d
      BY <1>0, <1>1, <2>2 DEF RunOf
    <3> QED
      BY <3>1, Stages DEF RunOf
  <2> QED
    BY <2>1, <2>2
<1>3. Queues'
  <2>1. \A i \in DOMAIN waiters : waiters[i] # c /\ waiters[i] \in Calls
    BY <1>0, Stages DEF BInv, Queues, Types
  <2>2. ready' = <<>> /\ DOMAIN ready' = {}
    BY <1>0 DEF Settled
  <2> QED
    BY <1>0, <1>1, <2>1, <2>2 DEF BInv, Queues
<1> QED
  BY <1>2, <1>3 DEF BInv, TypeOK, Types

LEMMA AdvanceTypes ==
  ASSUME Types, NEW c \in Calls, NEW s \in Flow, Advance(c, s)
  PROVE  /\ inflight' \in Calls \cup {NoCall} /\ inflight' = inflight /\ ready' = ready
         /\ kind' \in [Calls -> {"silent", "interactive", "disconnect"}]
         /\ stage' \in [Calls -> Flow \cup {"idle", "wait"}]
         /\ waiters' \in Seq(Calls) /\ ready' \in Seq(Calls)
  BY DEF Types, Advance

(* The run in flight ends, and everyone who awaited it is woken. *)
LEMMA Settles ==
  ASSUME BInv, NEW c \in Calls, Settled, stage[c] \in Flow, SettleRun(c),
         Types', Whole', redirect' = NoCall, poll' # "first"
  PROVE  BInv'
<1>0. /\ Types /\ \A d \in Calls : RunOf(d)
      /\ stage' = [stage EXCEPT ![c] = "idle"] /\ inflight' = NoCall
      /\ ready' = waiters /\ waiters' = <<>> /\ UNCHANGED kind
      /\ NoCall \notin Calls /\ inflight = c
  BY TypesAre, NoCallAssumption DEF BInv, SettleRun, RunOf
<1>1. stage'[c] = "idle" /\ \A d \in Calls : d # c => stage'[d] = stage[d]
  BY <1>0 DEF Types
<1>2. ASSUME NEW d \in Calls PROVE RunOf(d)'
  <2>1. stage'[d] \notin Flow /\ inflight' # d /\ redirect' # d
    BY <1>0, <1>1, Stages DEF RunOf
  <2> QED
    BY <2>1, Stages DEF RunOf
<1>3. Queues'
  <2>1. \A i \in DOMAIN waiters : waiters[i] # c /\ waiters[i] \in Calls
    BY <1>0, Stages DEF BInv, Queues, Types
  <2>2. DOMAIN waiters' = {}
    BY <1>0
  <2> QED
    BY <1>0, <1>1, <2>1, <2>2 DEF BInv, Queues
<1> QED
  BY <1>2, <1>3 DEF BInv, TypeOK, Types

(* Nobody is in flight, or the run is not where this step reaches: the queues and the
   stages stay, and only the session moves. *)
LEMMA SessionMoves ==
  ASSUME BInv, UNCHANGED <<inflight, callVars, redirect>>, Types', Whole',
         pending' # pending => redirect = NoCall, (poll' = "first") <=> (poll = "first"),
         status' = "connected" => status = "connected"
  PROVE  BInv'
<1>0. Types /\ (\A d \in Calls : RunOf(d)) /\ Queues /\ NoCall \notin Calls
  BY TypesAre, NoCallAssumption DEF BInv
<1>1. UNCHANGED <<inflight, kind, stage, waiters, ready, redirect>>
  BY DEF callVars
<1>2. ASSUME NEW d \in Calls PROVE RunOf(d)'
  <2>1. RunOf(d) /\ Superseder' = Superseder
    BY <1>0, <1>1 DEF Superseder
  <2> QED
    BY <1>0, <1>1, <2>1 DEF RunOf
<1>3. Queues'
  BY <1>0, <1>1 DEF Queues
<1> QED
  BY <1>2, <1>3 DEF BInv, TypeOK, Types


-----------------------------------------------------------------------------
(* The steps of the session alone.                                           *)

LEMMA InitHolds == Init => BInv
<1> SUFFICES ASSUME Init PROVE BInv
  OBVIOUS
<1>1. Types
  <2>1. /\ kind \in [Calls -> {"silent", "interactive", "disconnect"}]
        /\ stage \in [Calls -> Flow \cup {"idle", "wait"}]
        /\ waiters \in Seq(Calls) /\ ready \in Seq(Calls)
    BY DEF Init
  <2> QED
    BY <2>1 DEF Init, Types
<1>2. ASSUME NEW c \in Calls PROVE RunOf(c)
  BY NoCallAssumption, Stages DEF Init, RunOf
<1>3. Queues /\ Whole
  BY DEF Init, Queues, Whole
<1> QED
  BY <1>1, <1>2, <1>3, TypesAre DEF BInv

(* While a timer's poll runs nobody is in flight and no consent is open. *)
LEMMA PollIsAlone ==
  ASSUME BInv, status = "connected", poll # "first"
  PROVE  inflight = NoCall /\ redirect = NoCall /\ pending = NoCall
<1>1. Types /\ \A d \in Calls : RunOf(d)
  BY TypesAre DEF BInv
<1>2. inflight = NoCall
  BY <1>1, Stages DEF RunOf, Types
<1>3. redirect = NoCall
  BY <1>1, <1>2, Stages, NoCallAssumption DEF RunOf, Types
<1> QED
  BY <1>2, <1>3 DEF BInv, Whole

LEMMA PollStep == ASSUME BInv, PollStarts \/ PollEnds \/ PollFindsDeadGrant PROVE BInv'
<1>0. Types /\ Whole
  BY TypesAre DEF BInv
<1>1. CASE PollStarts
  BY <1>0, <1>1, SessionMoves DEF PollStarts, Types, Whole, adapter, callVars, Settler
<1>2. CASE PollEnds
  BY <1>0, <1>2, SessionMoves DEF PollEnds, Types, Whole, adapter, callVars, Settler
<1>3. CASE PollFindsDeadGrant
  <2>1. redirect = NoCall /\ poll = "timer"
    BY <1>0, <1>3, PollIsAlone DEF PollFindsDeadGrant, Whole
  <2> QED
    BY <1>0, <1>3, <2>1, SessionMoves
    DEF PollFindsDeadGrant, ForgetSession, dropTokens, Types, Whole, callVars
<1> QED
  BY <1>1, <1>2, <1>3

LEMMA CadenceStep == ASSUME BInv, SetFocused \/ SettingsChanged PROVE BInv'
<1>0. Types /\ Whole
  BY TypesAre DEF BInv
<1>1. CASE SetFocused
  <2>1. /\ UNCHANGED <<status, inflight, account, poll, kind, stage, waiters, ready,
                       client, tokens, pending, redirect, autoTried>>
        /\ focused' = ~focused
        /\ timer' \in {"off", "slow", "fast"} /\ (timer = "off" <=> timer' = "off")
        /\ timer' = "fast" => focused'
    BY <1>0, <1>1 DEF SetFocused, Armed, Types, callVars, adapter
  <2> QED
    BY <1>0, <2>1, SessionMoves DEF Types, Whole, callVars, Settler
<1>2. CASE SettingsChanged
  <2>1. /\ UNCHANGED <<status, inflight, account, poll, kind, stage, waiters, ready,
                       client, tokens, pending, redirect, autoTried, focused>>
        /\ timer # "off" /\ timer' \in {"slow", "fast"} /\ (timer' = "fast" => focused)
    BY <1>0, <1>2 DEF SettingsChanged, StartPolling, Armed, Types, callVars, adapter
  <2> QED
    BY <1>0, <2>1, SessionMoves DEF Types, Whole, callVars, Settler
<1> QED
  BY <1>1, <1>2

-----------------------------------------------------------------------------
(* The run in flight, one answer at a time.                                  *)

(* What is known of the session at an answer for c. *)
LEMMA AtFacts ==
  ASSUME BInv, NEW c \in Calls, Settled, stage[c] \in Flow
  PROVE  /\ Types /\ Whole /\ RunOf(c) /\ inflight = c /\ c # NoCall
         /\ redirect = (IF stage[c] \in Authorizing THEN c ELSE NoCall)
         /\ stage[c] # "firstPoll" => status # "connected" /\ timer = "off"
                                      /\ poll = "none" /\ ~account
         /\ stage[c] = "firstPoll" => poll = "first"
         /\ ready = <<>> /\ ~Settler
<1>1. Types /\ Whole /\ \A d \in Calls : RunOf(d)
  BY TypesAre DEF BInv
<1>2. inflight = c /\ c # NoCall
  BY <1>1, NoCallAssumption DEF RunOf
<1>3. ready = <<>> /\ ~Settler
  BY DEF Settled, Settler
<1>4. \A d \in Calls : redirect = d => d = c
  BY <1>1, <1>2, Stages DEF RunOf
<1>5. redirect = (IF stage[c] \in Authorizing THEN c ELSE NoCall)
  BY <1>1, <1>2, <1>4 DEF RunOf, Types
<1>6. stage[c] # "firstPoll" => status # "connected"
  BY <1>1 DEF RunOf
<1> QED
  BY <1>1, <1>2, <1>3, <1>5, <1>6 DEF Whole, RunOf

(* A run that fails, whose gate is closed behind it. *)
LEMMA RunFails ==
  ASSUME BInv, NEW c \in Calls, Settled, stage[c] \in Flow \ {"firstPoll"},
         NEW outcome \in {"disconnected", "error", "superseded"}, EndRun(c, outcome),
         outcome = "superseded" /\ status = "connecting" => Superseder,
         redirect' = NoCall, pending' = NoCall, UNCHANGED <<focused, autoTried>>,
         UNCHANGED client, tokens' \in BOOLEAN
  PROVE  BInv'
<1>1. /\ Types /\ Whole /\ status # "connected" /\ timer = "off" /\ poll = "none" /\ ~account
  BY AtFacts
<1>2. /\ status' = (IF outcome = "superseded" THEN status ELSE outcome)
      /\ UNCHANGED <<account, poll, timer>> /\ SettleRun(c)
  BY DEF EndRun
<1>3. Types'
  <2>1. stage' \in [Calls -> Flow \cup {"idle", "wait"}]
    BY <1>1, <1>2 DEF SettleRun, Types
  <2>2. /\ inflight' = NoCall /\ ready' = waiters /\ waiters' = <<>> /\ kind' = kind
    BY <1>2 DEF SettleRun
  <2> QED
    BY <1>1, <1>2, <2>1, <2>2 DEF Types
<1>4. status' = "connecting" => Settler'
  BY <1>2 DEF SettleRun, Superseder, Settler
<1>5. Whole'
  BY <1>1, <1>2, <1>4 DEF Whole
<1> QED
  BY <1>1, <1>2, <1>3, <1>5, Settles


LEMMA RefreshStep == ASSUME BInv, NEW c \in Calls, RefreshAnswers(c) PROVE BInv'
<1>0. /\ Settled /\ stage[c] = "refresh" /\ UNCHANGED <<focused, autoTried>>
  BY DEF RefreshAnswers, At
<1>1. /\ Types /\ Whole /\ RunOf(c) /\ inflight = c /\ c # NoCall /\ redirect = NoCall /\ pending = NoCall
      /\ status # "connected" /\ timer = "off" /\ poll = "none" /\ ~account /\ ready = <<>>
      /\ stage[c] \in Flow \ {"firstPoll"}
  BY <1>0, AtFacts, Stages DEF Whole
<1>2. CASE /\ client' = TRUE /\ (saveTokens \/ UNCHANGED tokens) /\ Advance(c, "accounts")
           /\ UNCHANGED <<status, account, poll, timer, pending, redirect>>
  <2>1. Types'
    BY <1>0, <1>1, <1>2, AdvanceTypes, Stages DEF Types, saveTokens
  <2>2. Whole'
    BY <1>0, <1>1, <1>2, AdvanceTypes, Stages DEF Whole
  <2> QED
    BY <1>0, <1>1, <1>2, <2>1, <2>2, Advances, Stages
<1>3. CASE /\ kind[c] = "silent" /\ (dropTokens \/ UNCHANGED tokens)
           /\ EndRun(c, "disconnected") /\ UNCHANGED <<client, pending, redirect>>
  BY <1>0, <1>1, <1>3, RunFails DEF dropTokens, Types
<1>4. CASE /\ kind[c] = "interactive" /\ dropTokens /\ Advance(c, "bind")
           /\ UNCHANGED <<status, account, poll, timer, client, pending, redirect>>
  <2>1. Types'
    BY <1>0, <1>1, <1>4, AdvanceTypes, Stages DEF Types, dropTokens
  <2>2. Whole'
    BY <1>0, <1>1, <1>4, AdvanceTypes, Stages DEF Whole
  <2> QED
    BY <1>0, <1>1, <1>4, <2>1, <2>2, Advances, Stages
<1>5. CASE EndRun(c, "error") /\ UNCHANGED adapter
  BY <1>0, <1>1, <1>5, RunFails DEF adapter, Types
<1> QED
  BY <1>2, <1>3, <1>4, <1>5 DEF RefreshAnswers

LEMMA BindStep == ASSUME BInv, NEW c \in Calls, LoopbackBinds(c) PROVE BInv'
<1>0. /\ Settled /\ stage[c] = "bind" /\ UNCHANGED <<focused, autoTried>>
  BY DEF LoopbackBinds, At
<1>1. /\ Types /\ Whole /\ RunOf(c) /\ inflight = c /\ c # NoCall /\ redirect = NoCall /\ pending = NoCall
      /\ status # "connected" /\ timer = "off" /\ poll = "none" /\ ~account /\ ready = <<>>
      /\ stage[c] \in Flow \ {"firstPoll"} /\ kind[c] = "interactive"
  BY <1>0, AtFacts, Stages DEF Whole, RunOf
<1>2. CASE /\ pending' = c /\ beginAuthorization(c) /\ Advance(c, "request")
           /\ UNCHANGED <<status, account, poll, timer, client, tokens>>
  <2>1. Types' /\ redirect' = c
    BY <1>0, <1>1, <1>2, AdvanceTypes, Stages DEF Types, beginAuthorization
  <2>2. Whole'
    BY <1>0, <1>1, <1>2, <2>1, AdvanceTypes, Stages DEF Whole
  <2> QED
    BY <1>0, <1>1, <1>2, <2>1, <2>2, Advances, Stages
<1>3. CASE EndRun(c, "error") /\ UNCHANGED adapter
  BY <1>0, <1>1, <1>3, RunFails DEF adapter, Types
<1> QED
  BY <1>2, <1>3 DEF LoopbackBinds

(* The awaits of a consent: the gate is open, and pending is its own or cancelled. *)
LEMMA ConsentStep ==
  ASSUME BInv, NEW c \in Calls,
         RequestAnswers(c) \/ ConsentAnswers(c) \/ ExchangeAnswers(c) \/ RedoAnswers(c)
  PROVE  BInv'
<1>0. /\ Settled /\ stage[c] \in Authorizing /\ UNCHANGED <<focused, autoTried>>
  BY Stages DEF RequestAnswers, ConsentAnswers, ExchangeAnswers, RedoAnswers, At
<1>1. /\ Types /\ Whole /\ RunOf(c) /\ inflight = c /\ c # NoCall /\ redirect = c /\ pending \in {c, NoCall}
      /\ status # "connected" /\ timer = "off" /\ poll = "none" /\ ~account /\ ready = <<>>
      /\ stage[c] \in Flow \ {"firstPoll"} /\ kind[c] = "interactive"
      /\ (pending # c => Superseder)
  BY <1>0, AtFacts, Stages DEF Whole, RunOf
<1>2. EndAuthorization(c) => redirect' = NoCall /\ pending' = NoCall
  BY <1>1 DEF EndAuthorization
<1>3. ASSUME NEW s \in Authorizing, Advance(c, s), UNCHANGED <<status, account, poll, timer,
             client, pending, redirect>>, tokens' \in BOOLEAN
      PROVE  BInv'
  <2>1. Types'
    BY <1>0, <1>1, <1>3, AdvanceTypes, Stages DEF Types
  <2>2. Whole'
    BY <1>0, <1>1, <1>3, AdvanceTypes, Stages DEF Whole
  <2> QED
    BY <1>0, <1>1, <1>3, <2>1, <2>2, Advances, Stages
<1>4. ASSUME EndAuthorization(c), Advance(c, "accounts"), client' = TRUE,
             UNCHANGED <<status, account, poll, timer, tokens>>
      PROVE  BInv'
  <2>1. Types'
    BY <1>0, <1>1, <1>2, <1>4, AdvanceTypes, Stages DEF Types
  <2>2. Whole'
    BY <1>0, <1>1, <1>2, <1>4, AdvanceTypes, Stages DEF Whole
  <2> QED
    BY <1>0, <1>1, <1>2, <1>4, <2>1, <2>2, Advances, Stages
<1>5. ASSUME EndAuthorization(c), NEW outcome \in {"error", "superseded"},
             EndRun(c, outcome), outcome = "superseded" => pending # c,
             UNCHANGED <<client, tokens>>
      PROVE  BInv'
  BY <1>0, <1>1, <1>2, <1>5, RunFails DEF Types
<1>6. CASE RequestAnswers(c)
  BY <1>1, <1>3, <1>4, <1>5, <1>6, Stages DEF RequestAnswers, adapter, Types
<1>7. CASE ConsentAnswers(c)
  BY <1>1, <1>3, <1>5, <1>7, Stages DEF ConsentAnswers, adapter, Types
<1>8. CASE ExchangeAnswers(c)
  BY <1>1, <1>3, <1>5, <1>8, Stages DEF ExchangeAnswers, saveTokens
<1>9. CASE RedoAnswers(c)
  BY <1>4, <1>5, <1>9 DEF RedoAnswers
<1> QED
  BY <1>6, <1>7, <1>8, <1>9

LEMMA AccountsStep == ASSUME BInv, NEW c \in Calls, AccountsAnswer(c) PROVE BInv'
<1>0. /\ Settled /\ stage[c] = "accounts" /\ UNCHANGED <<focused, autoTried>>
  BY DEF AccountsAnswer, At
<1>1. /\ Types /\ Whole /\ RunOf(c) /\ inflight = c /\ c # NoCall /\ redirect = NoCall /\ pending = NoCall
      /\ status # "connected" /\ timer = "off" /\ poll = "none" /\ ~account /\ ready = <<>>
      /\ stage[c] \in Flow \ {"firstPoll"}
  BY <1>0, AtFacts, Stages DEF Whole
<1>2. CASE /\ client /\ account' = TRUE /\ status' = "connected" /\ poll' = "first"
           /\ Advance(c, "firstPoll") /\ UNCHANGED <<timer, adapter>>
  <2>1. Types'
    BY <1>0, <1>1, <1>2, AdvanceTypes, Stages DEF Types, adapter
  <2>2. Whole'
    BY <1>0, <1>1, <1>2, AdvanceTypes, Stages, NoCallAssumption DEF Whole, adapter
  <2> QED
    BY <1>0, <1>1, <1>2, <2>1, <2>2, Advances, Stages DEF adapter
<1>3. CASE /\ client /\ account' = FALSE /\ status' = "connected" /\ StartPolling
           /\ SettleRun(c) /\ UNCHANGED <<poll, adapter>>
  <2>1. timer' \in {"slow", "fast"} /\ (timer' = "fast" => focused)
    BY <1>1, <1>3 DEF StartPolling, Armed, Types
  <2>2. Types'
    BY <1>0, <1>1, <1>3, <2>1, Stages DEF Types, SettleRun, adapter
  <2>3. Whole'
    BY <1>0, <1>1, <1>3, <2>1 DEF Whole, adapter
  <2> QED
    BY <1>0, <1>1, <1>3, <2>2, <2>3, Settles DEF adapter
<1>4. CASE EndRun(c, "error") /\ UNCHANGED adapter
  BY <1>0, <1>1, <1>4, RunFails DEF adapter, Types
<1>5. CASE ~client /\ EndRun(c, "disconnected") /\ UNCHANGED adapter
  BY <1>0, <1>1, <1>5, RunFails DEF adapter, Types
<1> QED
  BY <1>2, <1>3, <1>4, <1>5 DEF AccountsAnswer

LEMMA FirstPollStep == ASSUME BInv, NEW c \in Calls, FirstPollEnds(c) PROVE BInv'
<1>0. /\ Settled /\ stage[c] = "firstPoll" /\ UNCHANGED <<focused, autoTried>> /\ SettleRun(c)
  BY DEF FirstPollEnds, At
<1>1. /\ Types /\ Whole /\ RunOf(c) /\ inflight = c /\ c # NoCall /\ redirect = NoCall /\ pending = NoCall
      /\ status = "connected" /\ poll = "first" /\ ready = <<>> /\ stage[c] \in Flow
  BY <1>0, AtFacts, Stages DEF Whole
<1>2. /\ inflight' = NoCall /\ ready' = waiters /\ waiters' = <<>> /\ kind' = kind
      /\ stage' \in [Calls -> Flow \cup {"idle", "wait"}]
  BY <1>0, <1>1 DEF SettleRun, Types
<1>3. CASE /\ poll' = "none" /\ StartPolling /\ UNCHANGED <<status, account, adapter>>
  <2>1. timer' \in {"slow", "fast"} /\ (timer' = "fast" => focused)
    BY <1>1, <1>3 DEF StartPolling, Armed, Types
  <2>2. Types' /\ Whole'
    BY <1>0, <1>1, <1>2, <1>3, <2>1 DEF Types, Whole, adapter
  <2> QED
    BY <1>0, <1>1, <1>3, <2>2, Settles DEF adapter
<1>4. CASE ForgetSession
  <2>1. Types' /\ Whole'
    BY <1>0, <1>1, <1>2, <1>4 DEF Types, Whole, ForgetSession, dropTokens
  <2> QED
    BY <1>0, <1>1, <1>4, <2>1, Settles DEF ForgetSession
<1> QED
  BY <1>1, <1>3, <1>4 DEF FirstPollEnds


-----------------------------------------------------------------------------
(* Calls that begin, join, are woken or return.                              *)

(* The call c, new or woken from the head of ready, is looked at; rest is what is
   left of ready. *)
Looked(c, rest) ==
  \/ stage[c] = "idle" /\ rest = ready
  \/ ready # <<>> /\ c = Head(ready) /\ rest = Tail(ready)

LEMMA LookedFacts ==
  ASSUME BInv, NEW c \in Calls, NEW rest, Looked(c, rest)
  PROVE  /\ stage[c] \notin Flow /\ inflight # c /\ redirect # c /\ stage[c] # "firstPoll"
         /\ rest \in Seq(Calls) /\ (ready = <<>> => rest = <<>>)
         /\ \A i \in DOMAIN waiters : waiters[i] \in Calls /\ waiters[i] # c
         /\ \A i \in DOMAIN rest : rest[i] \in Calls /\ rest[i] # c /\ stage[rest[i]] = "wait"
         /\ \A i, j \in DOMAIN rest : rest[i] = rest[j] => i = j
         /\ \A i \in DOMAIN waiters, j \in DOMAIN rest : waiters[i] # rest[j]
<1>0. Types /\ (\A d \in Calls : RunOf(d)) /\ Queues
  BY TypesAre DEF BInv
<1>1. CASE stage[c] = "idle" /\ rest = ready
  BY <1>0, <1>1, Stages DEF RunOf, Queues, Types
<1>2. CASE ready # <<>> /\ c = Head(ready) /\ rest = Tail(ready)
  <2>1. /\ c = ready[1] /\ 1 \in DOMAIN ready /\ rest \in Seq(Calls)
        /\ Len(rest) = Len(ready) - 1 /\ Len(ready) \in Nat /\ DOMAIN rest = 1 .. Len(rest)
        /\ DOMAIN ready = 1 .. Len(ready)
        /\ \A i \in DOMAIN rest : i + 1 \in DOMAIN ready /\ rest[i] = ready[i + 1] /\ i \in Nat
                                  /\ i # 0
    BY <1>0, <1>2 DEF Types
  <2>2. stage[c] = "wait" /\ stage[c] \notin Flow
    BY <1>0, <2>1, Stages DEF Queues
  <2>3. \A i \in DOMAIN waiters : waiters[i] \in Calls /\ waiters[i] # c
    <3>1. \A i \in DOMAIN waiters : waiters[i] \in Calls
      BY <1>0 DEF Types
    <3>2. \A i \in DOMAIN waiters : waiters[i] # ready[1]
      BY <1>0, <2>1 DEF Queues
    <3> QED
      BY <2>1, <3>1, <3>2
  <2>4. \A i \in DOMAIN rest : rest[i] \in Calls /\ rest[i] # c /\ stage[rest[i]] = "wait"
    <3> SUFFICES ASSUME NEW i \in DOMAIN rest
                 PROVE  rest[i] \in Calls /\ rest[i] # c /\ stage[rest[i]] = "wait"
      OBVIOUS
    <3>1. i + 1 # 1 /\ i + 1 \in DOMAIN ready /\ rest[i] = ready[i + 1]
      BY <2>1
    <3> QED
      BY <1>0, <2>1, <3>1 DEF Queues, Types
  <2>5. \A i, j \in DOMAIN rest : rest[i] = rest[j] => i = j
    <3> SUFFICES ASSUME NEW i \in DOMAIN rest, NEW j \in DOMAIN rest, rest[i] = rest[j]
                 PROVE  i = j
      OBVIOUS
    <3>1. i + 1 = j + 1
      BY <1>0, <2>1 DEF Queues
    <3> QED
      BY <2>1, <3>1
  <2>6. \A i \in DOMAIN waiters, j \in DOMAIN rest : waiters[i] # rest[j]
    BY <1>0, <2>1 DEF Queues
  <2> QED
    BY <1>0, <1>2, <2>1, <2>2, <2>3, <2>4, <2>5, <2>6, Stages DEF RunOf
<1> QED
  BY <1>1, <1>2 DEF Looked

(* Someone among the waiters, or the woken, still settles a superseded status. *)
LEMMA KindsKept ==
  ASSUME BInv, NEW c \in Calls, NEW rest, Looked(c, rest),
         \A d \in Calls : d # c => kind'[d] = kind[d]
  PROVE  /\ \A i \in DOMAIN waiters : kind'[waiters[i]] = kind[waiters[i]]
         /\ \A i \in DOMAIN rest : kind'[rest[i]] = kind[rest[i]]
  BY LookedFacts

(* It returns: the status, the account and the client may have been forgotten. *)
LEMMA Leaves ==
  ASSUME BInv, NEW c \in Calls, NEW rest, Looked(c, rest),
         UNCHANGED <<inflight, redirect, waiters>>, ready' = rest,
         stage'[c] = "idle", \A d \in Calls : d # c => stage'[d] = stage[d] /\ kind'[d] = kind[d],
         Types', Whole',
         pending' # pending => redirect = NoCall, (poll' = "first") <=> (poll = "first"),
         status' = "connected" => status = "connected"
  PROVE  BInv'
<1>0. Types /\ (\A d \in Calls : RunOf(d)) /\ Queues /\ NoCall \notin Calls
  BY TypesAre, NoCallAssumption DEF BInv
<1>1. Superseder => Superseder'
  BY KindsKept DEF Superseder
<1>2. ASSUME NEW d \in Calls PROVE RunOf(d)'
  <2>1. CASE d = c
    BY <2>1, LookedFacts, Stages DEF RunOf
  <2>2. CASE d # c
    <3>1. RunOf(d) /\ stage'[d] = stage[d] /\ kind'[d] = kind[d]
      BY <1>0, <2>2
    <3>2. ready' # <<>> => ready # <<>>
      BY LookedFacts
    <3> QED
      BY <1>0, <1>1, <3>1, <3>2 DEF RunOf
  <2> QED
    BY <2>1, <2>2
<1>3. Queues'
  <2>1. /\ \A i \in DOMAIN waiters : stage'[waiters[i]] = "wait"
        /\ \A i \in DOMAIN rest : stage'[rest[i]] = "wait"
    BY <1>0, LookedFacts DEF Queues
  <2> QED
    BY <1>0, <2>1, LookedFacts DEF Queues
<1> QED
  BY <1>2, <1>3 DEF BInv, TypeOK, Types

(* It waits for the connect in flight, perhaps having cancelled its consent. *)
LEMMA Joins ==
  ASSUME BInv, NEW c \in Calls, NEW rest, Looked(c, rest),
         inflight # NoCall, UNCHANGED <<inflight, redirect, status, poll>>, ready' = rest,
         waiters' = Append(waiters, c), stage'[c] = "wait",
         \A d \in Calls : d # c => stage'[d] = stage[d] /\ kind'[d] = kind[d],
         Types', Whole',
         pending' = pending \/ kind'[c] # "silent"
  PROVE  BInv'
<1>0. Types /\ (\A d \in Calls : RunOf(d)) /\ Queues /\ NoCall \notin Calls
  BY TypesAre, NoCallAssumption DEF BInv
<1>1. PICK n \in Nat : n = Len(waiters)
  BY <1>0 DEF Types
<1>2. /\ DOMAIN waiters = 1 .. n /\ DOMAIN waiters' = 1 .. (n + 1) /\ waiters'[n + 1] = c
      /\ \A i \in 1 .. n : waiters'[i] = waiters[i]
  BY <1>0, <1>1 DEF Types
<1>3. \A i \in 1 .. (n + 1) : i = n + 1 \/ i \in 1 .. n
  BY <1>1
<1>4. n + 1 \in DOMAIN waiters' /\ \A i \in 1 .. n : i \in DOMAIN waiters'
  BY <1>1, <1>2
<1>5. (Superseder \/ pending' # pending) => Superseder'
  <2>1. Superseder => Superseder'
    BY <1>2, <1>4, KindsKept DEF Superseder
  <2> QED
    BY <1>2, <1>4, <2>1 DEF Superseder
<1>6. ASSUME NEW d \in Calls PROVE RunOf(d)'
  <2>1. CASE d = c
    BY <2>1, LookedFacts, Stages DEF RunOf
  <2>2. CASE d # c
    <3>1. RunOf(d) /\ stage'[d] = stage[d] /\ kind'[d] = kind[d]
      BY <1>0, <2>2
    <3>2. ready' # <<>> => ready # <<>>
      BY LookedFacts
    <3> QED
      BY <1>0, <1>5, <3>1, <3>2 DEF RunOf
  <2> QED
    BY <2>1, <2>2
<1>7. Queues'
  <2>1. /\ \A i \in DOMAIN waiters : stage'[waiters[i]] = "wait"
        /\ \A i \in DOMAIN rest : stage'[rest[i]] = "wait"
    BY <1>0, LookedFacts DEF Queues
  <2>2. \A i \in DOMAIN waiters' : stage'[waiters'[i]] = "wait"
    BY <1>2, <1>3, <2>1
  <2>3. \A i, j \in DOMAIN waiters' : waiters'[i] = waiters'[j] => i = j
    BY <1>0, <1>2, <1>3, LookedFacts DEF Queues
  <2>4. \A i \in DOMAIN waiters', j \in DOMAIN rest : waiters'[i] # rest[j]
    BY <1>2, <1>3, LookedFacts
  <2> QED
    BY <1>0, <2>1, <2>2, <2>3, <2>4, LookedFacts DEF Queues
<1> QED
  BY <1>6, <1>7 DEF BInv, TypeOK, Types

(* It runs. *)
LEMMA Begins ==
  ASSUME BInv, NEW c \in Calls, NEW rest, Looked(c, rest),
         inflight = NoCall, inflight' = c, UNCHANGED <<redirect, pending, waiters, poll>>,
         ready' = rest, stage'[c] \in FirstStages, kind'[c] # "disconnect",
         stage'[c] = "bind" => kind'[c] = "interactive", status' # "connected",
         \A d \in Calls : d # c => stage'[d] = stage[d] /\ kind'[d] = kind[d],
         Types', Whole'
  PROVE  BInv'
<1>0. Types /\ Whole /\ (\A d \in Calls : RunOf(d)) /\ Queues /\ NoCall \notin Calls
  BY TypesAre, NoCallAssumption DEF BInv
<1>1. redirect = NoCall /\ poll # "first"
  BY <1>0, Stages DEF RunOf, Types, Whole
<1>2. ASSUME NEW d \in Calls PROVE RunOf(d)'
  <2>1. CASE d = c
    BY <1>0, <1>1, <2>1, Stages DEF RunOf
  <2>2. CASE d # c
    BY <1>0, <1>1, <2>2, Stages DEF RunOf
  <2> QED
    BY <2>1, <2>2
<1>3. Queues'
  <2>1. /\ \A i \in DOMAIN waiters : stage'[waiters[i]] = "wait"
        /\ \A i \in DOMAIN rest : stage'[rest[i]] = "wait"
    BY <1>0, LookedFacts DEF Queues
  <2> QED
    BY <1>0, <2>1, LookedFacts DEF Queues
<1> QED
  BY <1>2, <1>3 DEF BInv, TypeOK, Types


LEMMA ConnectKeeps ==
  ASSUME BInv, NEW c \in Calls, NEW rest, Looked(c, rest),
         NEW k \in {"silent", "interactive"}, k = "silent" => tokens,
         ConnectStep(c, k, rest), UNCHANGED focused, autoTried' \in BOOLEAN
  PROVE  BInv'
<1>0. Types /\ Whole /\ (\A d \in Calls : RunOf(d)) /\ rest \in Seq(Calls)
  BY TypesAre, LookedFacts DEF BInv
<1>1. /\ kind' \in [Calls -> {"silent", "interactive", "disconnect"}] /\ kind'[c] = k
      /\ \A d \in Calls : d # c => kind'[d] = kind[d]
  BY <1>0 DEF ConnectStep, Started, Types
<1>2. CASE /\ inflight # NoCall /\ status # "connected"
           /\ stage' = [stage EXCEPT ![c] = "wait"]
           /\ waiters' = Append(waiters, c)
           /\ pending' = IF k = "interactive" THEN NoCall ELSE pending
           /\ ready' = rest
           /\ UNCHANGED <<service, client, tokens, redirect>>
  <2>1. UNCHANGED <<status, inflight, account, poll, timer>>
    BY <1>2 DEF service
  <2>2. /\ stage' \in [Calls -> Flow \cup {"idle", "wait"}] /\ stage'[c] = "wait"
        /\ \A d \in Calls : d # c => stage'[d] = stage[d]
    BY <1>0, <1>2 DEF Types
  <2>3. Types'
    BY <1>0, <1>1, <1>2, <2>1, <2>2 DEF Types
  <2>4. Whole'
    BY <1>0, <1>2, <2>1 DEF Whole
  <2> QED
    BY <1>1, <1>2, <2>1, <2>2, <2>3, <2>4, Joins
<1>3. CASE /\ status = "connected"
           /\ stage' = [stage EXCEPT ![c] = "idle"]
           /\ ready' = rest
           /\ UNCHANGED <<service, waiters, adapter>>
  <2>1. UNCHANGED <<status, inflight, account, poll, timer, client, tokens, pending, redirect>>
    BY <1>3 DEF service, adapter
  <2>2. /\ stage' \in [Calls -> Flow \cup {"idle", "wait"}] /\ stage'[c] = "idle"
        /\ \A d \in Calls : d # c => stage'[d] = stage[d]
    BY <1>0, <1>3 DEF Types
  <2>3. Types'
    BY <1>0, <1>1, <1>3, <2>1, <2>2 DEF Types
  <2>4. Whole'
    BY <1>0, <1>3, <2>1 DEF Whole
  <2> QED
    BY <1>1, <1>3, <2>1, <2>2, <2>3, <2>4, Leaves
<1>4. CASE /\ inflight = NoCall /\ status # "connected"
           /\ status' = "connecting"
           /\ inflight' = c
           /\ stage' = [stage EXCEPT ![c] = FirstStage]
           /\ ready' = rest
           /\ UNCHANGED <<account, poll, timer, waiters, adapter>>
  <2>1. /\ FirstStage \in FirstStages
        /\ (FirstStage = "bind" => k = "interactive")
    BY DEF FirstStage, FirstStages
  <2>2. /\ stage' \in [Calls -> Flow \cup {"idle", "wait"}] /\ stage'[c] = FirstStage
        /\ \A d \in Calls : d # c => stage'[d] = stage[d]
    BY <1>0, <1>4, <2>1, Stages DEF Types
  <2>3. Types'
    BY <1>0, <1>1, <1>4, <2>2 DEF Types, adapter
  <2>4. Whole'
    BY <1>0, <1>4, NoCallAssumption DEF Whole, adapter
  <2> QED
    BY <1>1, <1>4, <2>1, <2>2, <2>3, <2>4, Begins DEF adapter
<1> QED
  BY <1>2, <1>3, <1>4 DEF ConnectStep

(* disconnect() that finds a connect in flight waits for it; else it forgets. *)
LEMMA DisconnectKeeps ==
  ASSUME BInv, NEW c \in Calls, stage[c] = "idle", Settled, DisconnectStarts(c),
         UNCHANGED <<focused, autoTried>>
  PROVE  BInv'
<1>0. /\ Types /\ Whole /\ (\A d \in Calls : RunOf(d)) /\ Looked(c, ready) /\ ready' = ready
      /\ ready = <<>>
  BY TypesAre DEF BInv, Looked, DisconnectStarts, Settled
<1>1. /\ kind' \in [Calls -> {"silent", "interactive", "disconnect"}] /\ kind'[c] = "disconnect"
      /\ \A d \in Calls : d # c => kind'[d] = kind[d]
  BY <1>0 DEF DisconnectStarts, Started, Types
<1>2. CASE inflight # NoCall
  <2>1. /\ UNCHANGED <<status, inflight, account, poll, timer, client, tokens, redirect>>
        /\ stage' = [stage EXCEPT ![c] = "wait"] /\ waiters' = Append(waiters, c)
        /\ pending' = NoCall
    BY <1>2 DEF DisconnectStarts, service
  <2>2. /\ stage' \in [Calls -> Flow \cup {"idle", "wait"}] /\ stage'[c] = "wait"
        /\ \A d \in Calls : d # c => stage'[d] = stage[d]
    BY <1>0, <2>1 DEF Types
  <2>3. Types'
    BY <1>0, <1>1, <2>1, <2>2 DEF Types
  <2>4. Whole'
    BY <1>0, <1>2, <2>1 DEF Whole
  <2> QED
    BY <1>0, <1>1, <1>2, <2>1, <2>2, <2>3, <2>4, Joins
<1>3. CASE inflight = NoCall
  <2>1. ForgetSession /\ UNCHANGED <<stage, waiters, inflight>>
    BY <1>3 DEF DisconnectStarts
  <2>2. redirect = NoCall /\ poll # "first"
    BY <1>0, <1>3, NoCallAssumption, Stages DEF RunOf, Types, Whole
  <2>3. Types' /\ Whole'
    BY <1>0, <1>1, <2>1 DEF Types, Whole, ForgetSession, dropTokens
  <2> QED
    BY <1>0, <1>1, <2>1, <2>2, <2>3, Leaves DEF ForgetSession
<1> QED
  BY <1>2, <1>3

LEMMA CallStep ==
  ASSUME BInv, NEW c \in Calls, UserConnects(c) \/ BootConnects(c) \/ UserDisconnects(c)
  PROVE  BInv'
<1>0. Types /\ stage[c] = "idle" /\ Settled /\ Looked(c, ready)
  BY TypesAre DEF BInv, UserConnects, BootConnects, UserDisconnects, Looked
<1>1. CASE UserConnects(c)
  BY <1>0, <1>1, ConnectKeeps DEF UserConnects, Types
<1>2. CASE BootConnects(c)
  BY <1>0, <1>2, ConnectKeeps DEF BootConnects, Types
<1>3. CASE UserDisconnects(c)
  BY <1>0, <1>3, DisconnectKeeps DEF UserDisconnects
<1> QED
  BY <1>1, <1>2, <1>3

(* The await is over for the head of ready. *)
LEMMA ResumeStep == ASSUME BInv, Resume PROVE BInv'
<1>0. /\ Types /\ Whole /\ (\A d \in Calls : RunOf(d)) /\ ready # <<>>
      /\ UNCHANGED <<focused, autoTried>>
  BY TypesAre DEF BInv, Resume
<1>1. PICK c, rest : c = Head(ready) /\ rest = Tail(ready)
  OBVIOUS
<1>2. c \in Calls /\ Looked(c, rest) /\ rest \in Seq(Calls)
  BY <1>0, <1>1 DEF Types, Looked
<1>3. /\ ready[1] = c /\ DOMAIN ready = 1 .. Len(ready) /\ Len(ready) \in Nat
      /\ DOMAIN rest = 1 .. Len(rest) /\ Len(rest) = Len(ready) - 1
      /\ \A i \in 1 .. Len(rest) : rest[i] = ready[i + 1]
  BY <1>0, <1>1, <1>2 DEF Types
<1>4. CASE /\ kind[c] = "silent"
           /\ stage' = [stage EXCEPT ![c] = "idle"]
           /\ ready' = rest
           /\ UNCHANGED <<service, adapter, kind, waiters>>
  <2>1. UNCHANGED <<status, inflight, account, poll, timer, client, tokens, pending, redirect>>
    BY <1>4 DEF service, adapter
  <2>2. /\ stage' \in [Calls -> Flow \cup {"idle", "wait"}] /\ stage'[c] = "idle"
        /\ \A d \in Calls : d # c => stage'[d] = stage[d]
    BY <1>0, <1>2, <1>4 DEF Types
  <2>3. Types'
    BY <1>0, <1>2, <1>4, <2>1, <2>2 DEF Types
  <2>4. Settler => Settler'
    <3> SUFFICES ASSUME NEW i \in DOMAIN ready, kind[ready[i]] # "silent" PROVE Settler'
      BY DEF Settler
    <3>1. i \in Nat /\ i # 1 /\ i - 1 \in 1 .. Len(rest)
      BY <1>3, <1>4
    <3>2. rest[i - 1] = ready[i]
      BY <1>3, <3>1
    <3> QED
      BY <1>3, <1>4, <3>1, <3>2 DEF Settler
  <2>5. Whole'
    BY <1>0, <1>4, <2>1, <2>4 DEF Whole
  <2> QED
    BY <1>0, <1>2, <1>4, <2>1, <2>2, <2>3, <2>5, Leaves
<1>5. CASE kind[c] = "interactive" /\ ConnectStep(c, "interactive", rest)
  BY <1>0, <1>2, <1>5, ConnectKeeps DEF Types
<1>6. CASE /\ kind[c] = "disconnect"
           /\ ForgetSession
           /\ stage' = [stage EXCEPT ![c] = "idle"]
           /\ ready' = rest
           /\ UNCHANGED <<inflight, kind, waiters>>
  <2>1. redirect = NoCall /\ poll # "first"
    <3>1. \A d \in Calls : stage[d] \in Flow => stage[d] \notin Authorizing
                                                 /\ stage[d] # "firstPoll"
      BY <1>0, Stages DEF RunOf
    <3> QED
      BY <1>0, <3>1, NoCallAssumption, Stages DEF RunOf, Types, Whole
  <2>2. /\ stage' \in [Calls -> Flow \cup {"idle", "wait"}] /\ stage'[c] = "idle"
        /\ \A d \in Calls : d # c => stage'[d] = stage[d]
    BY <1>0, <1>2, <1>6 DEF Types
  <2>3. Types' /\ Whole'
    BY <1>0, <1>2, <1>6, <2>2 DEF Types, Whole, ForgetSession, dropTokens
  <2> QED
    BY <1>2, <1>6, <2>1, <2>2, <2>3, Leaves DEF ForgetSession
<1> QED
  BY <1>1, <1>4, <1>5, <1>6 DEF Resume

(* A new host knows of no call. *)
LEMMA RestartStep == ASSUME BInv, Restart PROVE BInv'
<1>1. Types'
  <2>1. Types
    BY TypesAre DEF BInv
  <2>2. /\ stage' \in [Calls -> Flow \cup {"idle", "wait"}]
        /\ waiters' \in Seq(Calls) /\ ready' \in Seq(Calls)
    BY DEF Restart
  <2> QED
    BY <2>1, <2>2 DEF Types, Restart
<1>2. ASSUME NEW d \in Calls PROVE RunOf(d)'
  BY NoCallAssumption, Stages DEF Restart, RunOf
<1>3. Queues' /\ Whole'
  BY DEF Restart, Queues, Whole
<1> QED
  BY <1>1, <1>2, <1>3 DEF BInv, TypeOK, Types

-----------------------------------------------------------------------------
(* The specification.                                                        *)

LEMMA SessionStep == BInv /\ [Next]_vars => BInv'
<1> SUFFICES ASSUME BInv, [Next]_vars PROVE BInv'
  OBVIOUS
<1>1. ASSUME NEW c \in Calls, UserConnects(c) \/ BootConnects(c) \/ UserDisconnects(c)
      PROVE  BInv'
  BY <1>1, CallStep
<1>2. ASSUME NEW c \in Calls, Answers(c) PROVE BInv'
  BY <1>2, RefreshStep, BindStep, ConsentStep, AccountsStep, FirstPollStep DEF Answers
<1>3. CASE Resume \/ Restart \/ PollStarts \/ PollEnds \/ PollFindsDeadGrant
           \/ SetFocused \/ SettingsChanged
  BY <1>3, ResumeStep, RestartStep, PollStep, CadenceStep
<1>4. CASE UNCHANGED vars
  BY <1>4 DEF vars, service, callVars, adapter, BInv, TypeOK, RunOf, Superseder, Settler,
              Queues, Whole
<1> QED
  BY <1>1, <1>2, <1>3, <1>4 DEF Next

(* The inductive invariant of the session: at most one call is inside runConnect, the
   browser gate is open for its consent only, a consent that was cancelled has someone
   waiting to settle the status, and who waits is woken once. *)
THEOREM SessionInductive == Spec => []BInv
  BY InitHolds, SessionStep, PTL DEF Spec

LEMMA SessionWhole == BInv => SessionSound
<1> SUFFICES ASSUME BInv PROVE SessionSound
  OBVIOUS
<1>1. Types /\ Whole /\ (\A c \in Calls : RunOf(c)) /\ NoCall \notin Calls
  BY TypesAre, NoCallAssumption DEF BInv
<1>2. OneConsent
  <2> DEFINE running == {c \in Calls : stage[c] \in Flow}
  <2>1. running = {inflight} \ {NoCall}
    BY <1>1 DEF RunOf, Types
  <2>2. redirect # NoCall <=> \E c \in running : stage[c] \in Authorizing
    BY <1>1, Stages DEF RunOf, Types
  <2>3. redirect # NoCall => redirect = inflight /\ kind[inflight] = "interactive"
    BY <1>1, Stages DEF RunOf, Types
  <2> QED
    BY <1>1, <2>1, <2>2, <2>3 DEF OneConsent, Whole
<1>3. poll = "first" <=> \E c \in Calls : stage[c] = "firstPoll"
  BY <1>1 DEF RunOf, Whole, Types
<1>4. SessionBacked
  BY <1>1, <1>3 DEF SessionBacked, Whole, Settler
<1> QED
  BY <1>2, <1>4 DEF SessionSound, BInv

(* Two consents never overlap, and the session is whole: connected means a live client
   and someone polling, and `connecting' that a connect is in flight or is about to be
   settled, whatever connects, cancels, resets and dead grants interleave
   (BrokerService.connect, disconnect, forgetSession, robinhood/client.ts). *)
THEOREM SessionHolds == Spec => []SessionSound
  BY SessionWhole, SessionInductive, PTL

-----------------------------------------------------------------------------
(* The launcher.                                                             *)

Processes == {"starting", "up", "closing", "gone"}
Statuses == {"idle", "checking", "available", "downloading", "downloaded", "up-to-date", "error"}

(* Without a status item there is a dock icon on macOS and a window elsewhere. *)
Placed ==
  /\ platform = "darwin" /\ proc # "gone" => dock \/ tray
  /\ platform # "darwin" => ~tray /\ (proc = "up" => win # "none")

(* Whatever the process does, quitting is somebody's wish or a relaunch under way. *)
QuitsMeant ==
  /\ ~rolledBack => (quitting <=> realQuit \/ updaterRelaunching)
  /\ terminating => realQuit

(* What the updater says it does is what electron-updater does; its own downloads are off
   once anything was asked of it. *)
UpdaterTells ==
  /\ op = "check" <=> checking
  /\ op = "check" <=> updateStatus = "checking"
  /\ op = "download" <=> updateStatus = "downloading"
  /\ op = "relaunch" => updateStatus = "downloaded"
  /\ op # "none" \/ updateStatus # "idle" => ~autoDownload
  /\ op \in {"download", "relaunch"} => accepted

Watched ==
  /\ sockets \in 0 .. MaxSockets
  /\ present /\ sockets = 0 => goneTimer
  /\ ~present => sockets = 0

LauncherInv == App!TypeOK /\ Placed /\ QuitsMeant /\ UpdaterTells /\ Watched

LEMMA LauncherInit == App!Init => LauncherInv
<1> SUFFICES ASSUME App!Init PROVE LauncherInv
  OBVIOUS
<1>1. App!TypeOK
  <2>1. dock \in BOOLEAN /\ 0 \in 0 .. MaxSockets
    BY LauncherAssumption DEF App!Init, App!AppAssumption
  <2>2. live \in App!AppSettings
    BY DEF App!Init, App!AppSettings, App!Channels, App!DEFAULT_SETTINGS
  <2> QED
    BY <2>1, <2>2 DEF App!Init, App!TypeOK
<1>2. Placed /\ QuitsMeant
  BY DEF App!Init, Placed, QuitsMeant
<1>3. UpdaterTells
  BY DEF App!Init, UpdaterTells
<1>4. Watched
  BY LauncherAssumption DEF App!Init, App!AppAssumption, Watched
<1> QED
  BY <1>1, <1>2, <1>3, <1>4 DEF LauncherInv

(* The types, action by action. *)
Booleans ==
  /\ dock \in BOOLEAN /\ tray \in BOOLEAN /\ quitting \in BOOLEAN
  /\ updaterRelaunching \in BOOLEAN /\ hostUp \in BOOLEAN /\ hostAlive \in BOOLEAN
  /\ terminating \in BOOLEAN /\ checking \in BOOLEAN /\ installOnDownloaded \in BOOLEAN
  /\ notified \in BOOLEAN /\ booted \in BOOLEAN /\ autoDownload \in BOOLEAN
  /\ linked \in BOOLEAN /\ present \in BOOLEAN /\ goneTimer \in BOOLEAN
  /\ realQuit \in BOOLEAN /\ accepted \in BOOLEAN /\ rolledBack \in BOOLEAN
  /\ allowPrerelease \in BOOLEAN

Others ==
  /\ platform \in {"darwin", "other"}
  /\ proc \in Processes
  /\ win \in {"none", "loading", "focused", "blurred"}
  /\ setting \in App!AppSettings /\ live \in App!AppSettings
  /\ updateStatus \in Statuses
  /\ op \in {"none", "check", "download", "relaunch"}

LEMMA AppTypes == App!TypeOK <=> Booleans /\ Others /\ sockets \in 0 .. MaxSockets
  BY DEF App!TypeOK, Booleans, Others, Processes, Statuses

LEMMA AppTypesNext ==
  App!TypeOK' <=> Booleans' /\ Others' /\ sockets' \in 0 .. MaxSockets
  BY DEF App!TypeOK, Booleans, Others, Processes, Statuses

LEMMA TypesStep ==
  ASSUME App!TypeOK, Watched', App!Next
  PROVE  App!TypeOK'
<1> USE DEF App!shell, App!hosts, App!settings, App!updater, App!presence
<1>1. Booleans /\ Others
  BY AppTypes
<1>2. CASE App!main
  <2>1. Booleans'
    <3>1. autoDownload' \in BOOLEAN
      BY <1>1, <1>2, Zenon DEF App!main, App!setUpdateChannel, App!checkForUpdatesNow, Booleans
    <3>2. booted' \in BOOLEAN
      BY <1>1, <1>2, Zenon DEF App!main, App!setUpdateChannel, App!checkForUpdatesNow, Booleans
    <3>3. allowPrerelease' \in BOOLEAN
      BY <1>1, <1>2, Zenon DEF App!main, App!setUpdateChannel, App!checkForUpdatesNow, Booleans
    <3>4. checking' \in BOOLEAN
      BY <1>1, <1>2, Zenon DEF App!main, App!setUpdateChannel, App!checkForUpdatesNow, Booleans
    <3>5. hostUp' \in BOOLEAN
      BY <1>1, <1>2, Zenon DEF App!main, App!setUpdateChannel, App!checkForUpdatesNow, Booleans
    <3>6. hostAlive' \in BOOLEAN
      BY <1>1, <1>2, Zenon DEF App!main, App!setUpdateChannel, App!checkForUpdatesNow, Booleans
    <3> QED
      BY <1>1, <1>2, <3>1, <3>2, <3>3, <3>4, <3>5, <3>6 DEF App!main, App!setUpdateChannel,
         App!checkForUpdatesNow, Booleans
  <2>2. Others'
    BY <1>1, <1>2 DEF App!main, App!setUpdateChannel, App!checkForUpdatesNow, Others,
       Processes, Statuses
  <2> QED
    BY <2>1, <2>2, AppTypesNext DEF Watched
<1>3. CASE App!Reopen
  <2>1. Booleans'
    BY <1>1, <1>3 DEF App!Reopen, App!focusMainWindow, Booleans
  <2>2. Others'
    BY <1>1, <1>3 DEF App!Reopen, App!focusMainWindow, Others, Processes, Statuses
  <2> QED
    BY <2>1, <2>2, AppTypesNext DEF Watched
<1>4. CASE App!WindowReady
  <2>1. Booleans'
    BY <1>1, <1>4 DEF App!WindowReady, Booleans
  <2>2. Others'
    BY <1>1, <1>4 DEF App!WindowReady, Others, Processes, Statuses
  <2> QED
    BY <2>1, <2>2, AppTypesNext DEF Watched
<1>5. CASE App!FocusOrBlur
  <2>1. Booleans'
    BY <1>1, <1>5 DEF App!FocusOrBlur, Booleans
  <2>2. Others'
    BY <1>1, <1>5 DEF App!FocusOrBlur, Others, Processes, Statuses
  <2> QED
    BY <2>1, <2>2, AppTypesNext DEF Watched
<1>6. CASE App!CloseWindow
  <2>1. Booleans'
    <3>1. linked' \in BOOLEAN
      BY <1>1, <1>6, Zenon DEF App!CloseWindow, App!windowAllClosed, Booleans
    <3>2. dock' \in BOOLEAN
      BY <1>1, <1>6, Zenon DEF App!CloseWindow, App!windowAllClosed, Booleans
    <3> QED
      BY <1>1, <1>6, <3>1, <3>2 DEF App!CloseWindow, App!windowAllClosed, Booleans
  <2>2. Others'
    BY <1>1, <1>6 DEF App!CloseWindow, App!windowAllClosed, Others, Processes, Statuses
  <2> QED
    BY <2>1, <2>2, AppTypesNext DEF Watched
<1>7. CASE App!CmdQ
  <2>1. Booleans'
    <3>1. linked' \in BOOLEAN
      BY <1>1, <1>7, Zenon DEF App!CmdQ, App!BeforeQuit, App!windowAllClosed, Booleans
    <3>2. dock' \in BOOLEAN
      BY <1>1, <1>7, Zenon DEF App!CmdQ, App!BeforeQuit, App!windowAllClosed, Booleans
    <3> QED
      BY <1>1, <1>7, <3>1, <3>2 DEF App!CmdQ, App!BeforeQuit, App!windowAllClosed, Booleans
  <2>2. Others'
    BY <1>1, <1>7 DEF App!CmdQ, App!BeforeQuit, App!windowAllClosed, Others, Processes, Statuses
  <2> QED
    BY <2>1, <2>2, AppTypesNext DEF Watched
<1>8. CASE App!quitForReal
  <2>1. Booleans'
    BY <1>1, <1>8 DEF App!quitForReal, Booleans
  <2>2. Others'
    BY <1>1, <1>8 DEF App!quitForReal, Others, Processes, Statuses
  <2> QED
    BY <2>1, <2>2, AppTypesNext DEF Watched
<1>9. CASE App!quitCompletely
  <2>1. Booleans'
    BY <1>1, <1>9 DEF App!quitCompletely, Booleans
  <2>2. Others'
    BY <1>1, <1>9 DEF App!quitCompletely, Others, Processes, Statuses
  <2> QED
    BY <2>1, <2>2, AppTypesNext DEF Watched
<1>10. CASE App!Terminated
  <2>1. Booleans'
    <3>1. terminating' \in BOOLEAN
      BY <1>1, <1>10, Zenon DEF App!Terminated, App!HostEnds, Booleans
    <3>2. hostAlive' \in BOOLEAN
      BY <1>1, <1>10, Zenon DEF App!Terminated, App!HostEnds, Booleans
    <3>3. linked' \in BOOLEAN
      BY <1>1, <1>10, Zenon DEF App!Terminated, App!HostEnds, Booleans
    <3>4. present' \in BOOLEAN
      BY <1>1, <1>10, Zenon DEF App!Terminated, App!HostEnds, Booleans
    <3>5. goneTimer' \in BOOLEAN
      BY <1>1, <1>10, Zenon DEF App!Terminated, App!HostEnds, Booleans
    <3>6. quitting' \in BOOLEAN
      BY <1>1, <1>10, Zenon DEF App!Terminated, App!HostEnds, Booleans
    <3> QED
      BY <1>1, <1>10, <3>1, <3>2, <3>3, <3>4, <3>5, <3>6 DEF App!Terminated, App!HostEnds,
         Booleans
  <2>2. Others'
    BY <1>1, <1>10 DEF App!Terminated, App!HostEnds, Others, Processes, Statuses
  <2> QED
    BY <2>1, <2>2, AppTypesNext DEF Watched
<1>11. CASE App!HostDies
  <2>1. Booleans'
    <3>1. hostAlive' \in BOOLEAN
      BY <1>1, <1>11, Zenon DEF App!HostDies, App!HostEnds, Booleans
    <3>2. linked' \in BOOLEAN
      BY <1>1, <1>11, Zenon DEF App!HostDies, App!HostEnds, Booleans
    <3>3. present' \in BOOLEAN
      BY <1>1, <1>11, Zenon DEF App!HostDies, App!HostEnds, Booleans
    <3>4. goneTimer' \in BOOLEAN
      BY <1>1, <1>11, Zenon DEF App!HostDies, App!HostEnds, Booleans
    <3> QED
      BY <1>1, <1>11, <3>1, <3>2, <3>3, <3>4 DEF App!HostDies, App!HostEnds, Booleans
  <2>2. Others'
    BY <1>1, <1>11 DEF App!HostDies, App!HostEnds, Others, Processes, Statuses
  <2> QED
    BY <2>1, <2>2, AppTypesNext DEF Watched
<1>12. CASE App!Exit
  <2>1. Booleans'
    <3>1. linked' \in BOOLEAN
      BY <1>1, <1>12, Zenon DEF App!Exit, Booleans
    <3>2. dock' \in BOOLEAN
      BY <1>1, <1>12, Zenon DEF App!Exit, Booleans
    <3>3. tray' \in BOOLEAN
      BY <1>1, <1>12, Zenon DEF App!Exit, Booleans
    <3> QED
      BY <1>1, <1>12, <3>1, <3>2, <3>3 DEF App!Exit, Booleans
  <2>2. Others'
    BY <1>1, <1>12 DEF App!Exit, Others, Processes, Statuses
  <2> QED
    BY <2>1, <2>2, AppTypesNext DEF Watched
<1>13. CASE App!Check
  <2>1. Booleans'
    <3>1. autoDownload' \in BOOLEAN
      BY <1>1, <1>13, Zenon DEF App!Check, App!checkForUpdatesNow, Booleans
    <3>2. checking' \in BOOLEAN
      BY <1>1, <1>13, Zenon DEF App!Check, App!checkForUpdatesNow, Booleans
    <3> QED
      BY <1>1, <1>13, <3>1, <3>2 DEF App!Check, App!checkForUpdatesNow, Booleans
  <2>2. Others'
    BY <1>1, <1>13 DEF App!Check, App!checkForUpdatesNow, Others, Processes, Statuses
  <2> QED
    BY <2>1, <2>2, AppTypesNext DEF Watched
<1>14. CASE App!Available
  <2>1. Booleans'
    <3>1. checking' \in BOOLEAN
      BY <1>1, <1>14, Zenon DEF App!Available, Booleans
    <3>2. notified' \in BOOLEAN
      BY <1>1, <1>14, Zenon DEF App!Available, Booleans
    <3> QED
      BY <1>1, <1>14, <3>1, <3>2 DEF App!Available, Booleans
  <2>2. Others'
    BY <1>1, <1>14 DEF App!Available, Others, Processes, Statuses
  <2> QED
    BY <2>1, <2>2, AppTypesNext DEF Watched
<1>15. CASE App!NotAvailable
  <2>1. Booleans'
    <3>1. checking' \in BOOLEAN
      BY <1>1, <1>15, Zenon DEF App!NotAvailable, Booleans
    <3> QED
      BY <1>1, <1>15, <3>1 DEF App!NotAvailable, Booleans
  <2>2. Others'
    BY <1>1, <1>15 DEF App!NotAvailable, Others, Processes, Statuses
  <2> QED
    BY <2>1, <2>2, AppTypesNext DEF Watched
<1>16. CASE App!installNow
  <2>1. Booleans'
    <3>1. accepted' \in BOOLEAN
      BY <1>1, <1>16, Zenon DEF App!installNow, Booleans
    <3>2. updaterRelaunching' \in BOOLEAN
      BY <1>1, <1>16, Zenon DEF App!installNow, Booleans
    <3>3. quitting' \in BOOLEAN
      BY <1>1, <1>16, Zenon DEF App!installNow, Booleans
    <3>4. installOnDownloaded' \in BOOLEAN
      BY <1>1, <1>16, Zenon DEF App!installNow, Booleans
    <3> QED
      BY <1>1, <1>16, <3>1, <3>2, <3>3, <3>4 DEF App!installNow, Booleans
  <2>2. Others'
    BY <1>1, <1>16 DEF App!installNow, Others, Processes, Statuses
  <2> QED
    BY <2>1, <2>2, AppTypesNext DEF Watched
<1>17. CASE App!Downloaded
  <2>1. Booleans'
    <3>1. installOnDownloaded' \in BOOLEAN
      BY <1>1, <1>17, Zenon DEF App!Downloaded, Booleans
    <3>2. updaterRelaunching' \in BOOLEAN
      BY <1>1, <1>17, Zenon DEF App!Downloaded, Booleans
    <3>3. quitting' \in BOOLEAN
      BY <1>1, <1>17, Zenon DEF App!Downloaded, Booleans
    <3> QED
      BY <1>1, <1>17, <3>1, <3>2, <3>3 DEF App!Downloaded, Booleans
  <2>2. Others'
    BY <1>1, <1>17 DEF App!Downloaded, Others, Processes, Statuses
  <2> QED
    BY <2>1, <2>2, AppTypesNext DEF Watched
<1>18. CASE App!UpdaterError
  <2>1. Booleans'
    <3>1. checking' \in BOOLEAN
      BY <1>1, <1>18, Zenon DEF App!UpdaterError, Booleans
    <3>2. installOnDownloaded' \in BOOLEAN
      BY <1>1, <1>18, Zenon DEF App!UpdaterError, Booleans
    <3>3. updaterRelaunching' \in BOOLEAN
      BY <1>1, <1>18, Zenon DEF App!UpdaterError, Booleans
    <3>4. quitting' \in BOOLEAN
      BY <1>1, <1>18, Zenon DEF App!UpdaterError, Booleans
    <3>5. accepted' \in BOOLEAN
      BY <1>1, <1>18, Zenon DEF App!UpdaterError, Booleans
    <3>6. rolledBack' \in BOOLEAN
      BY <1>1, <1>18, Zenon DEF App!UpdaterError, Booleans
    <3> QED
      BY <1>1, <1>18, <3>1, <3>2, <3>3, <3>4, <3>5, <3>6 DEF App!UpdaterError, Booleans
  <2>2. Others'
    BY <1>1, <1>18 DEF App!UpdaterError, Others, Processes, Statuses
  <2> QED
    BY <2>1, <2>2, AppTypesNext DEF Watched
<1>19. CASE App!Relaunches
  <2>1. Booleans'
    <3>1. linked' \in BOOLEAN
      BY <1>1, <1>19, Zenon DEF App!Relaunches, App!BeforeQuit, App!windowAllClosed, Booleans
    <3>2. dock' \in BOOLEAN
      BY <1>1, <1>19, Zenon DEF App!Relaunches, App!BeforeQuit, App!windowAllClosed, Booleans
    <3> QED
      BY <1>1, <1>19, <3>1, <3>2 DEF App!Relaunches, App!BeforeQuit, App!windowAllClosed, Booleans
  <2>2. Others'
    BY <1>1, <1>19 DEF App!Relaunches, App!BeforeQuit, App!windowAllClosed, Others,
       Processes, Statuses
  <2> QED
    BY <2>1, <2>2, AppTypesNext DEF Watched
<1>20. CASE App!ChangeSettings
  <2>1. Booleans'
    BY <1>1, <1>20 DEF App!ChangeSettings, Booleans
  <2>2. Others'
    BY <1>1, <1>20 DEF App!ChangeSettings, Others, Processes, Statuses
  <2> QED
    BY <2>1, <2>2, AppTypesNext DEF Watched
<1>21. CASE App!SettingsPush
  <2>1. Booleans'
    BY <1>1, <1>21 DEF App!SettingsPush, App!applyMenuBar, App!menuBarEnabled,
       App!setUpdateChannel, App!checkForUpdatesNow, Booleans
  <2>2. Others'
    BY <1>1, <1>21 DEF App!SettingsPush, App!applyMenuBar, App!menuBarEnabled,
       App!setUpdateChannel, App!checkForUpdatesNow, Others, Processes, Statuses
  <2> QED
    BY <2>1, <2>2, AppTypesNext DEF Watched
<1>22. CASE App!add
  <2>1. Booleans'
    <3>1. linked' \in BOOLEAN
      BY <1>1, <1>22, Zenon DEF App!add, Booleans
    <3>2. goneTimer' \in BOOLEAN
      BY <1>1, <1>22, Zenon DEF App!add, Booleans
    <3>3. present' \in BOOLEAN
      BY <1>1, <1>22, Zenon DEF App!add, Booleans
    <3> QED
      BY <1>1, <1>22, <3>1, <3>2, <3>3 DEF App!add, Booleans
  <2>2. Others'
    BY <1>1, <1>22 DEF App!add, Others, Processes, Statuses
  <2> QED
    BY <2>1, <2>2, AppTypesNext DEF Watched
<1>23. CASE App!Reload
  <2>1. Booleans'
    <3>1. linked' \in BOOLEAN
      BY <1>1, <1>23, Zenon DEF App!Reload, Booleans
    <3> QED
      BY <1>1, <1>23, <3>1 DEF App!Reload, Booleans
  <2>2. Others'
    BY <1>1, <1>23 DEF App!Reload, Others, Processes, Statuses
  <2> QED
    BY <2>1, <2>2, AppTypesNext DEF Watched
<1>24. CASE App!remove
  <2>1. Booleans'
    <3>1. goneTimer' \in BOOLEAN
      BY <1>1, <1>24, Zenon DEF App!remove, Booleans
    <3> QED
      BY <1>1, <1>24, <3>1 DEF App!remove, Booleans
  <2>2. Others'
    BY <1>1, <1>24 DEF App!remove, Others, Processes, Statuses
  <2> QED
    BY <2>1, <2>2, AppTypesNext DEF Watched
<1>25. CASE App!GraceEnds
  <2>1. Booleans'
    <3>1. goneTimer' \in BOOLEAN
      BY <1>1, <1>25, Zenon DEF App!GraceEnds, Booleans
    <3>2. present' \in BOOLEAN
      BY <1>1, <1>25, Zenon DEF App!GraceEnds, Booleans
    <3> QED
      BY <1>1, <1>25, <3>1, <3>2 DEF App!GraceEnds, Booleans
  <2>2. Others'
    BY <1>1, <1>25 DEF App!GraceEnds, Others, Processes, Statuses
  <2> QED
    BY <2>1, <2>2, AppTypesNext DEF Watched
<1> QED
  BY <1>2, <1>3, <1>4, <1>5, <1>6, <1>7, <1>8, <1>9, <1>10, <1>11, <1>12, <1>13, <1>14,
     <1>15, <1>16, <1>17, <1>18, <1>19, <1>20, <1>21, <1>22, <1>23, <1>24, <1>25 DEF
     App!Next

LEMMA PlacedStep ==
  ASSUME App!TypeOK, Placed, App!Next
  PROVE  Placed'
<1> USE DEF App!shell, App!hosts, App!settings, App!updater, App!presence, Placed
<1>1. platform \in {"darwin", "other"} /\ platform' = platform
  <2>1. platform' = platform
    BY DEF App!Next, App!main, App!Reopen, App!WindowReady, App!FocusOrBlur, App!CloseWindow,
           App!CmdQ, App!quitForReal, App!quitCompletely, App!Terminated, App!HostDies,
           App!Exit, App!Check, App!Available, App!NotAvailable, App!installNow,
           App!Downloaded, App!UpdaterError, App!Relaunches, App!ChangeSettings,
           App!SettingsPush, App!add, App!Reload, App!remove, App!GraceEnds
  <2> QED
    BY <2>1 DEF App!TypeOK
<1>2. CASE App!main
  BY <1>1, <1>2 DEF App!main
<1>3. CASE App!Reopen
  BY <1>1, <1>3 DEF App!Reopen, App!focusMainWindow
<1>4. CASE App!WindowReady \/ App!FocusOrBlur
  BY <1>1, <1>4 DEF App!WindowReady, App!FocusOrBlur, App!Mounted
<1>5. CASE App!CloseWindow
  BY <1>1, <1>5 DEF App!CloseWindow, App!windowAllClosed
<1>6. CASE App!CmdQ \/ App!Relaunches
  BY <1>1, <1>6 DEF App!CmdQ, App!Relaunches, App!BeforeQuit, App!windowAllClosed
<1>7. CASE App!quitForReal \/ App!Terminated \/ App!Exit
  BY <1>1, <1>7 DEF App!quitForReal, App!Terminated, App!Exit
<1>8. CASE App!SettingsPush
  BY <1>1, <1>8 DEF App!SettingsPush, App!applyMenuBar, App!menuBarEnabled
<1>9. CASE App!quitCompletely \/ App!HostDies \/ App!Check \/ App!Available
           \/ App!NotAvailable \/ App!installNow \/ App!Downloaded \/ App!UpdaterError
           \/ App!ChangeSettings \/ App!add \/ App!Reload \/ App!remove \/ App!GraceEnds
  <2>1. UNCHANGED <<proc, win, dock, tray>>
    BY <1>9 DEF App!quitCompletely, App!HostDies, App!Check, App!Available,
           App!NotAvailable, App!installNow, App!Downloaded, App!UpdaterError,
           App!ChangeSettings, App!add, App!Reload, App!remove, App!GraceEnds
  <2> QED
    BY <1>1, <2>1
<1> QED
  BY <1>2, <1>3, <1>4, <1>5, <1>6, <1>7, <1>8, <1>9 DEF App!Next

LEMMA QuitsStep ==
  ASSUME App!TypeOK, QuitsMeant, App!Next
  PROVE  QuitsMeant'
<1> USE DEF App!shell, App!hosts, App!settings, App!updater, App!presence, QuitsMeant
<1>0. Booleans
  BY AppTypes
<1>1. CASE App!quitForReal
  BY <1>0, <1>1 DEF App!quitForReal, Booleans
<1>2. CASE App!quitCompletely
  BY <1>0, <1>2 DEF App!quitCompletely, Booleans
<1>3. CASE App!Terminated
  BY <1>0, <1>3 DEF App!Terminated, Booleans
<1>4. CASE App!installNow
  BY <1>0, <1>4 DEF App!installNow, Booleans
<1>5. CASE App!Downloaded
  BY <1>0, <1>5 DEF App!Downloaded, Booleans
<1>6. CASE App!UpdaterError
  BY <1>0, <1>6 DEF App!UpdaterError, Booleans
<1>7. CASE App!main \/ App!Reopen \/ App!WindowReady \/ App!FocusOrBlur \/ App!CloseWindow
           \/ App!CmdQ \/ App!HostDies \/ App!Exit \/ App!Check \/ App!Available
           \/ App!NotAvailable \/ App!Relaunches \/ App!ChangeSettings \/ App!SettingsPush
           \/ App!add \/ App!Reload \/ App!remove \/ App!GraceEnds
  <2>1. UNCHANGED <<quitting, realQuit, updaterRelaunching, rolledBack, terminating>>
    BY <1>7 DEF App!main, App!Reopen, App!WindowReady, App!FocusOrBlur, App!CloseWindow,
           App!CmdQ, App!HostDies, App!Exit, App!Check, App!Available, App!NotAvailable,
           App!Relaunches, App!ChangeSettings, App!SettingsPush, App!add, App!Reload,
           App!remove, App!GraceEnds, App!setUpdateChannel, App!focusMainWindow
  <2> QED
    BY <2>1
<1> QED
  BY <1>1, <1>2, <1>3, <1>4, <1>5, <1>6, <1>7 DEF App!Next

LEMMA UpdaterStep ==
  ASSUME App!TypeOK, UpdaterTells, App!Next
  PROVE  UpdaterTells'
<1> USE DEF App!shell, App!hosts, App!settings, App!updater, App!presence, UpdaterTells
<1>0. op \in {"none", "check", "download", "relaunch"} /\ Booleans
  BY AppTypes DEF Others
<1>1. ASSUME App!checkForUpdatesNow, ~autoDownload', UNCHANGED accepted
      PROVE  UpdaterTells'
  BY <1>0, <1>1 DEF App!checkForUpdatesNow, Booleans
<1>2. ASSUME NEW c, App!setUpdateChannel(c) PROVE UpdaterTells'
  BY <1>0, <1>1, <1>2 DEF App!setUpdateChannel, Booleans
<1>3. CASE App!main
  BY <1>2, <1>3 DEF App!main
<1>4. CASE App!SettingsPush
  BY <1>2, <1>4 DEF App!SettingsPush
<1>5. CASE App!Check
  BY <1>1, <1>5 DEF App!Check
<1>6. CASE App!Available
  BY <1>0, <1>6 DEF App!Available, Booleans
<1>7. CASE App!NotAvailable
  BY <1>0, <1>7 DEF App!NotAvailable, Booleans
<1>8. CASE App!installNow
  <2>1. ~checking /\ updateStatus \in {"available", "downloaded"}
    BY <1>8 DEF App!installNow
  <2>2. CASE updateStatus = "downloaded"
    <3>1. op' = "relaunch" /\ accepted' /\ UNCHANGED <<updateStatus, checking, autoDownload>>
      BY <1>8, <2>2 DEF App!installNow
    <3> QED
      BY <1>0, <2>1, <2>2, <3>1 DEF Booleans
  <2>3. CASE updateStatus = "available"
    <3>1. /\ op' = "download" /\ updateStatus' = "downloading" /\ accepted'
          /\ UNCHANGED <<checking, autoDownload>>
      BY <1>8, <2>3 DEF App!installNow
    <3> QED
      BY <1>0, <2>1, <3>1 DEF Booleans
  <2> QED
    BY <2>1, <2>2, <2>3
<1>9. CASE App!Downloaded
  BY <1>0, <1>9 DEF App!Downloaded, Booleans
<1>10. CASE App!UpdaterError
  BY <1>0, <1>10 DEF App!UpdaterError, Booleans
<1>11. CASE App!Reopen \/ App!WindowReady \/ App!FocusOrBlur \/ App!CloseWindow \/ App!CmdQ
           \/ App!quitForReal \/ App!quitCompletely \/ App!Terminated \/ App!HostDies
           \/ App!Exit \/ App!Relaunches \/ App!ChangeSettings
           \/ App!add \/ App!Reload \/ App!remove \/ App!GraceEnds
  <2>1. UNCHANGED <<op, checking, updateStatus, autoDownload, accepted>>
    BY <1>11 DEF App!Reopen, App!WindowReady, App!FocusOrBlur, App!CloseWindow, App!CmdQ,
           App!quitForReal, App!quitCompletely, App!Terminated, App!HostDies, App!Exit,
           App!Relaunches, App!ChangeSettings, App!add, App!Reload, App!remove, App!GraceEnds
  <2> QED
    BY <2>1
<1> QED
  BY <1>3, <1>4, <1>5, <1>6, <1>7, <1>8, <1>9, <1>10, <1>11 DEF App!Next

LEMMA WatchedStep ==
  ASSUME App!TypeOK, Watched, App!Next
  PROVE  Watched'
<1> USE DEF App!shell, App!hosts, App!settings, App!updater, App!presence, Watched
<1>0. Booleans /\ MaxSockets \in Nat
  BY AppTypes, LauncherAssumption DEF App!AppAssumption
<1>1. CASE App!Terminated \/ App!HostDies
  BY <1>0, <1>1 DEF App!Terminated, App!HostDies, App!HostEnds
<1>2. CASE App!add
  BY <1>0, <1>2 DEF App!add
<1>3. CASE App!remove
  <2>1. sockets > 0 /\ sockets' = sockets - 1 /\ UNCHANGED present
    BY <1>0, <1>3 DEF App!remove
  <2>2. sockets' = 0 => goneTimer'
    BY <1>3 DEF App!remove
  <2>3. sockets' \in 0 .. MaxSockets
    BY <1>0, <2>1
  <2> QED
    BY <1>0, <2>1, <2>2, <2>3
<1>4. CASE App!GraceEnds
  <2>1. present' = (present /\ sockets > 0) /\ UNCHANGED sockets
    BY <1>4 DEF App!GraceEnds
  <2>2. CASE sockets = 0
    <3>1. ~present'
      <4>1. ~(sockets > 0)
        BY <2>2
      <4> QED
        BY <2>1, <4>1, Zenon
    <3> QED
      BY <1>0, <2>1, <2>2, <3>1
  <2>3. CASE sockets > 0
    <3>1. present' <=> present
      BY <2>1, <2>3
    <3> QED
      BY <1>0, <2>1, <2>3, <3>1
  <2> QED
    BY <1>0, <2>2, <2>3
<1>5. CASE App!main \/ App!Reopen \/ App!WindowReady \/ App!FocusOrBlur \/ App!CloseWindow
           \/ App!CmdQ \/ App!quitForReal \/ App!quitCompletely \/ App!Exit \/ App!Check
           \/ App!Available \/ App!NotAvailable \/ App!installNow \/ App!Downloaded
           \/ App!UpdaterError \/ App!Relaunches \/ App!ChangeSettings \/ App!SettingsPush
           \/ App!Reload
  <2>1. UNCHANGED <<sockets, present, goneTimer>>
    BY <1>5 DEF App!main, App!Reopen, App!WindowReady, App!FocusOrBlur, App!CloseWindow,
           App!CmdQ, App!quitForReal, App!quitCompletely, App!Exit, App!Check,
           App!Available, App!NotAvailable, App!installNow, App!Downloaded,
           App!UpdaterError, App!Relaunches, App!ChangeSettings, App!SettingsPush, App!Reload
  <2> QED
    BY <2>1
<1> QED
  BY <1>1, <1>2, <1>3, <1>4, <1>5 DEF App!Next

LEMMA LauncherStep == LauncherInv /\ [App!Next]_(App!vars) => LauncherInv'
<1> SUFFICES ASSUME LauncherInv, [App!Next]_(App!vars) PROVE LauncherInv'
  OBVIOUS
<1>1. CASE App!Next
  BY <1>1, TypesStep, PlacedStep, QuitsStep, UpdaterStep, WatchedStep DEF LauncherInv
<1>2. CASE UNCHANGED App!vars
  BY <1>2 DEF App!vars, App!shell, App!hosts, App!settings, App!updater, App!presence,
     LauncherInv, App!TypeOK, Placed, QuitsMeant, UpdaterTells, Watched
<1> QED
  BY <1>1, <1>2

LEMMA LauncherHolds == LauncherInv => LauncherSound
<1> SUFFICES ASSUME LauncherInv PROVE LauncherSound
  OBVIOUS
<1>1. App!Reachable
  BY DEF LauncherInv, Placed, App!Reachable
<1>2. App!QuitsAreMeant
  BY DEF LauncherInv, QuitsMeant, App!QuitsAreMeant
<1>3. App!NothingUnasked
  BY DEF LauncherInv, UpdaterTells, App!NothingUnasked
<1>4. App!PresenceSound
  BY DEF LauncherInv, Watched, App!PresenceSound
<1> QED
  BY <1>1, <1>2, <1>3, <1>4 DEF LauncherSound, App!LauncherSound, LauncherInv

(* The inductive invariant of the launcher. *)
THEOREM LauncherInductive == App!Spec => []LauncherInv
  BY LauncherInit, LauncherStep, PTL DEF App!Spec

(* A running launcher has a window, a dock icon or a status item; quits are meant; nothing
   is installed unasked and no flag of the updater outlives what it stands for; the host's
   presence detector neither misses gui:gone nor reports it early, for any number of
   sockets not yet closed (main/index.ts, updater.ts, gui-presence.ts). *)
THEOREM LauncherAsSpecified == App!Spec => []LauncherSound
  BY LauncherInductive, LauncherHolds, PTL

-----------------------------------------------------------------------------
(* The composition: while one part takes its steps the other rests, so each keeps its
   invariant, and what the runs check holds of both. *)
CompositionInv == BInv /\ LauncherInv

LEMMA CompositionInit == MCInit => CompositionInv
  BY InitHolds, LauncherInit DEF MCInit, CompositionInv

LEMMA CompositionStep ==
  CompositionInv /\ [MCNext]_<<part, vars, appVars>> => CompositionInv'
<1> SUFFICES ASSUME CompositionInv, [MCNext]_<<part, vars, appVars>> PROVE CompositionInv'
  OBVIOUS
<1>1. UNCHANGED appVars => UNCHANGED App!vars
  BY DEF appVars, App!vars, App!shell, App!hosts, App!settings, App!updater, App!presence
<1>2. [Next]_vars /\ [App!Next]_(App!vars)
  BY <1>1 DEF MCNext
<1> QED
  BY <1>2, SessionStep, LauncherStep DEF CompositionInv

(* Both hold of every behaviour of the composition that the run checks. *)
THEOREM AppSound == MCSpec => [](SessionSound /\ LauncherSound)
<1>1. CompositionInv => SessionSound /\ LauncherSound
  BY LauncherHolds, SessionWhole DEF CompositionInv
<1> QED
  BY <1>1, CompositionInit, CompositionStep, PTL DEF MCSpec

=============================================================================
