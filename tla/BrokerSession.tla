--------------------------- MODULE BrokerSession ---------------------------
(***************************************************************************)
(* The session of the broker: BrokerService.connect / runConnect /        *)
(* disconnect / forgetSession and its poller (services/broker/index.ts),   *)
(* the consent flow of the Robinhood adapter (robinhood/client.ts) and the *)
(* OAuth provider it writes (robinhood/oauth.ts).                          *)
(*                                                                         *)
(* A call of connect() or disconnect() is a member of Calls; it is reused  *)
(* once it has returned.  Every await of the code is a stage of the call,  *)
(* and the answers of the network, of the browser and of the user are      *)
(* actions of their own, so that calls, cancellations and polls interleave *)
(* at every await.  What the poller reads is modelled by OrderLedger; here *)
(* a poll only succeeds, fails, or finds the grant dead.                   *)
(*                                                                         *)
(* Definitions whose name ends in "Slip" are not part of the model: each   *)
(* is a plausible mistake in the definition that follows it.               *)
(***************************************************************************)
EXTENDS Naturals, Sequences, FiniteSets

CONSTANTS
    Calls,      \* concurrent connect() and disconnect() calls
    NoCall      \* stands for null

ASSUME NoCallAssumption == NoCall \notin Calls

VARIABLES
    status,     \* BrokerService.status
    inflight,   \* the call whose runConnect the field `inflight' holds
    kind,       \* per call: "silent", "interactive" or "disconnect"
    stage,      \* per call: where it awaits
    waiters,    \* calls awaiting `inflight', in the order they began
    ready,      \* calls whose await has just settled: microtasks to run
    client,     \* RobinhoodAdapter.client is set
    tokens,     \* the settings row rh_oauth_tokens exists
    pending,    \* the call whose loopback is RobinhoodAdapter.pending
    redirect,   \* the call whose loopback URL is activeRedirectUrl
    account,    \* BrokerService.account is set
    poll,       \* the poll in flight: "none", "first" (of runConnect), "timer"
    timer,      \* the poll timer: "off", or the cadence it was armed with
    focused,    \* a connected GUI reported focus
    autoTried   \* the silent connect of this host's boot was made

service == <<status, inflight, account, poll, timer>>
adapter == <<client, tokens, pending, redirect>>
callVars == <<kind, stage, waiters, ready>>
vars == <<service, callVars, adapter, focused, autoTried>>

(* The awaits of runConnect and of the adapter calls it makes. *)
Flow == {"refresh", "bind", "request", "consent", "exchange", "redo",
         "accounts", "firstPoll"}
(* interactiveConnect between beginAuthorization and endAuthorization *)
Authorizing == {"request", "consent", "exchange", "redo"}

TypeOK ==
    /\ status \in {"disconnected", "connecting", "connected", "error"}
    /\ {inflight, pending, redirect} \subseteq Calls \cup {NoCall}
    /\ kind \in [Calls -> {"silent", "interactive", "disconnect"}]
    /\ stage \in [Calls -> Flow \cup {"idle", "wait"}]
    /\ waiters \in Seq(Calls) /\ ready \in Seq(Calls)
    /\ {client, tokens, account, focused, autoTried} \subseteq BOOLEAN
    /\ poll \in {"none", "first", "timer"}
    /\ timer \in {"off", "fast", "slow"}

Init ==
    /\ status = "disconnected"
    /\ inflight = NoCall
    /\ kind = [c \in Calls |-> "silent"]
    /\ stage = [c \in Calls |-> "idle"]
    /\ waiters = <<>> /\ ready = <<>>
    /\ client = FALSE
    /\ tokens \in BOOLEAN          \* a session of an earlier host
    /\ pending = NoCall /\ redirect = NoCall
    /\ account = FALSE /\ poll = "none" /\ timer = "off"
    /\ focused = FALSE /\ autoTried = FALSE

(* The provider: the settings rows it keeps, and the browser gate.  The SDK may
   open a browser only between beginAuthorization and endAuthorization. *)
saveTokens == tokens' = TRUE
dropTokens == tokens' = FALSE
GateOpen == redirect # NoCall
beginAuthorization(c) == redirect' = c

(* No event is handled before the microtasks of the last one have run. *)
Settled == ready = <<>>

-----------------------------------------------------------------------------
(* The poller *)

(* The cadence is chosen when the timer is armed: the fast one only while a GUI
   is focused and the market is open at that moment. *)
Armed(watched) == {"slow"} \cup (IF watched THEN {"fast"} ELSE {})

StartPolling == timer' \in Armed(focused)

(* Reset, and the dead grant of a poll: the timer, the account and the status,
   then adapter.reset (the pending consent, the tokens, the client).  Closing
   the client rejects the calls of a poll in flight, which then finds a status
   other than connected and reports nothing. *)
ForgetSession ==
    /\ timer' = "off" /\ account' = FALSE /\ poll' = "none"
    /\ status' = "disconnected"
    /\ pending' = NoCall
    /\ dropTokens /\ client' = FALSE
    /\ UNCHANGED redirect

(* A timer tick, or a faucet read that finds its cache too old. *)
PollStarts ==
    /\ Settled
    /\ status = "connected"
    /\ account /\ poll = "none"
    /\ poll' = "timer"
    /\ UNCHANGED <<status, inflight, account, timer, callVars, adapter,
                   focused, autoTried>>

PollEnds ==
    /\ Settled
    /\ poll = "timer"
    /\ poll' = "none"
    /\ UNCHANGED <<status, inflight, account, timer, callVars, adapter,
                   focused, autoTried>>

(* The authorization server answers invalid_grant. *)
PollFindsDeadGrant ==
    /\ Settled
    /\ poll = "timer"
    /\ ForgetSession
    /\ UNCHANGED <<inflight, callVars, focused, autoTried>>

SetFocused ==
    /\ Settled
    /\ focused' = ~focused
    /\ IF timer = "off" THEN UNCHANGED timer
       ELSE timer' \in Armed(focused')
    /\ UNCHANGED <<status, inflight, account, poll, callVars, adapter, autoTried>>

SettingsChanged ==
    /\ Settled
    /\ timer # "off"
    /\ StartPolling
    /\ UNCHANGED <<status, inflight, account, poll, callVars, adapter,
                   focused, autoTried>>

-----------------------------------------------------------------------------
(* connect() and disconnect() *)

(* The first stage of runConnect: adapter.connect returns at once with a live
   client; stored tokens are tried without a browser; with none the consent
   starts, whose cancelConnect finds nothing pending.  (A silent connect has
   tokens: the host makes it only when isAuthorized.) *)
FirstStage ==
    CASE client            -> "accounts"
      [] ~client /\ tokens -> "refresh"
      [] OTHER             -> "bind"

(* The promise of runConnect settles: connect() clears `inflight' first, then
   everyone awaiting it resumes. *)
SettleRun(c) ==
    /\ inflight' = NoCall
    /\ stage' = [stage EXCEPT ![c] = "idle"]
    /\ ready' = waiters
    /\ waiters' = <<>>
    /\ UNCHANGED kind

Started(c, k) == [kind EXCEPT ![c] = k]

(* connect(): wait for the connect in flight (a silent one joins it, an
   interactive one cancels its consent first), return when connected, or run. *)
ConnectStep(c, k, rest) ==
    /\ kind' = Started(c, k)
    /\ \/ /\ inflight # NoCall /\ status # "connected"
          /\ stage' = [stage EXCEPT ![c] = "wait"]
          /\ waiters' = Append(waiters, c)
          /\ pending' = IF k = "interactive" THEN NoCall ELSE pending
          /\ ready' = rest
          /\ UNCHANGED <<service, client, tokens, redirect>>
       \/ /\ status = "connected"
          /\ stage' = [stage EXCEPT ![c] = "idle"]
          /\ ready' = rest
          /\ UNCHANGED <<service, waiters, adapter>>
       \/ /\ inflight = NoCall /\ status # "connected"
          /\ status' = "connecting"
          /\ inflight' = c
          /\ stage' = [stage EXCEPT ![c] = FirstStage]
          /\ ready' = rest
          /\ UNCHANGED <<account, poll, timer, waiters, adapter>>

(* disconnect(): cancel the consent, let the connect in flight unwind, forget. *)
DisconnectStarts(c) ==
    /\ kind' = Started(c, "disconnect")
    /\ IF inflight # NoCall
       THEN /\ stage' = [stage EXCEPT ![c] = "wait"]
            /\ waiters' = Append(waiters, c)
            /\ pending' = NoCall
            /\ UNCHANGED <<service, client, tokens, redirect>>
       ELSE /\ ForgetSession
            /\ UNCHANGED <<stage, waiters, inflight>>
    /\ UNCHANGED ready

(* onboarding.connectBroker: the Connect button *)
UserConnects(c) ==
    /\ Settled
    /\ stage[c] = "idle"
    /\ ConnectStep(c, "interactive", ready)
    /\ UNCHANGED <<focused, autoTried>>

(* The silent connect of the host's boot, made when tokens are stored. *)
BootConnects(c) ==
    /\ Settled
    /\ ~autoTried /\ autoTried' = TRUE
    /\ tokens
    /\ stage[c] = "idle"
    /\ ConnectStep(c, "silent", ready)
    /\ UNCHANGED focused

(* broker.disconnect: the Reset button *)
UserDisconnects(c) ==
    /\ Settled
    /\ stage[c] = "idle"
    /\ DisconnectStarts(c)
    /\ UNCHANGED <<focused, autoTried>>

(* The await of `inflight' is over: a silent connect that joined returns, an
   interactive one looks again, a disconnect forgets the session. *)
Resume ==
    LET c == Head(ready) rest == Tail(ready)
    IN /\ ready # <<>>
       /\ \/ /\ kind[c] = "silent"
             /\ stage' = [stage EXCEPT ![c] = "idle"]
             /\ ready' = rest
             /\ UNCHANGED <<service, adapter, kind, waiters>>
          \/ /\ kind[c] = "interactive"
             /\ ConnectStep(c, "interactive", rest)
          \/ /\ kind[c] = "disconnect"
             /\ ForgetSession
             /\ stage' = [stage EXCEPT ![c] = "idle"]
             /\ ready' = rest
             /\ UNCHANGED <<inflight, kind, waiters>>
       /\ UNCHANGED <<focused, autoTried>>

-----------------------------------------------------------------------------
(* runConnect, one answer at a time *)

Advance(c, s) ==
    /\ stage' = [stage EXCEPT ![c] = s]
    /\ UNCHANGED <<inflight, kind, waiters, ready>>

(* The catch of runConnect: a superseded connect leaves the status to whoever
   superseded it, any other failure is an error; a connect that ended without a
   client is disconnected. *)
EndRunSlip(c, outcome) ==
    /\ status' = outcome
    /\ SettleRun(c)
    /\ UNCHANGED <<account, poll, timer>>

EndRun(c, outcome) ==
    /\ status' = IF outcome = "superseded" THEN status ELSE outcome
    /\ SettleRun(c)
    /\ UNCHANGED <<account, poll, timer>>

(* The finally of interactiveConnect *)
EndAuthorizationSlip(c) ==
    /\ pending' = IF pending = c THEN NoCall ELSE pending
    /\ UNCHANGED redirect

EndAuthorization(c) ==
    /\ redirect' = NoCall
    /\ pending' = IF pending = c THEN NoCall ELSE pending

At(c, s) == Settled /\ stage[c] = s /\ UNCHANGED <<focused, autoTried>>

(* doConnect with stored tokens.  The browser gate is closed, so a refresh that
   failed for another reason than the grant is ConsentRequired. *)
RefreshAnswers(c) ==
    /\ At(c, "refresh")
    /\ \/ /\ client' = TRUE
          /\ saveTokens \/ UNCHANGED tokens      \* the SDK may have refreshed them
          /\ Advance(c, "accounts")
          /\ UNCHANGED <<status, account, poll, timer, pending, redirect>>
       \/ /\ kind[c] = "silent"
          /\ dropTokens \/ UNCHANGED tokens      \* a dead grant, or ConsentRequired
          /\ EndRun(c, "disconnected")
          /\ UNCHANGED <<client, pending, redirect>>
       \/ /\ kind[c] = "interactive"            \* either one: a fresh consent
          /\ dropTokens
          /\ Advance(c, "bind")
          /\ UNCHANGED <<status, account, poll, timer, client, pending, redirect>>
       \/ /\ EndRun(c, "error")
          /\ UNCHANGED adapter

(* openLoopback listens on a port of its own; beginAuthorization opens the gate. *)
LoopbackBinds(c) ==
    /\ At(c, "bind")
    /\ \/ /\ pending' = c /\ beginAuthorization(c)
          /\ Advance(c, "request")
          /\ UNCHANGED <<status, account, poll, timer, client, tokens>>
       \/ /\ EndRun(c, "error")
          /\ UNCHANGED adapter

(* The doConnect that is expected to end in a redirect: the browser opens. *)
RequestAnswers(c) ==
    /\ At(c, "request")
    /\ \/ /\ GateOpen
          /\ Advance(c, "consent")
          /\ UNCHANGED <<status, account, poll, timer, adapter>>
       \/ /\ client' = TRUE
          /\ EndAuthorization(c)
          /\ Advance(c, "accounts")
          /\ UNCHANGED <<status, account, poll, timer, tokens>>
       \/ /\ EndAuthorization(c)
          /\ EndRun(c, "error")
          /\ UNCHANGED <<client, tokens>>

(* The code arrives; the user declines, or ten minutes pass; or the loopback was
   closed under the flow by cancelConnect. *)
ConsentAnswers(c) ==
    /\ At(c, "consent")
    /\ \/ /\ pending = c
          /\ Advance(c, "exchange")
          /\ UNCHANGED <<status, account, poll, timer, adapter>>
       \/ /\ EndAuthorization(c)
          /\ EndRun(c, IF pending = c THEN "error" ELSE "superseded")
          /\ UNCHANGED <<client, tokens>>

ExchangeAnswers(c) ==
    /\ At(c, "exchange")
    /\ \/ /\ saveTokens
          /\ Advance(c, "redo")
          /\ UNCHANGED <<status, account, poll, timer, client, pending, redirect>>
       \/ /\ EndAuthorization(c)
          /\ EndRun(c, "error")
          /\ UNCHANGED <<client, tokens>>

RedoAnswers(c) ==
    /\ At(c, "redo")
    /\ EndAuthorization(c)
    /\ UNCHANGED tokens
    /\ \/ /\ client' = TRUE
          /\ Advance(c, "accounts")
          /\ UNCHANGED <<status, account, poll, timer>>
       \/ /\ EndRun(c, "error")
          /\ UNCHANGED client

(* listAccounts: pickAccount may find none, and then there is nothing to poll.
   The session is connected before its first poll is awaited.  A Reset resumed in
   the same round of microtasks may have closed the client: then isConnected is
   false, or the call fails. *)
AccountsAnswer(c) ==
    /\ At(c, "accounts")
    /\ \/ /\ client
          /\ account' = TRUE
          /\ status' = "connected"
          /\ poll' = "first"
          /\ Advance(c, "firstPoll")
          /\ UNCHANGED <<timer, adapter>>
       \/ /\ client
          /\ account' = FALSE
          /\ status' = "connected"
          /\ StartPolling
          /\ SettleRun(c)
          /\ UNCHANGED <<poll, adapter>>
       \/ /\ EndRun(c, "error")
          /\ UNCHANGED adapter
       \/ /\ ~client
          /\ EndRun(c, "disconnected")
          /\ UNCHANGED adapter

(* The first poll ends, by success, failure or a dead grant: only a session that
   is still there gets a timer. *)
FirstPollEndsSlip(c) ==
    /\ At(c, "firstPoll")
    /\ \/ UNCHANGED <<status, account, adapter>>
       \/ /\ account' = FALSE /\ status' = "disconnected"
          /\ tokens' = FALSE /\ client' = FALSE /\ UNCHANGED <<pending, redirect>>
    /\ poll' = "none"
    /\ StartPolling
    /\ SettleRun(c)

(* The dead grant handled by disconnect(), which awaits `inflight'. *)
FirstPollEndsHangSlip(c) ==
    /\ At(c, "firstPoll")
    /\ \A i \in DOMAIN waiters : waiters[i] # c
    /\ \/ /\ poll' = "none"
          /\ StartPolling
          /\ SettleRun(c)
          /\ UNCHANGED <<status, account, adapter>>
       \/ /\ waiters' = Append(waiters, c)
          /\ UNCHANGED <<service, adapter, kind, stage, ready>>

FirstPollEnds(c) ==
    /\ At(c, "firstPoll")
    /\ \/ /\ poll' = "none"
          /\ IF status = "connected" THEN StartPolling ELSE UNCHANGED timer
          /\ UNCHANGED <<status, account, adapter>>
       \/ ForgetSession
    /\ SettleRun(c)

(* The host process dies and starts again: only the settings rows survive, and
   the calls of its GUI end with it. *)
Restart ==
    /\ status' = "disconnected" /\ inflight' = NoCall
    /\ stage' = [c \in Calls |-> "idle"]
    /\ waiters' = <<>> /\ ready' = <<>>
    /\ client' = FALSE /\ pending' = NoCall /\ redirect' = NoCall
    /\ account' = FALSE /\ poll' = "none" /\ timer' = "off"
    /\ focused' = FALSE /\ autoTried' = FALSE
    /\ UNCHANGED <<kind, tokens>>

-----------------------------------------------------------------------------
Answers(c) ==
    \/ RefreshAnswers(c) \/ LoopbackBinds(c) \/ RequestAnswers(c)
    \/ ConsentAnswers(c) \/ ExchangeAnswers(c) \/ RedoAnswers(c)
    \/ AccountsAnswer(c) \/ FirstPollEnds(c)

Next ==
    \/ \E c \in Calls : UserConnects(c) \/ BootConnects(c) \/ UserDisconnects(c)
                        \/ Answers(c)
    \/ Resume
    \/ PollStarts \/ PollEnds \/ PollFindsDeadGrant
    \/ SetFocused \/ SettingsChanged
    \/ Restart

(* Every request of the MCP client times out (60 s) and so does the wait for the
   browser (10 min), hence each awaited answer comes; microtasks run. *)
Fairness == WF_vars(Resume) /\ \A c \in Calls : WF_vars(Answers(c))

Spec == Init /\ [][Next]_vars /\ Fairness

-----------------------------------------------------------------------------
(* Two consents never overlap (they would share the client registration and the
   verifier rows and open a browser each): at most one call is inside runConnect,
   `inflight' names it, and the browser gate and the pending loopback belong to
   its interactive consent. *)
OneConsent ==
    LET running == {c \in Calls : stage[c] \in Flow}
    IN /\ running = {inflight} \ {NoCall}
       /\ redirect # NoCall <=> \E c \in running : stage[c] \in Authorizing
       /\ redirect # NoCall => redirect = inflight /\ kind[inflight] = "interactive"
       /\ pending # NoCall => pending = redirect

(* A session is whole: connected means a live client and someone polling, now or
   by the timer, so the panels cannot go stale for good; a poll or a timer means
   a connected session; `connecting' means a connect in flight, or a superseded
   one whose canceller is about to settle the status it left; and with no focused
   GUI nothing polls at the fast cadence. *)
SessionBacked ==
    /\ status = "connecting" =>
         inflight # NoCall \/ \E i \in DOMAIN ready : kind[ready[i]] # "silent"
    /\ status = "connected" => client /\ (timer # "off" \/ poll = "first")
    /\ timer # "off" => status = "connected"
    /\ poll # "none" => status = "connected" /\ account
    /\ account => client
    /\ poll = "first" <=> \E c \in Calls : stage[c] = "firstPoll"
    /\ timer = "fast" => focused

(* The session as a whole: one consent at a time, and nothing connected that
   nobody serves. *)
SessionSound == TypeOK /\ OneConsent /\ SessionBacked

(* Every call of connect() and disconnect() returns, whatever cancels, joins or
   resets it, and although new calls keep superseding the one in flight: a dead
   grant on the first poll must not wait on itself, and a Reset must not hang. *)
CallsReturn == \A c \in Calls : stage[c] # "idle" ~> stage[c] = "idle"
=============================================================================
