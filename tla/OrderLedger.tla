---------------------------- MODULE OrderLedger ----------------------------
(***************************************************************************)
(* The order ledger of the broker service and what its poll reports        *)
(* (services/broker/index.ts: pollOnce, syncLedger, fullSweep,             *)
(* fetchHistory, refreshOrders, the outage and failure books;              *)
(* services/broker/order-notify.ts).                                       *)
(*                                                                         *)
(* The broker keeps three lists of orders; a history is read one list at a *)
(* time, so the lists of one fetch are snapshots of different moments.  A  *)
(* poll reads the recent window, after a sweep of the whole history when   *)
(* one is due; a refresh asked for by the GUI sweeps beside it.  The       *)
(* session around them is BrokerSession's, reduced to its start and end.   *)
(*                                                                         *)
(* Definitions whose name ends in "Slip" are not part of the model: each   *)
(* is a plausible mistake in the definition that follows it.               *)
(***************************************************************************)
EXTENDS Naturals, FiniteSets

CONSTANTS
    Orders,         \* order ids of the account
    Linked,         \* those an agent placed (agentForOrder finds them)
    Lists,          \* the lists the adapter has: equity, option, crypto
    ListOf,         \* the list an order is on
    MaxDays,        \* bounds: days that pass,
    MaxRefreshes,   \*   refreshes the GUI asks for,
    MaxEnds,        \*   sessions that end (Reset or restart of the host),
    MaxFailures     \*   polls that fail

(* What the constants must satisfy. *)
LedgerAssumption ==
    /\ Linked \subseteq Orders
    /\ Lists \in 1..3
    /\ ListOf \in [Orders -> 1..Lists]
    /\ {MaxDays, MaxRefreshes, MaxEnds, MaxFailures} \subseteq Nat

VARIABLES
    remote,     \* the broker's own state of each order
    aged,       \* orders created more than a recent window (24 h) ago
    connected,  \* the session is there
    ledger,     \* BrokerService.ledger; "none" for an id it does not hold
    sweepDue,   \* lastFullSweepAt is a day or more ago (0 at the start)
    poll,       \* the poll in flight
    refresh,    \* the refreshOrders in flight
    offline,    \* offlineSince is set
    failed,     \* failedPolls
    lastLog,    \* lastFailureLog
    suppressed, \* suppressedFailures
    days, refreshes, ends,      \* how often the bounded events happened
    \* observations, read by the properties only
    notified,   \* notifications sent for an order
    rewound,    \* orders whose ledger entry left a terminal state
    owed,       \* orders that existed when the installed sweep began
    failures,   \* polls that failed
    logged      \* of those, the ones host.log tells of

market == <<remote, aged>>
books == <<offline, failed, lastLog, suppressed, failures, logged>>
seen == <<notified, rewound, owed>>
bounds == <<days, refreshes, ends>>
vars == <<market, connected, ledger, sweepDue, poll, refresh, books, bounds, seen>>

(* An order's state as far as notifications care: in flight, or absorbing. *)
OrderState == {"none", "open", "terminal"}
Nothing == [o \in Orders |-> "none"]
Existing == {o \in Orders : remote[o] # "none"}

(* A read of the history in progress: the lists answered and what they held. *)
Fetch == [list : 0..(Lists - 1), got : [Orders -> OrderState], start : SUBSET Orders]
Begin == [list |-> 0, got |-> Nothing, start |-> Existing]

Idle == [stage |-> "none", fetch |-> [list |-> 0, got |-> Nothing, start |-> {}]]

TypeOK ==
    /\ remote \in [Orders -> OrderState] /\ aged \subseteq Existing
    /\ ledger \in [Orders -> OrderState]
    /\ {connected, sweepDue, offline} \subseteq BOOLEAN
    /\ poll \in [stage : {"none", "assets", "sweep", "recent"}, fetch : Fetch]
    /\ refresh \in [stage : {"none", "sweep"}, fetch : Fetch]
    /\ lastLog \in {"none", "network", "other"}
    /\ failed \in 0..MaxFailures /\ suppressed \in 0..MaxFailures
    /\ notified \in [Orders -> 0..(MaxEnds + MaxRefreshes + 1)]
    /\ {rewound, owed} \subseteq SUBSET Orders

Init ==
    /\ remote = Nothing /\ aged = {}
    /\ connected = FALSE
    /\ ledger = Nothing /\ sweepDue = TRUE
    /\ poll = Idle /\ refresh = Idle
    /\ offline = FALSE /\ failed = 0 /\ lastLog = "none" /\ suppressed = 0
    /\ days = 0 /\ refreshes = 0 /\ ends = 0
    /\ notified = [o \in Orders |-> 0]
    /\ rewound = {} /\ owed = {}
    /\ failures = 0 /\ logged = 0

-----------------------------------------------------------------------------
(* The market, and time *)

Place(o) ==
    /\ remote[o] = "none"
    /\ remote' = [remote EXCEPT ![o] = "open"]
    /\ UNCHANGED <<aged, connected, ledger, sweepDue, poll, refresh, books, bounds, seen>>

Settle(o) ==
    /\ remote[o] = "open"
    /\ remote' = [remote EXCEPT ![o] = "terminal"]
    /\ UNCHANGED <<aged, connected, ledger, sweepDue, poll, refresh, books, bounds, seen>>

(* A day is long against a poll, whose requests time out after a minute. *)
DayPasses ==
    /\ poll.stage = "none" /\ refresh.stage = "none"
    /\ days < MaxDays /\ days' = days + 1
    /\ aged' = Existing
    /\ sweepDue' = TRUE
    /\ UNCHANGED <<remote, connected, ledger, poll, refresh, books, refreshes, ends, seen>>

-----------------------------------------------------------------------------
(* Reading the history *)

(* The next list answered: equity, then options, then crypto.  A list is read page by
   page to its end; that the code stops after a hundred pages without an error
   (index.ts:704) is left out: a list is taken to be shorter. *)
fetchHistory(f, window) ==
    [f EXCEPT !.list = IF @ = Lists - 1 THEN 0 ELSE @ + 1,
              !.got = [o \in Orders |->
                         IF o \in window /\ ListOf[o] = f.list + 1
                         THEN remote[o] ELSE @[o]]]

(* The map is replaced as a whole once every list has answered. *)
fullSweep(f) ==
    /\ ledger' = f.got
    /\ sweepDue' = FALSE
    /\ owed' = f.start

(* The entries whose terminal state the new map forgets. *)
Rewinds(new) == {o \in Orders : ledger[o] = "terminal" /\ new[o] # "terminal"}

(* An order reached an absorbing state, as far as the ledger knew. *)
terminalTransitionSlip(prev, next) == next = "terminal"
terminalTransition(prev, next) == next = "terminal" /\ prev # "terminal"

-----------------------------------------------------------------------------
(* The books of failed polls *)

(* One line of host.log per run of identical failures; the repeats are counted
   and written down when the failure changes or a poll succeeds. *)
logPollFailureSlip(k) ==
    IF k = lastLog
    THEN suppressed' = suppressed + 1 /\ UNCHANGED <<lastLog, logged>>
    ELSE lastLog' = k /\ suppressed' = 0 /\ logged' = logged + 1

logPollFailure(k) ==
    IF k = lastLog
    THEN suppressed' = suppressed + 1 /\ UNCHANGED <<lastLog, logged>>
    ELSE lastLog' = k /\ suppressed' = 0 /\ logged' = logged + suppressed + 1

(* notePollRecovered and noteOnline *)
Recovered ==
    /\ lastLog' = "none" /\ suppressed' = 0 /\ logged' = logged + suppressed
    /\ offline' = FALSE
    /\ failed' = IF offline THEN 0 ELSE failed
    /\ UNCHANGED failures

(* forgetSession, as far as it is about orders: the ledger and the outage go,
   the calls in flight fail with their client and report nothing.  The time of
   the last sweep stays. *)
forgetSession ==
    /\ connected' = FALSE
    /\ ledger' = Nothing
    /\ poll' = Idle /\ refresh' = Idle
    /\ offline' = FALSE /\ failed' = 0
    /\ rewound' = rewound \cup Rewinds(Nothing)
    /\ owed' = {}
    /\ UNCHANGED notified

(* The catch of pollOnce: a network failure opens or continues an outage, a dead
   grant ends the session, anything else is reported and changes nothing. *)
PollFails ==
    /\ poll.stage # "none"
    /\ failures < MaxFailures /\ failures' = failures + 1
    /\ \/ /\ logPollFailure("network")
          /\ offline' = TRUE /\ failed' = failed + 1
          /\ poll' = Idle
          /\ UNCHANGED <<connected, ledger, refresh, ends, seen>>
       \/ /\ logPollFailure("other")
          /\ poll' = Idle
          /\ UNCHANGED <<connected, ledger, refresh, ends, seen, offline, failed>>
       \/ /\ logPollFailure("other")
          /\ ends < MaxEnds /\ ends' = ends + 1
          /\ forgetSession
    /\ UNCHANGED <<market, sweepDue, days, refreshes>>

-----------------------------------------------------------------------------
(* A poll *)

PollStarts ==
    /\ connected
    /\ poll.stage = "none"
    /\ poll' = [stage |-> "assets", fetch |-> Begin]
    /\ UNCHANGED <<market, connected, ledger, sweepDue, refresh, books, bounds, seen>>

(* Portfolio, positions and quotes answered (options and crypto may have failed
   on their own and keep their cached rows): on to syncLedger. *)
AssetsAnswer ==
    /\ poll.stage = "assets"
    /\ poll' = [poll EXCEPT !.stage = IF sweepDue THEN "sweep" ELSE "recent"]
    /\ UNCHANGED <<market, connected, ledger, sweepDue, refresh, books, bounds, seen>>

(* A sweep that keeps what it has when the options list fails. *)
SweepAnswersSlip ==
    /\ poll.stage = "sweep"
    /\ \E f \in {fetchHistory(poll.fetch, Orders), [poll.fetch EXCEPT !.list = 0]} :
          IF f.list # 0
          THEN /\ poll' = [poll EXCEPT !.fetch = f]
               /\ UNCHANGED <<ledger, sweepDue, seen>>
          ELSE /\ fullSweep(f)
               /\ rewound' = rewound \cup Rewinds(f.got)
               /\ poll' = [stage |-> "recent", fetch |-> [f EXCEPT !.got = Nothing]]
               /\ UNCHANGED notified
    /\ UNCHANGED <<market, connected, refresh, books, bounds>>

SweepAnswers ==
    /\ poll.stage = "sweep"
    /\ LET f == fetchHistory(poll.fetch, Orders)
       IN IF f.list # 0
          THEN /\ poll' = [poll EXCEPT !.fetch = f]
               /\ UNCHANGED <<ledger, sweepDue, seen>>
          ELSE /\ fullSweep(f)
               /\ rewound' = rewound \cup Rewinds(f.got)
               /\ poll' = [stage |-> "recent", fetch |-> [f EXCEPT !.got = Nothing]]
               /\ UNCHANGED notified
    /\ UNCHANGED <<market, connected, refresh, books, bounds>>

(* The recent window is merged into the ledger, the freshest state wins, and an
   order of an agent that just became terminal is notified.  The poll is over. *)
RecentAnswers ==
    /\ poll.stage = "recent"
    /\ LET f == fetchHistory(poll.fetch, Orders \ aged)
       IN IF f.list # 0
          THEN /\ poll' = [poll EXCEPT !.fetch = f]
               /\ UNCHANGED <<ledger, seen, books>>
          ELSE /\ ledger' = [o \in Orders |->
                               IF f.got[o] = "none" THEN ledger[o] ELSE f.got[o]]
               /\ notified' = [o \in Orders |->
                     IF o \in Linked /\ terminalTransition(ledger[o], f.got[o])
                     THEN notified[o] + 1 ELSE notified[o]]
               /\ rewound' = rewound \cup Rewinds(ledger')
               /\ poll' = Idle
               /\ Recovered
               /\ UNCHANGED owed
    /\ UNCHANGED <<market, connected, sweepDue, refresh, bounds>>

-----------------------------------------------------------------------------
(* refreshOrders: a sweep of its own, beside whatever the poller does *)

RefreshStarts ==
    /\ connected
    /\ refresh.stage = "none"
    /\ refreshes < MaxRefreshes /\ refreshes' = refreshes + 1
    /\ refresh' = [stage |-> "sweep", fetch |-> Begin]
    /\ UNCHANGED <<market, connected, ledger, sweepDue, poll, books, days, ends, seen>>

RefreshAnswers ==
    /\ refresh.stage = "sweep"
    /\ LET f == fetchHistory(refresh.fetch, Orders)
       IN IF f.list # 0
          THEN /\ refresh' = [refresh EXCEPT !.fetch = f]
               /\ UNCHANGED <<ledger, sweepDue, seen>>
          ELSE /\ fullSweep(f)
               /\ rewound' = rewound \cup Rewinds(f.got)
               /\ refresh' = Idle
               /\ UNCHANGED notified
    /\ UNCHANGED <<market, connected, poll, books, bounds>>

(* The error goes back to the button that asked. *)
RefreshFails ==
    /\ refresh.stage = "sweep"
    /\ refresh' = Idle
    /\ UNCHANGED <<market, connected, ledger, sweepDue, poll, books, bounds, seen>>

-----------------------------------------------------------------------------
(* The session *)

SessionStarts ==
    /\ ~connected
    /\ connected' = TRUE
    /\ UNCHANGED <<market, ledger, sweepDue, poll, refresh, books, bounds, seen>>

Reset ==
    /\ connected
    /\ ends < MaxEnds /\ ends' = ends + 1
    /\ forgetSession
    /\ UNCHANGED <<market, sweepDue, lastLog, suppressed, failures, logged, days, refreshes>>

RestartSlip ==
    /\ ends < MaxEnds /\ ends' = ends + 1
    /\ connected' = FALSE
    /\ ledger' = Nothing
    /\ poll' = Idle /\ refresh' = Idle
    /\ offline' = FALSE /\ failed' = 0 /\ lastLog' = "none" /\ suppressed' = 0
    /\ logged' = logged + suppressed
    /\ owed' = {}
    /\ UNCHANGED <<market, sweepDue, failures, days, refreshes, notified, rewound>>

(* A new host process: nothing of the above is stored but the last full list for
   the GUI.  The next poll sweeps first. *)
Restart ==
    /\ ends < MaxEnds /\ ends' = ends + 1
    /\ connected' = FALSE
    /\ ledger' = Nothing /\ sweepDue' = TRUE
    /\ poll' = Idle /\ refresh' = Idle
    /\ offline' = FALSE /\ failed' = 0 /\ lastLog' = "none" /\ suppressed' = 0
    /\ logged' = logged + suppressed      \* the count dies with the process
    /\ owed' = {}
    /\ UNCHANGED <<market, failures, days, refreshes, notified, rewound>>

Next ==
    \/ \E o \in Orders : Place(o) \/ Settle(o)
    \/ DayPasses
    \/ PollStarts \/ AssetsAnswer \/ SweepAnswers \/ RecentAnswers \/ PollFails
    \/ RefreshStarts \/ RefreshAnswers \/ RefreshFails
    \/ SessionStarts \/ Reset \/ Restart

Spec == Init /\ [][Next]_vars

-----------------------------------------------------------------------------
(* A sweep that succeeded makes the ledger complete and nothing but a later
   sweep or the end of the session takes an order out of it again: every order
   that existed when the installed sweep began is held, whatever failed, aged or
   was merged since, and no entry is ahead of the broker.  (Of lists of no more than a
   hundred pages, see fetchHistory.) *)
SweptComplete ==
    /\ \A o \in owed : ledger[o] # "none"
    /\ \A o \in Orders : ledger[o] = "terminal" => remote[o] = "terminal"
    /\ \A o \in Orders : ledger[o] # "none" => remote[o] # "none"

(* Order notifications are sent for orders of agents that really are over, and
   once each -- also across a restart of the host, whose first sweep seeds what
   was terminal before -- unless a reset or an overtaken sweep took the terminal
   entry out of the ledger in between. *)
NotifiedOnce ==
    \A o \in Orders :
        /\ notified[o] > 0 => o \in Linked /\ remote[o] = "terminal"
        /\ notified[o] > 1 => o \in rewound

(* No failed poll is lost from host.log: each has a line of its own or is in the
   count of repeats still to be written; and an outage is open exactly while
   failed polls are counted against it. *)
FailuresAccounted ==
    /\ failures = logged + suppressed
    /\ suppressed > 0 => lastLog # "none"
    /\ offline <=> failed > 0

(* The books of the service: the orders it holds and the failures it tells of. *)
BooksComplete == TypeOK /\ SweptComplete /\ FailuresAccounted
=============================================================================
