----------------------------- MODULE AgentDesk -----------------------------
(***************************************************************************)
(* What the user is told of the agents: the StatusArbiter and the signals  *)
(* that feed it (terminal activity, hooks, approval cards), the Recent     *)
(* ring of notify events, and the launcher's tray, which follows the host  *)
(* over a socket of its own (status/arbiter.ts, notifications/recent.ts,   *)
(* main/index.ts, tray.ts).                                                *)
(*                                                                         *)
(* A subscription delivers in order and each message carries the whole     *)
(* list, so `sent' keeps the newest message of every stream that has not   *)
(* arrived; the approval count is a signal, a query and an answer.         *)
(*                                                                         *)
(* Hooks post whenever they please: one may be handled late, after its     *)
(* successor, or after its session has ended.                              *)
(*                                                                         *)
(* Definitions marked "Slip" are mistaken variants of the definition that  *)
(* follows them; no action uses them.                                      *)
(***************************************************************************)
EXTENDS Naturals, Sequences, FiniteSetsExt

CONSTANTS
  Agents,
  None,
  MaxCards,    \* bound: cards an agent has open at a time
  RecentMax,   \* rows of the ring
  MaxEvents    \* bound: notify events

VARIABLES
  hostUp,
  gone,        \* archived agents
  status,      \* agents.status
  arb,         \* StatusArbiter
  sess,        \* agents with a PTY, told to exit or not
  timers,      \* TerminalService.idleTimers
  cards,       \* pending approval rows
  ring,        \* recent_notifications, newest first
  noted,       \* history: notify events so far
  relay,       \* the launcher's socket: off, on, down, or stale
  sent,        \* what the host has sent and the launcher has not seen
  tray         \* AppTray

hostVars == <<hostUp, gone, status, arb, sess, timers, cards, ring, noted>>
vars == <<hostVars, relay, sent, tray>>

Cold == [pty     |-> [a \in Agents |-> "unset"], needs |-> {},
         pending |-> [a \in Agents |-> 0]]

Nothing == [agents |-> None, recent |-> None, signal |-> FALSE, asked |-> FALSE,
            answer |-> None]
Blank == [agents |-> <<>>, pending |-> 0, recent |-> <<>>]

-----------------------------------------------------------------------------
(* The status of an agent                                                    *)

Statuses == {"awaiting-approval", "needs-input", "working", "idle"}

Winner(r, a) ==
  IF r.pending[a] > 0 THEN "awaiting-approval"
  ELSE IF a \in r.needs THEN "needs-input"
  ELSE IF r.pty[a] = "working" THEN "working" ELSE "idle"

\* Output clears a stale needs-input.
setPty(a, s) == [arb EXCEPT !.pty[a] = s,
                            !.needs = IF s = "working" THEN @ \ {a} ELSE @]
setNeedsInput(a, on) == [arb EXCEPT !.needs = IF on THEN @ \cup {a} ELSE @ \ {a}]
setPendingApprovals(a, n) == [arb EXCEPT !.pending[a] = n]
forget(a) == [arb EXCEPT !.pty[a] = "unset", !.needs = @ \ {a}, !.pending[a] = 0]

\* registry.list: what the tray needs of it.
list(st, gn) == [a \in Agents \ gn |-> st[a]]

Tell(s, stream, v) == IF relay = "on" THEN [s EXCEPT ![stream] = v] ELSE s

\* The arbiter's signals become r; recompute and setStatus for a.
Judge(r, a) ==
  /\ arb' = r
  /\ status' = [status EXCEPT ![a] = Winner(r, a)]

\* setStatus broadcasts a change.
Broadcast(s) == IF status' = status THEN s ELSE Tell(s, "agents", list(status', gone))

Init ==
  /\ hostUp = TRUE /\ gone = {}
  /\ status = [a \in Agents |-> "idle"] /\ arb = Cold
  /\ sess = {} /\ timers = {}
  /\ cards = [a \in Agents |-> 0]
  /\ ring = <<>> /\ noted = 0
  /\ relay = "off" /\ sent = Nothing /\ tray = Blank

\* TerminalService.spawn; TerminalSessions models when.
SessionStarts(a) ==
  /\ hostUp /\ a \notin gone \cup sess
  /\ sess' = sess \cup {a}
  /\ UNCHANGED <<hostUp, gone, status, arb, timers, cards, ring, noted, relay, sent, tray>>

\* markWorking
Output(a) ==
  /\ a \in sess
  /\ Judge(setPty(a, "working"), a)
  /\ timers' = timers \cup {a}
  /\ sent' = Broadcast(sent)
  /\ UNCHANGED <<hostUp, gone, sess, cards, ring, noted, relay, tray>>

\* IDLE_AFTER_MS without output.
IdleElapses(a) ==
  /\ a \in timers
  /\ Judge(setPty(a, "idle"), a)
  /\ timers' = timers \ {a}
  /\ sent' = Broadcast(sent)
  /\ UNCHANGED <<hostUp, gone, sess, cards, ring, noted, relay, tray>>

\* The manager reports an exit.  What the session was waiting for is not cleared.
SessionExits(a) ==
  /\ a \in sess
  /\ sess' = sess \ {a}
  /\ timers' = timers \ {a}
  /\ Judge(setPty(a, "idle"), a)
  /\ sent' = Broadcast(sent)
  /\ UNCHANGED <<hostUp, gone, cards, ring, noted, relay, tray>>

\* handleStatus.  markAgentTurn broadcasts whether the winner changes or not.  A
\* headless run asks nobody, but its turn ends.
Hook(a, event) ==
  /\ hostUp
  /\ event = "Notification" => a \in sess \/ arb.pty[a] # "unset"
  /\ Judge(setNeedsInput(a, event = "Notification"), a)
  /\ sent' = Tell(sent, "agents", list(status', gone))
  /\ UNCHANGED <<hostUp, gone, sess, timers, cards, ring, noted, relay, tray>>

-----------------------------------------------------------------------------
(* Events and cards                                                          *)

NewestFirst(n) == [i \in 1 .. Min({n, RecentMax}) |-> n + 1 - i]

\* Slip: what the insert displaces is counted before the insert.
RecordedLate(r) == SubSeq(<<noted + 1>> \o r, 1, Min({Len(r) + 1, RecentMax + 1}))

\* record: append, keep the newest RecentMax, publish the list.
Recorded(r) == SubSeq(<<noted + 1>> \o r, 1, Min({Len(r) + 1, RecentMax}))

Notify(s) ==
  /\ noted < MaxEvents
  /\ noted' = noted + 1
  /\ ring' = Recorded(ring)
  /\ sent' = Tell(s, "recent", ring')

\* wakeStarted: the agent's last turn is stamped and the user notified.
WakeStarts(a) ==
  /\ hostUp /\ a \notin gone
  /\ Notify(Tell(sent, "agents", list(status, gone)))
  /\ UNCHANGED <<hostUp, gone, status, arb, sess, timers, cards, relay, tray>>

\* syncPending for the agent's n pending rows, and approvals:changed.
SyncPending(a, n) ==
  /\ cards' = [cards EXCEPT ![a] = n]
  /\ Judge(setPendingApprovals(a, n), a)

\* ApprovalService.request in approve mode; an archived agent's order is gated too.
Card(a) ==
  /\ hostUp /\ cards[a] < MaxCards
  /\ SyncPending(a, cards[a] + 1)
  /\ Notify(Tell(Broadcast(sent), "signal", TRUE))
  /\ UNCHANGED <<hostUp, gone, sess, timers, relay, tray>>

\* Slip: a card that is abandoned leaves the count alone.
CloseUncounted(a) ==
  /\ hostUp /\ cards[a] > 0
  /\ cards' = [cards EXCEPT ![a] = @ - 1]
  /\ sent' = Tell(sent, "signal", TRUE)
  /\ UNCHANGED <<hostUp, gone, status, arb, sess, timers, ring, noted, relay, tray>>

\* finalize: decided, timed out or abandoned.
Close(a) ==
  /\ hostUp /\ cards[a] > 0
  /\ SyncPending(a, cards[a] - 1)
  /\ sent' = Tell(Broadcast(sent), "signal", TRUE)
  /\ UNCHANGED <<hostUp, gone, sess, timers, ring, noted, relay, tray>>

\* agents.archive: kill forgets the agent's signals without judging it again;
\* the PTY's exit is reported later.
Archive(a) ==
  /\ hostUp /\ a \notin gone
  /\ arb' = forget(a)
  /\ gone' = gone \cup {a}
  /\ sent' = Tell(sent, "agents", list(status, gone'))
  /\ UNCHANGED <<hostUp, status, sess, timers, cards, ring, noted, relay, tray>>

-----------------------------------------------------------------------------
(* The host goes away and comes back                                         *)

\* The next host listens on another port, which this launcher never learns.
HostStops ==
  /\ hostUp
  /\ hostUp' = FALSE
  /\ arb' = Cold /\ sess' = {} /\ timers' = {}
  /\ relay' = IF relay = "off" THEN "off" ELSE "stale"
  /\ sent' = Nothing
  /\ UNCHANGED <<gone, status, cards, ring, noted, tray>>

\* Slip: the cards of the previous host are left pending.
OrphansKept == cards

\* expireOrphansOnBoot: every card pending is finalized.
OrphansLeft == [a \in Agents |-> 0]

\* resetStatusesOnBoot, over the agents in the list, then the orphans, whose
\* finalize judges their agent.
Boot ==
  /\ ~hostUp
  /\ hostUp' = TRUE
  /\ cards' = OrphansLeft
  /\ status' = [a \in Agents |-> IF a \in gone /\ cards[a] = 0 THEN status[a] ELSE "idle"]
  /\ UNCHANGED <<gone, arb, sess, timers, ring, noted, relay, sent, tray>>

-----------------------------------------------------------------------------
(* The launcher                                                              *)

\* Slip: approvals.onChanged only says when something changes.
SeedUnasked == [Nothing EXCEPT !.agents = list(status, gone), !.recent = ring]

\* Every subscription answers at once with the current value (for approvals: a
\* signal).
Seed == [Nothing EXCEPT !.agents = list(status, gone), !.recent = ring, !.signal = TRUE]

\* ensureHost found the host; wireNotifications.
LauncherStarts ==
  /\ relay = "off" /\ hostUp
  /\ relay' = "on" /\ sent' = Seed /\ tray' = Blank
  /\ UNCHANGED hostVars

LauncherQuits ==
  /\ relay # "off"
  /\ relay' = "off" /\ sent' = Nothing /\ tray' = Blank
  /\ UNCHANGED hostVars

\* The socket drops; what was under way is lost.
SocketDrops ==
  /\ relay = "on"
  /\ relay' = "down" /\ sent' = Nothing
  /\ UNCHANGED <<hostVars, tray>>

\* The client reconnects to the same host and subscribes again.
SocketReturns ==
  /\ relay = "down" /\ hostUp
  /\ relay' = "on" /\ sent' = Seed
  /\ UNCHANGED <<hostVars, tray>>

AgentsArrive ==
  /\ sent.agents # None
  /\ tray' = [tray EXCEPT !.agents = sent.agents]
  /\ sent' = [sent EXCEPT !.agents = None]
  /\ UNCHANGED <<hostVars, relay>>

RecentArrives ==
  /\ sent.recent # None
  /\ tray' = [tray EXCEPT !.recent = sent.recent]
  /\ sent' = [sent EXCEPT !.recent = None]
  /\ UNCHANGED <<hostVars, relay>>

\* approvals.onChanged or onPending: updateBadge asks for the count.
SignalArrives ==
  /\ sent.signal
  /\ sent' = [sent EXCEPT !.signal = FALSE, !.asked = TRUE]
  /\ UNCHANGED <<hostVars, relay, tray>>

TotalOf(pending) == MapThenSumSet(LAMBDA a : pending[a], Agents)
PendingTotal == TotalOf(cards)

\* approvals.pendingCount
Count ==
  /\ sent.asked
  /\ sent' = [sent EXCEPT !.asked = FALSE, !.answer = PendingTotal]
  /\ UNCHANGED <<hostVars, relay, tray>>

CountArrives ==
  /\ sent.answer # None
  /\ tray' = [tray EXCEPT !.pending = sent.answer]
  /\ sent' = [sent EXCEPT !.answer = None]
  /\ UNCHANGED <<hostVars, relay>>

Next ==
  \/ \E a \in Agents :
       \/ SessionStarts(a) \/ Output(a) \/ IdleElapses(a) \/ SessionExits(a)
       \/ \E event \in {"Notification", "Stop"} : Hook(a, event)
       \/ WakeStarts(a) \/ Card(a) \/ Close(a) \/ Archive(a)
  \/ HostStops \/ Boot
  \/ LauncherStarts \/ LauncherQuits \/ SocketDrops \/ SocketReturns
  \/ AgentsArrive \/ RecentArrives \/ SignalArrives \/ Count \/ CountArrives

Spec == Init /\ [][Next]_vars

\* None is neither a list of agents, nor one of events, nor a count.
DeskAssumption ==
  /\ MaxCards \in Nat /\ RecentMax \in Nat /\ MaxEvents \in Nat
  /\ \A as \in SUBSET Agents : None \notin [as -> Statuses]
  /\ \A n \in 0 .. MaxEvents : NewestFirst(n) # None
  /\ \A pending \in [Agents -> 0 .. MaxCards] : TotalOf(pending) # None

-----------------------------------------------------------------------------
(* Properties                                                                *)

\* What the sidebar says of an agent is what the highest of the independent facts
\* says: a card pending in the approvals table, an unanswered prompt, output within
\* the idle delay -- after any order of hooks, exits, abandoned cards and boots.
\* A status nobody would clear ("working" without a timer, "awaiting-approval"
\* without a card) cannot stay.
StatusIsWinner ==
  hostUp => \A a \in Agents \ gone :
    status[a] = IF cards[a] > 0 THEN "awaiting-approval"
                ELSE IF a \in arb.needs THEN "needs-input"
                ELSE IF a \in timers THEN "working" ELSE "idle"

\* Once nothing is under way, the tray of a launcher that is connected shows the
\* agents and the pending count as they are and the newest events, newest first,
\* whatever was lost with a dropped socket and whichever launcher or host recorded
\* them.
TrayCatchesUp ==
  relay = "on" /\ sent = Nothing =>
    tray = [agents |-> list(status, gone), pending |-> PendingTotal,
            recent |-> NewestFirst(noted)]
=============================================================================
