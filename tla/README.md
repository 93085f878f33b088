# OpenTrade: verification project

OpenTrade is a desktop application that runs trading agents (claude or codex
sessions in terminals), wakes them on schedules and monitors, gates every order
they place behind the user's approval and shows the broker's ledger.  This
directory holds TLA+ modules translated from its source, the TLC
configurations that model-check them and TLAPS proofs about them.

## 1. Inventory

Everything that matters runs in one detached *host* process (a single event
loop); the launcher and its window, the terminals and the agents' processes talk
to it over HTTP, web sockets and pipes.  A handler therefore runs to completion
between two awaits, and what is hard is what happens *between* handlers: a process
exits, a timer fires, a promise of an earlier session settles, the user clicks.
Outside the host, several launchers race over two files, and the renderer works on
lists that lag behind.

| Component | State | Operations | What makes it correct |
|---|---|---|---|
| wake coordinator (`services/scheduler/wake/coordinator.ts`) | per agent: execution state, FIFO of wakes, live wakes, parked poll, push closure and flag, kill timer, stop / timeout / API-error flags, resume-failure streak | enqueue, awaitPoll, onInteractiveUp/Down, stop, headlessExited, onTurnEnded/Failed, pushSettled | order, no loss without a cause, exactly one settlement per started wake, one writer per session, bounded runs |
| headless strategies, spawn markers (`wake/*-strategy.ts`, `spawn-marker.ts`) | child process or codex turn, marker file | run, stop, reconcile at boot | exit reported once; a crash never leaves two writers of one transcript |
| scheduler (`services/scheduler`) | schedules and monitors (rows), timers, History rows | create / delete / fire / disarm / rearm / remove / start (catch-up) / stop | every due schedule fires once; a one-shot runs once; paused and archived agents never fire |
| sleep guard (`wake/sleep-guard.ts`) | held power assertions | hold, release, audit | held for a headless run and for nothing else |
| approval gate (`services/approvals/index.ts`, `harness/codex-gate.ts`, the hook scripts) | approval rows, waiters with timers, joiners | request, decide, abandon, recordOutcome, boot expiry | no order without a decision of its own; decisions are final; every caller is answered |
| order parsing (`approvals/parse.ts`, `robinhood/mapping.ts`, `shared/options.ts`) | none | from the agent's call to the card, from the broker's replies to outcomes, orders, positions | the card says what the order will do; a refusal is not an acceptance |
| activity view (`audit`, `lib/activity-groups.ts`, `panels/Activity.tsx`) | audit log | group, join with the ledger, total | one row per order, in the state the broker has it |
| broker (`services/broker`) | status, connect in flight, tokens, ledger, outage books, caches | connect, disconnect, poll, sweep, refresh | every connect returns; each terminal order is notified once; dollars add up |
| terminal sessions (`services/terminal`, `gui-presence.ts`) | PTYs, launch records, coalesced opens, GUI presence | openOrAttach, restart, close, GUI teardown, respawn | never an interactive PTY beside a headless run; the writer learns of every PTY's life |
| terminal output path (`pty-daemon`, `renderer/lib/terminal`) | scrollback, sinks, sockets, the controller's epoch and intent | append, attach, flush, exit, retry | the pane shows one session's output, whole and in order |
| codex app-server (`harness/codex-app-server.ts`, `codex.ts`) | server children, bring-ups, crash breaker, connections | ensureServer, runTurn, stop, adoption | one tracked server per agent; a turn's promise settles and tells the truth |
| host process (`host/manifest.ts`, `host/index.ts`) | manifest, spawn lock | ensureHost, terminateHost, boot, shutdown | at most one host, of the launcher's version |
| application shell (`main/index.ts`, `updater.ts`, `window.ts`) | window, dock, tray, quitting flags, update state | open, close, quit, relaunch, channel | always reachable, quits when told to, never half quit |
| agent registry, renderer's roster (`agents/registry.ts`, `AgentSidebar.tsx`, `NewAgentDialog.tsx`) | rows, folders; list, selection, forms | create, archive, select, delete | folders apart; selection follows the list; nothing runs for a deleted agent |
| status and notifications (`status/arbiter.ts`, `notifications/recent.ts`, `tray.ts`) | signals per agent, ring of events, the tray's copy | set, forget, record, seed | the status is the highest signal; the tray catches up |
| database (`db`) | schema version, tables, snapshots | boot: snapshot, DDL, migrate | a boot that succeeds has its build's schema, and the way back |
| settings, analytics, feedback | settings row, consent, draft | update, track, send | nothing without consent; nothing stored twice |
| harness adapters, website | none | command lines, static pages | not modelled |

The components interact through calls inside the host (scheduler -> coordinator
-> strategy -> registry; terminal -> coordinator; gate and broker -> the ledger
and the audit log), through HTTP from the agents' processes (wake stream, hooks,
approval gate), through the renderer's and the launcher's sockets, and through
child-process and PTY exit events.  PROJECT.json's `hazards` lists where this is
hard to test, line by line.

## 2. Plan

| Module | Models | Composes / implements | State |
|---|---|---|---|
| `WakeLedger` | what the wake layer promises per wake | abstract specification | done |
| `WakeWriter`, `MCWakeWriter` | one agent's writer with its child, transports and History rows | implements `WakeLedger` | done |
| `WakeWriterProofs`, `OrderProofs`, `TerminalSessionsProofs`, `TerminalViewProofs`, `CodexServerProofs`, `MCHostProofs`, `MCDeskProofs`, `MCAppProofs` | | theorems about the module of the name, and about each part of a composed one; `OrderProofs` is about `ApprovalGate` and `OrderTrail` | see section 5 |
| `ApprovalGate` | approval service, both gate layers, the agent behind them | | done |
| `TerminalSessions` | sessions of one agent, GUI presence, the writer's state | the writer reduced to its state | done |
| `TerminalView` | scrollback, socket, controller of the pane | the sessions reduced to what a pane depends on | done |
| `CronScheduler` | schedules, timers, monitors, boot | the agent reduced to broken / paused / archived | done |
| `SleepGuard`, `AgentDesk`, `AgentRoster`, `Telemetry`, `SchemaUpgrade`, `MCDesk` | power assertions; status, Recent and tray; agents and their list; consent and feedback; database boots | one run in six parts, with `CronScheduler` | done |
| `CodexServer` | app-server, codex turns, markers of codex | a run, a push and a TUI around one server | done |
| `HostLaunch`, `OrderLedger`, `SpawnRecovery`, `MCHost` | launchers, lock and manifest; order books; claude children and markers | one run in three parts | done |
| `BrokerSession`, `AppShell`, `MCApp` | connect, consent and poll; launcher, window and updater | one run in two parts | done |
| `OrderCards`, `Holdings` | pure functions of orders and positions | used by `OrderTrail` | done |
| `OrderTrail`, `MCOrderTrail` | an order from the call to its row | cards, ledger and view together | done |

The parts of a composed MC module share no state: a behaviour takes the steps of one
part (variable `part`) while the others stay as they start, so that one run checks
what would otherwise take several.

Left to do.  Compositions: the one-shot retirement of `CronScheduler` with the drops
of `WakeWriter` (a one-shot is retired when its wake is queued, not when it ran); two
overlapping codex launches; one interface for the writer's states, of which the
reduced writers of `TerminalSessions`, `SleepGuard` and `SpawnRecovery` are shown to
be projections.  No module declares a `RECURSIVE` operator, so all of them can be
proved about.

## 3. How the modules correspond to the code

The host is one event loop.  An action is one handler with everything it calls
synchronously; a handler that awaits is split where it awaits, and whatever it
read before the await is kept as state (the gate's `snapshot`, the terminals'
`opening`).  What the environment decides -- users, agents, processes, the
network, timers' lateness -- is nondeterministic.  PROJECT.json's `map` gives the
lines behind each definition.

Every module keeps next to some definitions a wrong variant, marked *Slip*: a
dropped guard, a missing reset, a swapped choice.  No action uses a slip; each
is what one property is there to catch.

### WakeWriter (`coordinator.ts`, `types.ts`, parts of `scheduler/index.ts`)

One agent's `AgentWriter`.  A wake is its position in the order of firing, so
"older" is "smaller"; the code mints an id per fire.

| Variables | In the code |
|---|---|
| `wstate`, `pending`, `live` | `state`, `pending`, `liveWakes` |
| `poll` | `interactivePoll`, with whose MCP server parked it |
| `push`, `pushBusy`, `flight`, `retryArmed` | the codex push closure, `pushInFlight`, its promise, the retry timer |
| `run`, `childAlive`, `killArmed`, `sleepHeld` | the headless run, its process, kill timer, sleep assertion |
| `stopping`, `timedOut`, `apiErr`, `resumeFails` | the flags of the same names |
| `used`, `featureOn`, `agentLimit`, `gone` | the turn budget and its switches, `archivedAt` |
| `row` | the History rows (`wakeStarted`, `wakeFinished`) |

`harness` is chosen in the initial state, so one run covers both transports.
`Fire` is `Scheduler.fire`, whose test of `wouldDropWake` runs in the same turn of the
loop as the enqueue.  `HostRestart` covers a clean quit and a crash; a claude
child that survived a crash makes the agent BROKEN at boot (`spawn-marker.ts`,
taken over in the writer's constructor), a codex agent starts offline.  How
stderr is classified is abstracted: any child may report a resume failure.

`WakeLedger` is the promise to the rest of the system: a wake is unfired, queued,
running, settled once or dropped, wakes start in order, and at most one handler's
worth changes at a time.  `WakeStatus` is the refinement mapping.

### ApprovalGate (`approvals/index.ts`, `codex-gate.ts`, `resources/hooks/*.sh`)

An attempt is one order call of the agent, which makes one at a time; a request is
one layer of an attempt (the PreToolUse hook, codex's elicitation answerer); a
card is a row of the table.  `layers` is chosen initially: hook only (claude), both
(codex), or elicitation only (codex when trusting its hooks failed, a best effort
in `codex-app-server.ts`).  `StartOrder`/`AgentSees` call `request`; `Resolved` is
what follows the wait for option contracts; `Decide`, `TimeoutFires`, `Disconnect`,
`WindowCloses`, `HostRestart` are decide, the timeout, abandon, the end of the
mirror window and the boot expiry; `ReportOutcome`/`ResultLost` the order-result
hook.  `HookGivesUp` is the script's own 360 s deadline when the approval timeout is
set longer.  `Drifting` attempts are those whose JSON the two layers spell
differently, which is what the table is keyed by.

A disconnect may be noticed at any time or never: the abort listener is attached to
the request after its body was read, and whether it still fires depends on the HTTP
library.  No property relies on it.  Where elicitation is the only layer, a repeat
of an order is assumed to come after the mirror window, as `codex-gate.ts:33-34`
does.

### TerminalSessions (`terminal/index.ts`, `manager.ts`, `gui-presence.ts`)

The PTYs of one agent in order of their spawn (`ptys`, `current`), the launch
record, the coalesced open (`opening`), a restart in flight, the GUI and the
teardown guard.  PTY exits are reported per agent and not per PTY, exactly as the
exit handler sees them.  A claude spawn is one step; a codex spawn waits for its
app-server and is split in start and settle.  The writer is reduced to its state
(`Fire`, `HeadlessExited` and the two interactive handlers, which it shares with
`WakeWriter`).  A PTY's phase "late" is history: its successor was already spawned
when its exit is reported.

### CronScheduler (`scheduler/index.ts`, `cron-timer.ts`, `monitor-runner.ts`)

Schedules and monitors of one agent: the rows, the in-memory timers and
supervisors, and how disarm, re-arm, archive, stop and start move between them.
Time is the number of a schedule's occurrences that have passed; a timer may run
late, and one that was due twice fires once, as croner does.  The agent is reduced to
what `fire` reads: archived, broken, out of turns.  Rows are created and deleted over
the local API by the agent's own processes, which nothing stops while it is broken
or archived, so the model lets them.  `Boot` is `start` with any execution state the
spawn markers may have left; within its sweep an earlier row may spend the last turn.
A failed spawn of a monitor leaves a runner without child or timer (`SpawnFails`):
Node emits `error` and no `exit`, so the restart that the comment at
`monitor-runner.ts:53` relies on does not come.

### TerminalView (`session-controller.ts`, `ws-server.ts`, `output-batcher.ts`, `session-store.ts`)

The renderer's one controller and the socket of the agent shown.  Output comes in
numbered chunks and capacities count chunks, so "the screen shows one session's
output, contiguous from a point on" can be stated.  `openOrAttach` is the host's as a
pane sees it: the intent, the coalescing of spawns, the respawn of a young exit.  It
may refuse because a headless run holds the agent or the agent is broken (`held`, which
the environment chooses); a refusal beside a live session or a spawn in flight is left
out, since that there is one writer is the subject of `TerminalSessions`.  A
call of a view that was left stays on its way (`stale`) and is served later, which is
how a selection that was undone still spawns.

### CodexServer (`codex-app-server.ts`, `codex-strategy.ts`, `codex.ts`, `codex-gate.ts`)

Three callers share the server of one agent: a headless run with an abort signal, a
push, and a launched TUI with its adoption loop.  Each await of `ensureServer` and
`runTurn` is a stage of its caller.  `run` decides by the thread the agent had when it
began: "bare" is a run that then had none and will create one, "prepared" one that will
resume.  A thread without a rollout cannot be subscribed to before its first turn, so
that turn takes three stages: "first" (turn/start is asked), "subscribe" (the second
thread/resume, whose failure is swallowed) and the race.  A connection that closes in
"subscribe" leads to "blind": the race is entered with nobody left to hear of the close,
and the poll ends it.  `outcome` is what became of the turn; "unlisted" is a failed one
of which `thread/read` keeps no record, which the poll may take for completed.
`FormerTurnEnds` is the end of a turn whose thread was replaced meanwhile.

Simplified: for a push, of which nobody reads more than the acknowledgement, the second
subscription is part of its race.  A caller on a former thread is answered as one on the
current thread; the thread of a fresh restart counts as the one it replaces, and a turn
the user starts before the adoption as one after it.  `ServersAccounted` states why a live process may
be untracked (signalled, left by an earlier host, or its entry deleted by a late exit)
and nothing else.  The engine is the environment: it refuses, dies, and may fail to
notify.

### HostLaunch, OrderLedger, SpawnRecovery (composed in MCHost)

`HostLaunch` is `ensureHost` step by step: each read, write and unlink of the lock
and the manifest, each ping and signal is an action, taken by launchers of two
versions.  A ping of a host that listens may fail all the same (a second without an
answer, a socket error): outside the lock the starter goes on to the lock, inside it
clears that host's manifest and spawns another beside it.  Where the code can end up
with two hosts, `excused` records how: a stolen lock, a boot nobody waits for, such a
slow host, a manifest a late exit erased.  The property says that the steps of the
model find no fifth way.  `OrderLedger` reads the broker's lists one
after the other, so a fetch is a set of snapshots of different moments, and keeps
what was notified as history.  `SpawnRecovery` has a run's pid, its marker (written
in a step of its own after the spawn, possibly torn), the transcript it resumes and
the hosts over which it may survive; `OneWriter` allows two processes on a transcript
only when a marker could not tell (`unknown`), and `BlameIsDue` says that what the
next boot takes for a crash is one, or a child started by the shutdown itself.

### BrokerSession, AppShell (composed in MCApp)

A call of connect or disconnect is a process with one stage per await; the adapter's
consent flow, the token store and the poller are the code's, the answers of network,
browser and user are the environment's.  `AppShell` has Electron's events as actions
and the launcher's handlers in them; the updater's promise, the settings pushed by
the host and the presence of renderers are parts of the same state.

### AgentDesk, AgentRoster, SleepGuard, Telemetry, SchemaUpgrade (composed in MCDesk with CronScheduler)

`AgentDesk` feeds the arbiter from terminals, hooks and cards and lets the launcher
follow over a socket that drops; `sent` keeps the newest message of each stream.
`AgentRoster` has the host's agents, the renderer's list, and requests and broadcasts
between them.  `SleepGuard` is a function on records because one handler may
release, audit and hold in turn.  `Telemetry` keeps which consent each event was
captured under and which text each stored uuid has.  `SchemaUpgrade` reduces a table
to the versions whose columns it has, and a row of user data to a counter of writes.

### OrderCards, Holdings, OrderTrail (run by MCOrderTrail)

The pure functions of parsing and mapping are operators over records with the keys
of the JSON objects; `None` is null and `Garbage` a text without a number.
`OrderTrail` makes the calls, lets the broker accept, refuse, fill and cancel them,
loses replies, polls, and evaluates what the Activity tab would show.  `means`, the
order the agent wants, is the reference the card and the row are compared with.
The parsers read leniently, under several names and in either spelling; so what they
are given is described just as widely: `FlatSays`, `OptionSays`, `ExerciseSays` and
`CancelSays` say when an input says the order `means`, under any of a field's names,
as long as it does not say two things.  `WellFormed` is an order in the broker's own
spelling, of some units and with the contracts of one chain.  A summary line is the
record of what it shows -- verb, size, name, whether a single leg opens or closes,
price, estimate, the short-sale warning -- and its wording is left out.

## 4. What is checked

Passing runs (properties are in the cfg; each has a comment in its module):

| Run | Instance | What it shows |
|---|---|---|
| `writer` | 3 wakes, 2 push closures, 2 turns, streak of 2 | order, ownership of every running row, supervision of every run, no idle queue, drops only for a cause, budget, archive, and that the writer implements `WakeLedger` |
| `writer_live` | 2 wakes, 1 turn, fairness | runs end, queued wakes leave, the head of a codex queue is pushed again |
| `gate` | 2 orders, one with option contracts, 2 attempts, all layerings, long timeout, drift, fairness | no stranded caller, no order without its own consent, results recorded once, decisions final, every request answered |
| `terminal` | both harnesses, 3 PTYs, fairness | the writer knows every session, sessions exist only for a reason (GUI, agent, launch), autonomy resumes |
| `view` | 2 agents, 3 sessions, 4 chunks, 2 clicks, 1 lost socket | the pane shows one session's output whole and in order; it launches only what was asked for and rests in the right state |
| `codex` | 2 server processes, 1 wake, 1 user turn, 1 more host, fairness | servers accounted for, outcomes true, runs settle |
| `host` | 2 launchers of 2 versions, 3 hosts, 1 mishap; 2 orders on 2 lists; 3 children over 3 hosts | one spawner, one host of the right version, books complete, one notification per ended order, one writer per transcript |
| `app` | 3 connect or disconnect calls; one launcher, fairness | one consent at a time, a session that is served, a launcher that can be reached, quit and updated; every call returns and every real quit ends |
| `desk` | six parts, see below | timers, rows and supervisors agree and nothing fires twice; status and tray; roster; assertions; consent; schema |
| `orders` | 2 cards over 11 calls, 3 contracts, an order of the user's own | the card tells the order, the row tells its fate, money adds up |

Runs that refute what a comment of the code says:

| Run | Statement | What happens |
|---|---|---|
| `writer_throws` | a child is alive iff HEADLESS_RUNNING | a strategy that throws before the spawn leaves the state headless with no child; the kill timer has nothing to signal |
| `desk_deleted` | no `claude` is left for a deleted agent | the sidebar selects the deleted agent again before the shorter list arrives, and its pane's request spawns a session |

### Bounds

The instance of `host` and `desk` is given in their cfg and by the `const_` definitions
of `MCHost` and `MCDesk`; the modules themselves fix nothing.

Three wakes give one running, one queued and one that arrives in between, which is
what order, drops and the drains after an exit need; two push closures give an old
session's promise against a new session's (they are interchangeable, hence the
symmetry set; not used in the live run).  The code's streak limit is 3, the runs use 2
(a streak and its end).  Two orders with two attempts give joins, mirrors and
leftovers of one order beside another's.  Three PTYs give a replaced session, its
successor and a respawn.  Three occurrences give a missed one, a served one and one to
come.

`view`: a ring and a buffer of two chunks overflow with three; one retry and one lost
socket give a retry that is overtaken; three sessions give a respawn of a respawn.
`codex`: two processes are a server and its successor, whose exits cross; the breaker
opens at one fast crash instead of three.  `host`: three hosts are one to retire, one
that fails and one that stays; one mishap (a death, crash, outside signal,
slow boot or unanswered ping) is enough for every excused case; `OrderLedger` has an order an agent placed
and one it did not, on two lists that are read at different moments, and two failed
polls, so that an outage can repeat its message or change it; `SpawnRecovery` has two
queued wakes, three children and three hosts, so an orphan can meet a successor in a
later life.  `desk`: one agent with two cards, a ring of two with three events; two
agents and two forms, with two messages queued each way; two writers with four
assertions; two edits and two sends; builds 2 to 4, four boots, two writes and a
restore.  `app`: three calls are one in flight, one that joins or supersedes it and
one that resets both; two sockets are a presence socket and the one that replaces it.  `orders`: only the first order trades and ages (`Moving`), and
the feed is cut at five entries instead of 200, so that a cut happens.

`gate`: the second attempt may be spelled differently by its two layers
(`Drifting = {2}`).  The last conjunct of `EachResultRecordedOnce`, that a result lands
on a card of the same order, is claimed where nothing drifts and so says nothing in this
instance; the theorem `ResultsRecorded` covers it, with `Drifting = {}`.  `OrderLedger` takes each list of the broker to be
shorter than a fetch's hundred pages (`broker/index.ts:704`): beyond them the code ends
the fetch without an error and the ledger is complete no more.

Deadlock is not checked where the environment may stop: users who do nothing more,
broker answers and fires that are used up.

### Fairness

Only what the host or the code itself promises.  `WakeWriter`: the kill timer and the
push retry are Node timers; a child that was signalled exits (the code sends one
SIGTERM and relies on it); a claude session's agent-mcp polls again after every
answer; a push settles because a codex turn has its own deadline.  `ApprovalGate`: a
contract lookup ends, the card's timeout fires; nothing is assumed of the user, the
agent or a disconnect.  `TerminalSessions`: a signalled PTY exits, a preparation
settles.  `CodexServer`: the code's continuations run (`Subscribed`, `PollSeesClosed`
among them), requests are answered or their connection breaks, a bring-up has its deadline, the poll its interval, and the
coordinator's kill timer aborts; turns of the user need not end.  `BrokerSession`:
requests and the browser consent have timeouts.  `AppShell`: `terminateHost` is
bounded, and Electron ends a quit nobody prevents.

### What the code does otherwise than it says

Met while modelling.  The models do what the code does; where a run would have had to
be spent on a single line, there is none.

* `finishKilled` (`coordinator.ts:504`) drops the front of a queue that Stop had
  emptied: a wake that came while the child exits is lost, against the comments at
  500 and 506.
* The approval mode is read before the wait for contracts and used after it
  (`approvals/index.ts:202`), against `TerminalPane.tsx:260`; after an order that
  never reported, the next identical result lands on its card (304, against 286-287).
* codex: the execution state is not read again after the app-server came up
  (`terminal/index.ts:155`, against 104), so a session may start beside a run.
* Restarting a broken agent overwrites a one-shot's missed time
  (`scheduler/index.ts:444`, against 146-147).
* After Reset the ledger is not swept again until the day is over
  (`broker/index.ts:256`, against 31).
* During shutdown the exits of killed children and sessions drain the queue and may
  start a new child with a marker (`host/index.ts:261` onwards), which the next boot
  takes for a crash, against `spawn-marker.ts:15-17`.  "Broken" after a crash is kept in
  memory only and forgotten by a second start, which resumes the interrupted session
  beside an orphan that survived the signal.
* A first headless run that fails early is reported ok and its minted session id kept,
  so every later resume fails (`headless-strategy.ts:109`, 184).
* A snapshot is reused by its source version even when the data has moved on since
  (after a restore, or a failed migration followed by work on the older build), and a
  `VACUUM INTO` that was interrupted leaves a file later boots reuse
  (`backup.ts:51-56`); the DDL of an older build runs before the refusal of a newer
  file (`client.ts:68`).
* A host that is up and does not answer `/health` within a second is taken for absent:
  inside the lock its manifest is cleared and a second host spawned beside it
  (`manifest.ts:84`, 222-223), against the class comment (10-13: two starters "can never
  spawn two backends") and against 103-105, where `terminateHost` keeps the manifest of
  a wedged host for exactly this reason.
* A codex turn that was lost is reported ok: on a thread without a rollout the
  connection may close while the second `thread/resume` is awaited
  (`codex-app-server.ts:361-364`); the rejection is swallowed, the close listener (601)
  is registered too late, and the poll answers "completed" for a closed client (400),
  against the comments that the race is then settled and the value discarded (397-399)
  and that the close rejects the waiter (415-416).  A failed turn that `thread/read` does
  not list, on an idle thread, is reported ok as well when the poll is first (413).
  `OutcomeSound` excepts these two by name.
* The creation dialog's placeholder promises "a clean slate" for blank instructions
  (`NewAgentDialog.tsx:196`); blank text falls back to the template
  (`registry.ts:221-225`, `shared/agent.ts:66`), which is what `AgentRoster` does.
* Feedback: a draft edited between retries keeps its id, so the first text is what
  PostHog keeps (`FeedbackButton.tsx:110`); what is typed while a send is pending is
  wiped on success (117).  Opting out returns before other changes of the same
  update are looked at (`analytics/index.ts:302`).
* Orders: "expired" shows as working for ever; a live order whose report or approval
  was lost for 90 s shows red (`activity-groups.ts:138`); an order cancelled in the
  broker's own app ends as "rejected by broker"; an equity held overnight and bought
  today counts its day from the average of both (`broker/index.ts:839`).
* The pane: a retry after a lost socket replays without resetting the terminal
  (`session-controller.ts:174-201`); a session that ends while its socket is given up
  is launched again by the retry's intent; a call of a view that was left still
  spawns (113-114).
* A needs-input mark stays after its session exited (`terminal/index.ts:73-75`); a
  host that restarts gets a new port, which neither the relay nor the renderer learns.
* A relaunch that fails while `quitCompletely` waits rolls back its `quitting`
  (`index.ts:288-290`).

## 5. What is proved

For every value of the constants.  The theorems named "inductive" below establish
the invariant their module argues with; the others follow from it.

| Module | Theorem | States |
|---|---|---|
| `WakeWriterProofs` | `TypeCorrect`, `OrderKept`, `OwnersKept` | `[]TypeOK`, `[]QueueOrder`, `[]RunsOwned` |
| | `Fifo`, `RowsOwned`, `HeadHeld`, `Supervised` | the parts of the last two |
| | `DriverKept`, `DropsExplained`, `StartsJustified` | `[]QueueHasDriver`; `DropsAccounted`; `RunsJustified` |
| | `Implements` | `Spec => Ledger!Spec` (`ImplementsLedger`) |
| `OrderProofs` | `CallersServed`, `OrdersConsented`, `ResultsRecorded` | `[]CallersAnswered`, `[]EveryOrderConsented`, `[]EachResultRecordedOnce` |
| | `DecisionsStand` | `DecisionsFinal` |
| | `RowsHold`, `CardsHold` | `[]RowsTrue`, `[]CardTellsTheOrder` |
| `TerminalSessionsProofs` | `WriterAgrees`, `SessionsHaveReason` | `[]WriterKnowsSessions`, `[]SessionsJustified` |
| `TerminalViewProofs` | `ViewFaithful`, `PaneIsHonest` | `[]ViewIsFaithful`, `[]PaneHonest` |
| `CodexServerProofs` | `ProcessesAccounted`, `OutcomesTold` | `[]ServersAccounted`, `[]OutcomeSound` |
| `MCHostProofs` | `SpawnersExclude`, `OneHostAtATime` | `[]OneSpawner`, `[]Singleton` |
| | `OneWriterOverHosts` | `[]RecoverySound` |
| | `BooksAreComplete`, `NoticesAreOnce` | `[]BooksComplete`, `[]NotifiedOnce` |
| | `EachPartAsSpecified` | a behaviour of the composition is one of each part |
| | `HostSound` | all five invariants, of the composition |
| `MCDeskProofs` | `HostFollows`, `OccurrenceServedOnce` | `[]HostFollowsRows`, `FiresExactlyOnce` |
| | `MachineAwake`, `BootsConverge`, `NothingUnasked`, `AgentsApart`, `ScreensFollow` | `[]HeldForTheRun`, `[]SchemaSound`, `[]TelemetrySound`, `[]RosterSound`, `[]ScreensTellTheDesk` |
| | `DeskPartsAsSpecified` | a behaviour of the composition is one of each part |
| | `TimersFollow` | `[]HostFollowsRows` and `FiresExactlyOnce`, of the composition |
| `MCAppProofs` | `SessionHolds`, `LauncherAsSpecified` | `[]SessionSound`, `[]LauncherSound` |
| | `AppSound` | both, of the composition |

The assumptions are the `ASSUME`s of the modules and nothing else: bounds are
naturals, the values that stand for null are none of the real ones, names are
sequences, versions and the tables they bring are in order.  Those of `OrderTrail`
describe who calls it: every order has an id of its own; a call does what its tool is
named for and its input says one thing (section 3), an option's price coming with a
type or under a name the parser takes for a limit; a cancel names an order placed
before; a contract has a multiplier and a strike.  An input that contradicts itself,
which the parsers resolve by the order of the names, is outside the theorems.  TLC
evaluates each of them for the instance it runs.

### The arguments

**WakeWriter.**  No part is inductive alone: that the head is still in front when
its child exits needs the order of the queue, the order needs that a row exists only
for a wake that was fired and started, ownership needs that a run exists only in the
headless state.  `IInv` is `Core /\ Others`.  `Core` types the run and the queue,
gives rows only to fired wakes and leaves two cases: `Idle` (no run; every running row
belongs to the live session, the whole queue waits, and it is empty without a
session) and `HeadlessRun` (the run owns the only running row, its head is in front
and the tail waits, or a Stop emptied the queue and all of it waits).
`Waiting(q, r, f)` says that a queue is in firing order, behind every wake with a row.
`Others` types the transports and says that a push or an armed retry needs a live
session.  One lemma per handler shows that it preserves `Core`; the handlers that
start the next run in the same step go through `DrainCore`, which is about the values
they have computed so far.  `Driven` adds who will move the queue on: the child, the
session's poll or push, or the retry timer.

The refinement is a step argument over the same invariant.  `Shape` says what one
handler may do to the rows: a settlement at most, then drops from one end of the
queue, then at most one start, each of a wake the ledger has in that state;
`Accounted` that whatever leaves the queue without a start has a cause.  One lemma
per handler establishes both, and from them follow the ledger's step, `DropsAccounted`
and `RunsJustified`.

**ApprovalGate.**  A caller is answered because every open card has a waiter with a
timer or a window still to close, and every joiner a card.  Consent is per order: the
layers of an attempt and its cards are tied by the request's key, and the newest card
that could be taken for another's is the attempt's own.  That each result has a row
of its own is a pigeonhole: the results reported are mapped one to one to rows, since
`recordOutcome` takes the first row that has none; the least-number principle gives
that row.

**OrderTrail.**  Two invariants.  `TrailInv` is about what is written: the calls of an
agent come one at a time (`OneAtATime`), so the log is in order by card and, within
one, by kind (`AuditOrdered`); a card's entries, deed, reply and outcome fit what the
broker did (`Booked`, with `FairReply` and `FairOutcome`); the order of a card is the
broker's exactly once its call was accepted (`Owned`); the ledger may be behind the
broker but not about an order that ended (`LedgerFollows`).  From the order of the log
follows what the cut-off feed can hide: it shows everything after an entry it shows,
so a row without its intent is no order row, a cancel folds into the earlier order it
names, and the first entry of a kind is the order's own and not its cancel's.  That
reduces `orderState` to what the card's own entries say, and a case analysis of that
is `RowsTrue`.

`CardInv` is about what is told: orders are well formed, what is remembered of a
contract is so (`Known`), the ledger lists orders as they are meant (`Lists`), and each
card drawn tells its order.  It holds of a new card by lemmas about the functions it
is drawn with: what `pick` finds is one of the things said under those names
(`PickSaid`), the parsers read back what the input says, enrichment keeps a card
`Sound` whatever it learns, and memory keeps what is known when it merges.  It stays
true of a card already drawn because no order placed later bears the id a cancel was
aimed at.

**TerminalSessions.**  Everything is said of the last PTY spawned: it is the store's
session, or the store is empty; one that was signalled is forgotten together with its
launch; a launch that may be respawned is no respawn itself.

**TerminalView.**  `Threaded` puts numbered marks along the way to the pane: what the
last piece of the screen shows, each frame on the wire and the batch are the chunks
from one mark to the next.  A flush moves the last marks, a frame that is read moves
the first, output adds a chunk, and `Spans` says that the marks begin within the ring
and end with the newest chunk; that the parts are unbroken follows by the least-number
principle over the marks.  `WireShaped` orders the frames, and `SocketSound` ties a
socket to the session it was opened for, so that the banner of an exit stands under
the last chunk.  `Settled` says what a view that is done may find running (`Unasked`)
and what closed its socket.  `Budgeted` counts: the sessions so far, the launches in
flight, the young exits that may be replaced, the calls of views that were left and
what the view shown still owes are together at most twice the selections and the lost
connections.

**CodexServer.**  Processes and callers are argued about apart.  Of processes: the
tracked one is the only one that is neither signalled nor left over, fast crashes are
at most the exits seen, and left-over ones are counted by the hosts so far.  Of a
caller: at each await, what it has read and what it may still report.  `OutcomesTold`
rests on two of these: a wake's turn is acknowledged, and may be active, exactly in the
stages after turn/start (`OnTurn`), and a wake that is "blind" has lost its connection
(`Conns`), since a process that is gone does not come back.

**HostLaunch.**  That at most one starter is inside says nothing of the lock file,
which the next starter decides by.  `LockInv` adds what the file says as long as no
lock was stolen: it is empty while the one inside has created it and not written it,
and holds that starter's pid after; so a starter that opens an absent file, or unlinks
a dead one, is the only one.  `HostInv` rests on it: a host on its way up has one
starter waiting for it, of its version, and no manifest on disk; a host that is up
keeps every starter inside the lock from the spawn: it holds that host's manifest when
it pings, so only the ping of a host that does not answer in time gets past it, which is
an excuse.  What is counted is deaths (`died`), not mishaps: a slow boot steals no lock.

**BrokerSession.**  `BInv` is about one call: `RunOf(c)` is what may be true of the
session while `c` is inside `runConnect`; `Queues` and `Whole` say that every other
call waits once, for the right one, and that a consent that was cancelled has a
superseder on its way.

**AppShell.**  `LauncherInv` keeps together what the facts about quitting need: there
is always a dock icon, a tray or (off macOS) a window (`Placed`); the process quits
because somebody wished it or a relaunch is under way, and the host is ended only by a
real quit (`QuitsMeant`); the updater's status is the operation under way, and its own
downloads are off once anything was asked of it (`UpdaterTells`); presence without a
socket has its timer (`Watched`).

**SpawnRecovery.**  `ChildrenInv`: the marker names the child the host waits for or is
missing; besides that child a host can only know of the marked process while no host
runs, and of the one its boot condemned after.

**OrderLedger.**  `BooksInv`: what a fetch holds was so at the broker, and a sweep
holds all it began with of the lists that answered.  Notices are counted: of an order
there were, and still are to come from what is under way, at most as many as ends and
refreshes, and one.  `Unseeded` is the state after a restart, in which the notice of
an order is behind it and its terminal entry is yet to be found.

**CronScheduler.**  One schedule at a time: fires are of occurrences that have passed
and at most one each (`FiresCounted`), a timer has its row (`JobHasRow`), what was
promised or missed is in the row (`PledgeInRow`), and what waits was not served yet.
An action that sweeps over all schedules does the same to each.

**SleepGuard.**  `GuardInv`: each assertion is one writer's, and the guard's and
powerd's tables hold the claims and nothing else.  The steps compose operators on one
record; each operator has a lemma.

**SchemaUpgrade.**  `FileSound`: a file has every table of its stamp, with the columns
of the migrations up to it, the first table before any other; every boot ends between
two such files.  A snapshot that was not spoilt is named exactly if its version was
migrated from, with what was written by then.

**Telemetry.**  A text belongs to one draft id, an id to one stored event; what is
held or stored was submitted; the ids are counted by the submissions told as sent, so
that the bound on ids in the property is a consequence and no limit.

**AgentDesk.**  The arbiter's signals are the facts they stand for (the timer of a
PTY, the open cards, a mark), and the status is their winner; each stream to the tray
is told or under way.  The ring of recent events is a sequence argument of its own.

**AgentRoster.**  A free slug exists because there are more numbered forms of a name
than rows (a pigeonhole), so a new folder is nobody's.  Only agents whose deletion was
confirmed are archived or about to be; the last list under way is the table's, or the
sidebar's is; the selection is not one that goes, unless that shows.  That the list
names exactly the agents that live is a counting argument: the rank among them is one
to one and so onto.

### Only model-checked

* Liveness: `HeadlessRunsEnd`, `QueueMoves`, `GateAnswers`, `AutonomyResumes`,
  `WakesSettle`, `NothingHangs`.  Fairness and ENABLED are beyond the prover.
* `DollarsAddUp`.  Sums over lots and folds over executions are recursive: a claim for
  every holding would need induction over data, which the provers cannot instantiate.
  Averages are rounded divisions, exact only in an instance chosen for it.
* The two runs that refute a comment: one counterexample is the proof.

## 6. What is not modelled

Formatting, prompts, command lines, generated configuration; the database engine
(every write is atomic with the handler that does it) and the failure of a write,
except where a module names it (markers, snapshots).

* Scheduler: wake statistics and pruning, the backfill of time zones, a monitor's
  output (its rate limit, and that a stopped monitor's buffered or grandchild output
  still fires a wake).
* Terminals: keys, resizes, the child's environment.
* Codex: the trust of hooks, `config.toml`, two launches whose adoptions overlap.
* Broker: the market-data faucet, rows served from the cache during an outage, the
  classification of network errors.
* Shell: native banners, dock badge, window position; the age of a pending selection.
* Telemetry: allowlists, sanitizing, the diagnostics block.
* Renderer: Settings, Scheduled, Onboarding, Portfolio and Monitor are forms over
  procedures of the host, which are environment actions here.
* Harness adapters and the website have no state worth a model.
