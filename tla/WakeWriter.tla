------------------------------ MODULE WakeWriter ------------------------------
(***************************************************************************)
(* The per-agent wake actor (AgentWriter in wake/coordinator.ts) with the  *)
(* History rows it drives (Scheduler.wakeStarted / wakeFinished), the      *)
(* headless child it spawns and the two interactive transports it serves:  *)
(* the claude channel (a parked /wake-stream poll) and the codex push.     *)
(*                                                                         *)
(* Every handler of the host runs to completion on one event loop, so a    *)
(* handler with everything it calls synchronously is one action.  What the *)
(* environment decides is nondeterministic: when a wake fires, when a PTY  *)
(* comes up or dies, when a child exits and why, when a poll parks or is   *)
(* aborted, when a push is acknowledged, when the user presses Stop.       *)
(*                                                                         *)
(* A wake is its position in the order of firing (the code mints a fresh   *)
(* id per fire), so "older" is "smaller".                                  *)
(*                                                                         *)
(* Definitions marked "Slip" are wrong variants of the definition that     *)
(* follows them: no action uses them; they show what the properties catch. *)
(***************************************************************************)
EXTENDS Naturals, Sequences

CONSTANTS
  MaxWakes,        \* how many wakes are ever fired (bounds the model)
  Pushes,          \* identities of push closures (one per codex PTY)
  NoPush,          \* this.push === undefined
  Harnesses,       \* "claude": channel transport; "codex": push transport
  MaxTurns,        \* the live setting maxHeadlessTurns
  MaxResumeFails,  \* MAX_RESUME_FAILS
  RunMayThrow      \* may HeadlessWakeStrategy.run throw before it spawns?

ASSUME MaxWakesAssumption == MaxWakes \in Nat
ASSUME PushesAssumption == NoPush \notin Pushes
ASSUME HarnessesAssumption == Harnesses \subseteq {"claude", "codex"}
ASSUME MaxTurnsAssumption == MaxTurns \in Nat \ {0}
ASSUME MaxResumeFailsAssumption == MaxResumeFails \in Nat \ {0}
ASSUME RunMayThrowAssumption == RunMayThrow \in BOOLEAN

Wakes == 1 .. MaxWakes
NoWake == 0

WriterState == {"OFFLINE", "INTERACTIVE_RUNNING", "HEADLESS_RUNNING", "BROKEN"}
Failure == {"timed_out", "spawn_fail", "resume_fail", "api_error"}
Settlement == {"succeeded", "stopped"} \cup Failure
Row == {"none", "running"} \cup Settlement
PollOwner == {"none", "session", "old", "child"}
ExitReason == {"ok", "resumeFail", "spawnFail"}

VARIABLES
  wstate,       \* AgentWriter.state, which is also the agent's executionState
  pending,      \* the FIFO of queued wakes
  live,         \* liveWakes: delivered into the session, turn not yet ended
  poll,         \* who parked in interactivePoll: the current PTY's MCP server,
                \* an earlier PTY's, or the MCP server of a headless child
  push,         \* the installed push closure
  pushBusy,     \* pushInFlight
  flight,       \* per push closure, the wake whose promise is outstanding
  retryArmed,   \* pushRetryTimer is set
  run,          \* the head the current headless run was started for
  childAlive,   \* that run has a process
  killArmed,    \* headlessKillTimer is set
  stopping,     \* a user Stop signalled the child
  timedOut,     \* the kill timer signalled the child
  apiErr,       \* headApiError is set
  sleepHeld,    \* the run's idle-sleep assertion is held
  resumeFails,  \* consecutive resume failures
  used,         \* headlessTurnsUsed
  harness,      \* the agent's CLI, fixed at its creation
  featureOn,    \* the global turn-limit feature
  agentLimit,   \* the agent's own turn-limit switch
  gone,         \* the agent is archived
  fired,        \* how many wakes have fired so far
  row           \* the wake's History row

queueVars == <<pending, live, row>>
pushVars == <<push, pushBusy, flight, retryArmed>>
runVars == <<run, childAlive, killArmed, timedOut, apiErr, sleepHeld>>
settingVars == <<harness, featureOn, agentLimit>>
vars == <<wstate, poll, queueVars, pushVars, runVars, stopping, resumeFails,
          used, settingVars, gone, fired>>

-----------------------------------------------------------------------------
Queued == {pending[i] : i \in DOMAIN pending}

\* Slip: a fresh wake jumps the queue.
EnqueuedInFront(q, w) == <<w>> \o q

Enqueued(q, w) == Append(q, w)

\* Slip: the head is not taken off, or everything behind it is.
ShiftForgotten(q) == q
ShiftAll(q) == <<>>

Shift(q) == IF q = <<>> THEN <<>> ELSE Tail(q)

Started(r, w) == [r EXCEPT ![w] = "running"]

\* wakeFinished is guarded by the row still being `running'.
Settled(r, S, outcome) ==
  [w \in Wakes |-> IF w \in S /\ r[w] = "running" THEN outcome ELSE r[w]]

\* Slip: one failure later than MAX_RESUME_FAILS.
UnresumableLate(n) == n > MaxResumeFails

\* One resume failure too many: the agent is declared unresumable.
Unresumable(n) == n >= MaxResumeFails

\* Slip: the budget is one turn larger than the setting.
BudgetSpentLate == featureOn /\ agentLimit /\ used > MaxTurns

BudgetSpent == featureOn /\ agentLimit /\ used >= MaxTurns

WouldDropWake ==
  \/ wstate = "BROKEN"
  \/ wstate # "INTERACTIVE_RUNNING" /\ BudgetSpent

\* A poll parked by a PTY that is no longer the current one.
Orphaned(p) == IF p = "session" THEN "old" ELSE p

-----------------------------------------------------------------------------
(* Headless transport: the head stays queued until the child exits.          *)

\* Slip: the API-error flag of a finished run is kept.
NoRunKeepsApiError ==
  /\ run' = NoWake
  /\ childAlive' = FALSE
  /\ killArmed' = FALSE
  /\ timedOut' = FALSE
  /\ sleepHeld' = FALSE
  /\ UNCHANGED apiErr

NoRun ==
  /\ run' = NoWake
  /\ childAlive' = FALSE
  /\ killArmed' = FALSE
  /\ timedOut' = FALSE
  /\ apiErr' = FALSE
  /\ sleepHeld' = FALSE

\* startHeadless past the budget gate.  The sleep guard may be refused.  The
\* strategy writes config and spawns synchronously; a throw there escapes after
\* the state, the timer and the History row are already committed.
StartHeadless(q, r) ==
  /\ wstate' = "HEADLESS_RUNNING"
  /\ pending' = q
  /\ row' = Started(r, Head(q))
  /\ run' = Head(q)
  /\ childAlive' \in IF RunMayThrow THEN BOOLEAN ELSE {TRUE}
  /\ killArmed' = TRUE
  /\ timedOut' = FALSE
  /\ apiErr' = FALSE
  /\ sleepHeld' \in BOOLEAN
  /\ used' = used + 1

\* Slip: the queue is not drained on the way to OFFLINE.
OfflineWithoutDrain(q, r) ==
  /\ wstate' = "OFFLINE"
  /\ pending' = q
  /\ row' = r
  /\ NoRun
  /\ UNCHANGED used

\* transition("OFFLINE") followed by drain: the next queued wake starts a run,
\* unless the turn budget is spent, which drops the whole queue.
OfflineAndDrain(q, r) ==
  \/ /\ q # <<>> /\ ~BudgetSpent
     /\ StartHeadless(q, r)
  \/ /\ q = <<>> \/ BudgetSpent
     /\ wstate' = "OFFLINE"
     /\ pending' = <<>>
     /\ row' = r
     /\ NoRun
     /\ UNCHANGED used

Break(r) ==
  /\ wstate' = "BROKEN"
  /\ pending' = <<>>
  /\ row' = r
  /\ NoRun
  /\ UNCHANGED used

-----------------------------------------------------------------------------
(* Interactive transports: serveInteractive and servePush.                   *)

\* Serve queue q with poll slot p, push closure c and in-flight flag busy.
Serve(q, p, c, busy) ==
  \/ /\ c = NoPush /\ q # <<>> /\ p # "none"
     /\ pending' = Tail(q)
     /\ live' = live \cup {Head(q)}
     /\ row' = Started(row, Head(q))
     /\ poll' = "none"
     /\ pushBusy' = busy
     /\ UNCHANGED flight
  \/ /\ c # NoPush /\ q # <<>> /\ ~busy
     /\ pushBusy' = TRUE
     /\ flight' = [flight EXCEPT ![c] = Head(q)]
     /\ pending' = q
     /\ poll' = p
     /\ UNCHANGED <<live, row>>
  \/ /\ q = <<>> \/ (IF c = NoPush THEN p = "none" ELSE busy)
     /\ pending' = q
     /\ poll' = p
     /\ pushBusy' = busy
     /\ UNCHANGED <<live, row, flight>>

\* Slip: liveWakes is not emptied when it is settled.
SettleLiveForever(outcome) ==
  /\ row' = Settled(row, live, outcome)
  /\ UNCHANGED live

SettleLive(outcome) ==
  /\ row' = Settled(row, live, outcome)
  /\ live' = {}

-----------------------------------------------------------------------------
Init ==
  /\ wstate = "OFFLINE"
  /\ pending = <<>>
  /\ live = {}
  /\ poll = "none"
  /\ push = NoPush
  /\ pushBusy = FALSE
  /\ flight = [c \in Pushes |-> NoWake]
  /\ retryArmed = FALSE
  /\ run = NoWake
  /\ childAlive = FALSE
  /\ killArmed = FALSE
  /\ stopping = FALSE
  /\ timedOut = FALSE
  /\ apiErr = FALSE
  /\ sleepHeld = FALSE
  /\ resumeFails = 0
  /\ used = 0
  /\ harness \in Harnesses
  /\ featureOn \in BOOLEAN
  /\ agentLimit \in BOOLEAN
  /\ gone = FALSE
  /\ fired = 0
  /\ row = [w \in Wakes |-> "none"]

\* Scheduler.fire then AgentWriter.enqueue, in one turn of the event loop.
Fire ==
  /\ fired < MaxWakes
  /\ ~gone
  /\ ~WouldDropWake
  /\ fired' = fired + 1
  /\ LET q == Enqueued(pending, fired + 1) IN
     \/ /\ wstate = "OFFLINE"
        /\ OfflineAndDrain(q, row)
        /\ UNCHANGED <<live, poll, pushBusy, flight>>
     \/ /\ wstate = "INTERACTIVE_RUNNING"
        /\ Serve(q, poll, push, pushBusy)
        /\ UNCHANGED <<wstate, runVars, used>>
     \/ /\ wstate = "HEADLESS_RUNNING"
        /\ pending' = q
        /\ UNCHANGED <<wstate, live, row, poll, pushBusy, flight, runVars, used>>
  /\ UNCHANGED <<push, retryArmed, stopping, resumeFails, settingVars, gone>>

\* Only claude's MCP server polls; a headless child runs the same server.
AwaitPoll(owner) ==
  /\ harness = "claude"
  /\ \/ owner = "session" /\ wstate = "INTERACTIVE_RUNNING"
     \/ owner = "child" /\ childAlive
  /\ \/ /\ wstate = "INTERACTIVE_RUNNING"
        /\ Serve(pending, owner, push, pushBusy)
     \/ /\ wstate # "INTERACTIVE_RUNNING"
        /\ poll' = owner
        /\ UNCHANGED <<queueVars, pushBusy, flight>>
  /\ UNCHANGED <<wstate, push, retryArmed, runVars, stopping, resumeFails, used,
                 settingVars, gone, fired>>

\* The hold elapsed or the request was aborted (its process died).
PollEnds ==
  /\ poll # "none"
  /\ poll' = "none"
  /\ UNCHANGED <<wstate, queueVars, pushVars, runVars, stopping, resumeFails,
                 used, settingVars, gone, fired>>

\* Slip: the previous push's in-flight flag survives the new PTY.
OnInteractiveUpStillBusy(c) ==
  /\ wstate # "HEADLESS_RUNNING"
  /\ IF harness = "claude" THEN c = NoPush
     ELSE c \in Pushes /\ c # push /\ flight[c] = NoWake
  /\ wstate' = "INTERACTIVE_RUNNING"
  /\ resumeFails' = 0
  /\ retryArmed' = FALSE
  /\ push' = c
  /\ Serve(pending, Orphaned(poll), c, pushBusy)
  /\ UNCHANGED <<runVars, stopping, used, settingVars, gone, fired>>

\* A fresh push closure per PTY; the identity matters only against promises
\* still outstanding and the closure it replaces.
OnInteractiveUp(c) ==
  /\ wstate # "HEADLESS_RUNNING"
  /\ IF harness = "claude" THEN c = NoPush
     ELSE c \in Pushes /\ c # push /\ flight[c] = NoWake
  /\ wstate' = "INTERACTIVE_RUNNING"
  /\ resumeFails' = 0
  /\ retryArmed' = FALSE
  /\ push' = c
  /\ Serve(pending, Orphaned(poll), c, FALSE)
  /\ UNCHANGED <<runVars, stopping, used, settingVars, gone, fired>>

OnInteractiveDown ==
  /\ wstate = "INTERACTIVE_RUNNING"
  /\ push' = NoPush
  /\ pushBusy' = FALSE
  /\ retryArmed' = FALSE
  /\ poll' = Orphaned(poll)
  /\ live' = {}
  /\ OfflineAndDrain(pending, Settled(row, live, "stopped"))
  /\ UNCHANGED <<flight, stopping, resumeFails, settingVars, gone, fired>>

\* AgentWriter.stop: the queue is dropped, live wakes settle, a parked poll is
\* released with nothing, and a running child is signalled.
StopEffect ==
  /\ pending' = <<>>
  /\ SettleLive("stopped")
  /\ poll' = "none"
  /\ \/ /\ wstate = "HEADLESS_RUNNING"
        /\ stopping' = TRUE
        /\ timedOut' = FALSE
        /\ killArmed' = FALSE
     \/ /\ wstate # "HEADLESS_RUNNING"
        /\ UNCHANGED <<stopping, timedOut, killArmed>>
  /\ UNCHANGED <<wstate, pushVars, run, childAlive, apiErr, sleepHeld,
                 resumeFails, used, settingVars, fired>>

UserStop ==
  /\ StopEffect
  /\ UNCHANGED gone

\* Slip: the agent is retired while its writer keeps its queue.
ArchiveWithoutStop ==
  /\ ~gone
  /\ gone' = TRUE
  /\ UNCHANGED <<wstate, poll, queueVars, pushVars, runVars, stopping,
                 resumeFails, used, settingVars, fired>>

\* agents.archive: stop the writer and retire the agent in one handler.
Archive ==
  /\ ~gone
  /\ gone' = TRUE
  /\ StopEffect

\* A push promise settles.  A closure that is no longer installed is ignored;
\* one that is installed means the session is interactive.
PushSettled(c, ok) ==
  /\ flight[c] # NoWake
  /\ LET landed == [flight EXCEPT ![c] = NoWake]
         head == flight[c]
         mine == pending # <<>> /\ Head(pending) = head
         rest == IF mine THEN Tail(pending) ELSE pending
     IN
     \/ /\ push # c
        /\ flight' = landed
        /\ UNCHANGED <<queueVars, pushBusy, retryArmed>>
     \/ /\ push = c /\ ok
        /\ pending' = rest
        /\ live' = IF mine THEN live \cup {head} ELSE live
        /\ row' = IF mine THEN Started(row, head) ELSE row
        /\ pushBusy' = (rest # <<>>)
        /\ flight' = IF rest = <<>> THEN landed
                     ELSE [flight EXCEPT ![c] = Head(rest)]
        /\ UNCHANGED retryArmed
     \/ /\ push = c /\ ~ok
        /\ pushBusy' = FALSE
        /\ flight' = landed
        /\ retryArmed' = TRUE
        /\ UNCHANGED queueVars
  /\ UNCHANGED <<wstate, poll, push, runVars, stopping, resumeFails, used,
                 settingVars, gone, fired>>

\* The PUSH_RETRY_MS timer calls serveInteractive.
PushRetry ==
  /\ retryArmed
  /\ retryArmed' = FALSE
  /\ Serve(pending, poll, push, pushBusy)
  /\ UNCHANGED <<wstate, push, runVars, stopping, resumeFails, used, settingVars,
                 gone, fired>>

\* Slip: the kill timer fires without signalling the child.
KillTimerMissesChild ==
  /\ killArmed
  /\ killArmed' = FALSE
  /\ UNCHANGED <<wstate, poll, queueVars, pushVars, run, childAlive, timedOut,
                 apiErr, sleepHeld, stopping, resumeFails, used, settingVars,
                 gone, fired>>

KillTimerFires ==
  /\ killArmed
  /\ killArmed' = FALSE
  /\ timedOut' = TRUE
  /\ UNCHANGED <<wstate, poll, queueVars, pushVars, run, childAlive, apiErr,
                 sleepHeld, stopping, resumeFails, used, settingVars, gone, fired>>

\* Slip: only a user Stop counts as a kill.
KilledByUserOnly == stopping

Killed == stopping \/ timedOut

ExitOutcome(reason) ==
  CASE stopping -> "stopped"
    [] ~stopping /\ timedOut -> "timed_out"
    [] ~Killed /\ reason = "spawnFail" -> "spawn_fail"
    [] ~Killed /\ reason = "resumeFail" -> "resume_fail"
    [] ~Killed /\ reason = "ok" -> IF apiErr THEN "api_error" ELSE "succeeded"

\* headlessExited (with finishKilled): settle the row, then route by reason.
HeadlessExited(reason) ==
  /\ childAlive
  /\ stopping' = FALSE
  /\ LET r == Settled(row, {run}, ExitOutcome(reason)) IN
     \/ /\ Killed \/ reason = "ok"
        /\ resumeFails' = 0
        /\ OfflineAndDrain(Shift(pending), r)
     \/ /\ ~Killed /\ reason = "resumeFail"
        /\ resumeFails' = resumeFails + 1
        /\ IF Unresumable(resumeFails')
           THEN Break(r) ELSE OfflineAndDrain(Shift(pending), r)
     \/ /\ ~Killed /\ reason = "spawnFail"
        /\ Break(r)
        /\ UNCHANGED resumeFails
  /\ UNCHANGED <<live, poll, pushVars, settingVars, gone, fired>>

\* The Stop hook; it also fires in a headless child, where nothing is live.
OnTurnEnded ==
  /\ wstate \in {"INTERACTIVE_RUNNING", "HEADLESS_RUNNING"}
  /\ SettleLive("succeeded")
  /\ UNCHANGED <<wstate, pending, poll, pushVars, runVars, stopping, resumeFails,
                 used, settingVars, gone, fired>>

\* The StopFailure hook.
OnTurnFailed ==
  /\ wstate \in {"INTERACTIVE_RUNNING", "HEADLESS_RUNNING"}
  /\ SettleLive("api_error")
  /\ apiErr' = (apiErr \/ wstate = "HEADLESS_RUNNING")
  /\ UNCHANGED <<wstate, pending, poll, pushVars, run, childAlive, killArmed,
                 timedOut, sleepHeld, stopping, resumeFails, used, settingVars,
                 gone, fired>>

\* agents.resetTurnLimit
ResetTurnLimit ==
  /\ used' = 0
  /\ UNCHANGED <<wstate, poll, queueVars, pushVars, runVars, stopping,
                 resumeFails, settingVars, gone, fired>>

\* agents.update({turnLimitEnabled})
ToggleAgentLimit ==
  /\ agentLimit' = ~agentLimit
  /\ UNCHANGED <<wstate, poll, queueVars, pushVars, runVars, stopping,
                 resumeFails, used, harness, featureOn, gone, fired>>

\* Settings: off -> on starts every agent afresh (resetAllTurnBudgets).
ToggleFeature ==
  /\ featureOn' = ~featureOn
  /\ used' = IF featureOn THEN used ELSE 0
  /\ agentLimit' = (agentLimit \/ ~featureOn)
  /\ UNCHANGED <<wstate, poll, queueVars, pushVars, runVars, stopping,
                 resumeFails, harness, gone, fired>>

\* The host quits or crashes and a new one boots.  Only the database survives:
\* orphaned `running' rows become `stopped'; a crash with a live claude child
\* leaves a spawn marker, which the boot reconcile turns into BROKEN.
HostRestart ==
  /\ wstate' \in {"OFFLINE"} \cup
       (IF harness = "claude" /\ childAlive THEN {"BROKEN"} ELSE {})
  /\ row' = Settled(row, Wakes, "stopped")
  /\ pending' = <<>>
  /\ live' = {}
  /\ poll' = "none"
  /\ push' = NoPush
  /\ pushBusy' = FALSE
  /\ flight' = [c \in Pushes |-> NoWake]
  /\ retryArmed' = FALSE
  /\ NoRun
  /\ stopping' = FALSE
  /\ resumeFails' = 0
  /\ UNCHANGED <<used, settingVars, gone, fired>>

Next ==
  \/ Fire
  \/ \E owner \in {"session", "child"} : AwaitPoll(owner)
  \/ PollEnds
  \/ \E c \in Pushes \cup {NoPush} : OnInteractiveUp(c)
  \/ OnInteractiveDown
  \/ UserStop
  \/ Archive
  \/ \E c \in Pushes, ok \in BOOLEAN : PushSettled(c, ok)
  \/ PushRetry
  \/ KillTimerFires
  \/ \E reason \in ExitReason : HeadlessExited(reason)
  \/ OnTurnEnded
  \/ OnTurnFailed
  \/ ResetTurnLimit
  \/ ToggleAgentLimit
  \/ ToggleFeature
  \/ HostRestart

Spec == Init /\ [][Next]_vars

-----------------------------------------------------------------------------
(* Invariants                                                                *)

\* The writer's state is well typed (AgentWriter's fields).
TypeOK ==
  /\ wstate \in WriterState
  /\ pending \in Seq(Wakes)
  /\ live \subseteq Wakes
  /\ poll \in PollOwner
  /\ push \in Pushes \cup {NoPush}
  /\ pushBusy \in BOOLEAN
  /\ flight \in [Pushes -> Wakes \cup {NoWake}]
  /\ retryArmed \in BOOLEAN
  /\ run \in Wakes \cup {NoWake}
  /\ childAlive \in BOOLEAN /\ killArmed \in BOOLEAN /\ sleepHeld \in BOOLEAN
  /\ stopping \in BOOLEAN /\ timedOut \in BOOLEAN /\ apiErr \in BOOLEAN
  /\ resumeFails \in 0 .. MaxResumeFails
  /\ used \in Nat
  /\ harness \in Harnesses
  /\ featureOn \in BOOLEAN /\ agentLimit \in BOOLEAN /\ gone \in BOOLEAN
  /\ fired \in 0 .. MaxWakes
  /\ row \in [Wakes -> Row]

\* Wakes are delivered in the order they fired: the queue is in firing order,
\* and everything that has started (or is starting) is older than everything
\* that still waits, whichever transport is draining the queue.
FifoOrder ==
  /\ \A i, j \in DOMAIN pending : i < j => pending[i] < pending[j]
  /\ \A w \in Queued \ {run} :
       row[w] = "none" /\ \A v \in Wakes : row[v] # "none" => v < w

\* Every `running' History row has exactly one owner that will settle it: the
\* headless run or the live session.  With the settled rows final, this is
\* wakeFinished "called exactly once per wakeStarted".
RunningRowsOwned ==
  /\ {w \in Wakes : row[w] = "running"} = live \cup ({run} \ {NoWake})
  /\ run \notin live
  /\ (run # NoWake) <=> (wstate = "HEADLESS_RUNNING")
  /\ live # {} => wstate = "INTERACTIVE_RUNNING"

\* The head of a headless run is still at the front of the queue until its
\* child exits ("a crash mid-run never loses it"), unless the user's Stop
\* emptied the queue; then the run's wake is not in the queue any more.
HeadHeldUntilExit ==
  wstate = "HEADLESS_RUNNING" =>
    IF stopping THEN run \notin Queued
    ELSE pending # <<>> /\ Head(pending) = run

\* Every headless run has a bound in force (its kill timer, or a signal already
\* sent), and nothing of one run labels or kills the next: the kill timer, the
\* Stop / timeout / API-error flags and the sleep assertion exist only while
\* their run does, and Stop wins over a kill timer that already fired.
RunSupervised ==
  /\ wstate = "HEADLESS_RUNNING" => killArmed \/ timedOut \/ stopping
  /\ stopping \/ timedOut \/ killArmed \/ apiErr \/ sleepHeld \/ childAlive =>
       wstate = "HEADLESS_RUNNING"
  /\ stopping => ~timedOut /\ ~killArmed
  /\ timedOut => ~killArmed

\* A queued wake always has something outstanding that will move it: the run in
\* progress, an absent poll (the next one is served on arrival), a push promise
\* or the retry timer.  An agent with nothing running has an empty queue.
QueueHasDriver ==
  pending # <<>> =>
    \/ wstate = "HEADLESS_RUNNING" /\ (childAlive \/ RunMayThrow)
    \/ /\ wstate = "INTERACTIVE_RUNNING"
       /\ IF push = NoPush THEN poll = "none"
          ELSE IF pushBusy THEN flight[push] # NoWake ELSE retryArmed

\* The queue keeps its order and its head: wakes are delivered as they fired,
\* and a headless run's wake stays first until its child is gone.
QueueOrder == FifoOrder /\ HeadHeldUntilExit

\* Every run and every History row has exactly one owner, and no flag, timer or
\* assertion of one run outlives it.
RunsOwned == RunningRowsOwned /\ RunSupervised

\* "single-writer: a child is alive iff HEADLESS_RUNNING" (coordinator.ts:263).
ChildAliveIffHeadless == childAlive <=> wstate = "HEADLESS_RUNNING"

-----------------------------------------------------------------------------
(* Action properties                                                         *)

Vanishes(w) == w \in Queued /\ ~(w \in Queued)' /\ row'[w] = "none"

QueueMayBeDropped ==
  \/ UserStop \/ Archive \/ HostRestart
  \/ wstate' = "BROKEN"
  \/ BudgetSpent /\ wstate' = "OFFLINE"

\* A wake leaves the queue without ever starting only when the user stops the
\* agent, the agent breaks, its budget is spent or the host goes away -- or when
\* it was queued at the front while a stopped child was still exiting.
DropsAccounted ==
  [][\A w \in Wakes : Vanishes(w) =>
       \/ QueueMayBeDropped
       \/ stopping /\ run # run' /\ w = Head(pending)]_vars

\* No path -- a fire, a drain after an exit, a drain after the PTY died -- spends
\* a background turn the agent does not have.
BudgetRespected ==
  [][used' > used =>
       (featureOn /\ agentLimit => used < MaxTurns) /\ used' = used + 1]_vars

\* No wake is run twice: a headless run is only ever started for a wake that has
\* no History row yet, also when it starts in the handler that ends the last one.
HeadlessStartsOnce ==
  [][used' > used => row[run'] = "none"]_vars

\* Nothing starts for an agent once it is archived, in any transport.
ArchivedNeverRuns ==
  [][gone => \A w \in Wakes : row'[w] = "running" => row[w] = "running"]_vars

\* An agent goes BROKEN only for its own session's failure -- one spawn failure
\* or the streak of resume failures -- or when a crash left a live child; a
\* stopped or timed-out run never counts.
BreaksOnlyOnFailure ==
  [][wstate # "BROKEN" /\ wstate' = "BROKEN" =>
       \/ HostRestart
       \/ row'[run] = "spawn_fail"
       \/ row'[run] = "resume_fail" /\ resumeFails + 1 = MaxResumeFails]_vars

\* What the writer starts and gives up is justified: a headless run by a budget,
\* a wake that never ran and an agent that is not archived; a BROKEN agent by a
\* failure of its own session.
RunsJustified ==
  BudgetRespected /\ HeadlessStartsOnce /\ ArchivedNeverRuns /\ BreaksOnlyOnFailure

-----------------------------------------------------------------------------
(* Refinement: the wake layer's promise per wake.                            *)

WakeStatus ==
  [w \in Wakes |->
     CASE row[w] # "none" -> row[w]
       [] row[w] = "none" /\ w > fired -> "unfired"
       [] row[w] = "none" /\ w \in Queued -> "queued"
       [] row[w] = "none" /\ w <= fired /\ w \notin Queued -> "dropped"]

Ledger == INSTANCE WakeLedger WITH status <- WakeStatus

\* Every step of the writer is a step (or a stutter) of the ledger.
ImplementsLedger == Ledger!Spec

-----------------------------------------------------------------------------
(* Liveness.  The host's timers fire, a signalled child exits, and a live     *)
(* session's MCP server polls again; nothing is assumed of users, of a push   *)
(* succeeding or of a run ending by itself.                                   *)

SignalledChildExits == Killed /\ \E reason \in ExitReason : HeadlessExited(reason)
SomePushSettles == \E c \in Pushes, ok \in BOOLEAN : push = c /\ PushSettled(c, ok)

Fairness ==
  /\ WF_vars(KillTimerFires)
  /\ WF_vars(SignalledChildExits)
  /\ WF_vars(AwaitPoll("session"))
  /\ WF_vars(SomePushSettles)
  /\ WF_vars(PushRetry)

LiveSpec == Spec /\ Fairness

\* Every headless run settles its wake: the kill timer is a hard ceiling.
HeadlessRunsEnd ==
  \A w \in Wakes : run = w ~> row[w] \in Settlement

\* With the claude channel, every queued wake is started or dropped.
QueuedWakesLeave ==
  \A w \in Wakes : harness = "claude" /\ w \in Queued ~> w \notin Queued

\* With the codex push, the head is attempted again after every failure.
HeadIsPushed ==
  \A w \in Wakes :
    (wstate = "INTERACTIVE_RUNNING" /\ pending # <<>> /\ Head(pending) = w)
      ~> (\E c \in Pushes : flight[c] = w) \/ w \notin Queued

\* No wake waits for ever: it leaves a claude agent's queue, and the head of a
\* codex session's queue is pushed again after every failure.
QueueMoves == QueuedWakesLeave /\ HeadIsPushed
=============================================================================
