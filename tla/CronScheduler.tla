---------------------------- MODULE CronScheduler ----------------------------
(***************************************************************************)
(* The schedules and monitors of one agent: the rows of the database, the  *)
(* timers and supervised children that exist only while the host runs, and *)
(* how they follow the agent when it breaks, recovers, is archived, or the *)
(* host goes away and comes back (services/scheduler/index.ts,             *)
(* cron-timer.ts, monitor-runner.ts).                                      *)
(*                                                                         *)
(* Time is kept per schedule as the number of its occurrences that have    *)
(* passed.  A timer is armed for an occurrence and may run late.           *)
(*                                                                         *)
(* Definitions marked "Slip" are wrong variants of the definition that     *)
(* follows them: no action uses them; they show what the properties catch. *)
(***************************************************************************)
EXTENDS Naturals

CONSTANTS
  Schedules,   \* cron rows
  OneShots,    \* those that run once
  Monitors,    \* monitor rows
  MaxOcc       \* bound: occurrences of one schedule

ASSUME OneShotsAreSchedules == OneShots \subseteq Schedules
ASSUME MaxOccIsNat == MaxOcc \in Nat

Never == 0                         \* no timer; a null nextFireAt or lastFiredAt
Occ == 0 .. MaxOcc
Recurring == Schedules \ OneShots

VARIABLES
  up,          \* the host runs
  broken, archived,   \* the agent
  paused,      \* its background turns are spent and no session is open
  clock,       \* occurrences of each schedule that have passed
  row,         \* schedules.enabled, of the row if there is one
  nextFire,    \* schedules.nextFireAt
  lastFire,    \* schedules.lastFiredAt
  job,         \* CronTimer.jobs: the occurrence the timer waits for
  mon,         \* monitors.enabled
  runner,      \* Scheduler.runners: a child, a restart timer, or neither
  runs,        \* history: the wakes each schedule handed to the writer
  pledge       \* history: was a fire promised, and was it missed or skipped

agentVars == <<broken, archived, paused>>
rowVars == <<row, nextFire, lastFire>>
monVars == <<mon, runner>>
history == <<runs, pledge>>
vars == <<up, agentVars, clock, rowVars, job, monVars, history>>

RowState == {"absent", "enabled", "retired"}
RunnerState == {"none", "child", "waiting", "failed"}

Enabled == {s \in Schedules : row[s] = "enabled"}
EnabledMonitors == {m \in Monitors : mon[m] = "enabled"}

\* f with the value v on the set S.
Set(f, S, v) == [x \in DOMAIN f |-> IF x \in S THEN v ELSE f[x]]

Init ==
  /\ up = TRUE /\ broken = FALSE /\ archived = FALSE /\ paused \in BOOLEAN
  /\ clock = [s \in Schedules |-> 0]
  /\ row = [s \in Schedules |-> "absent"]
  /\ nextFire = [s \in Schedules |-> Never]
  /\ lastFire = [s \in Schedules |-> Never]
  /\ job = [s \in Schedules |-> Never]
  /\ mon = [m \in Monitors |-> "absent"]
  /\ runner = [m \in Monitors |-> "none"]
  /\ runs = [s \in Schedules |-> 0]
  /\ pledge = [s \in Schedules |-> "none"]

-----------------------------------------------------------------------------
(* Timers                                                                    *)

\* Scheduler.fire: an archived agent, or one whose wake would only be dropped,
\* is not woken.
Fires == ~archived /\ ~broken /\ ~paused

\* Slip: the expression is evaluated from the minute that has just passed.
UpcomingOrNow(s) == IF clock[s] = MaxOcc THEN Never
                    ELSE IF clock[s] = 0 THEN 1 ELSE clock[s]

\* CronTimer.arm and nextRun: the expression's next occurrence, from now.
Upcoming(s) == IF clock[s] = MaxOcc THEN Never ELSE clock[s] + 1

\* nextFireAt lies in the past.
Overdue(s) == nextFire[s] # Never /\ nextFire[s] <= clock[s]

\* fire and markCronFired for each schedule of S.
Fire(S) ==
  /\ lastFire' = [s \in Schedules |-> IF s \in S THEN clock[s] ELSE lastFire[s]]
  /\ runs' = [s \in Schedules |-> IF s \in S THEN runs[s] + 1 ELSE runs[s]]

\* armCron for each schedule of S.
Arm(S) ==
  /\ job' = [s \in Schedules |-> IF s \in S THEN Upcoming(s) ELSE job[s]]
  /\ nextFire' = [s \in Schedules |-> IF s \in S THEN Upcoming(s) ELSE nextFire[s]]
  /\ pledge' = Set(pledge, S, "armed")

\* createCron.  The agent's own process calls it; nothing looks at the agent's
\* state.
CreateCron(s) ==
  /\ up /\ row[s] = "absent"
  /\ Upcoming(s) # Never
  /\ row' = [row EXCEPT ![s] = "enabled"]
  /\ Arm({s})
  /\ UNCHANGED <<up, agentVars, clock, lastFire, monVars, runs>>

\* deleteCron: the timer is disarmed and the row retired, not deleted.
DeleteCron(s) ==
  /\ up /\ row[s] # "absent"
  /\ job' = [job EXCEPT ![s] = Never]
  /\ row' = [row EXCEPT ![s] = "retired"]
  /\ pledge' = [pledge EXCEPT ![s] = "none"]
  /\ UNCHANGED <<up, agentVars, clock, nextFire, lastFire, monVars, runs>>

\* A minute that matches the schedule's expression passes.
Tick(s) ==
  /\ clock[s] < MaxOcc
  /\ clock' = [clock EXCEPT ![s] = @ + 1]
  /\ pledge' = IF ~up /\ pledge[s] = "armed" THEN [pledge EXCEPT ![s] = "missed"]
               ELSE pledge
  /\ UNCHANGED <<up, agentVars, rowVars, job, monVars, runs>>

\* Slip: the timer advances only when the agent was woken.
AfterIfFired(s) == IF s \in Recurring /\ Fires THEN Upcoming(s) ELSE Never

\* What a timer waits for once it has run: croner keeps a recurring one going
\* whether or not the agent was woken, and stops a one-shot (maxRuns).
After(s) == IF s \in Recurring THEN Upcoming(s) ELSE Never

\* armCron's callback.  The row of a recurring schedule follows its timer; a
\* one-shot is retired only if the agent was woken.
CronFires(s) ==
  /\ up /\ job[s] # Never /\ job[s] <= clock[s]
  /\ job' = [job EXCEPT ![s] = After(s)]
  /\ nextFire' = IF s \in Recurring THEN [nextFire EXCEPT ![s] = After(s)] ELSE nextFire
  /\ row' = IF Fires /\ s \in OneShots THEN [row EXCEPT ![s] = "retired"] ELSE row
  /\ Fire(IF Fires THEN {s} ELSE {})
  /\ pledge' = [pledge EXCEPT ![s] = IF s \in Recurring THEN "armed"
                                     ELSE IF Fires THEN "none" ELSE "missed"]
  /\ UNCHANGED <<up, agentVars, clock, monVars>>

-----------------------------------------------------------------------------
(* Monitors                                                                  *)

\* createMonitor; an archived agent's monitor is not started.
CreateMonitor(m) ==
  /\ up /\ mon[m] = "absent"
  /\ mon' = [mon EXCEPT ![m] = "enabled"]
  /\ runner' = [runner EXCEPT ![m] = IF archived THEN "none" ELSE "child"]
  /\ UNCHANGED <<up, agentVars, clock, rowVars, job, history>>

\* stopMonitor
StopMonitor(m) ==
  /\ up /\ mon[m] # "absent"
  /\ mon' = [mon EXCEPT ![m] = "retired"]
  /\ runner' = [runner EXCEPT ![m] = "none"]
  /\ UNCHANGED <<up, agentVars, clock, rowVars, job, history>>

\* MonitorRunner: the child exits and a restart is scheduled.
ChildExits(m) ==
  /\ runner[m] = "child"
  /\ runner' = [runner EXCEPT ![m] = "waiting"]
  /\ UNCHANGED <<up, agentVars, clock, rowVars, job, mon, history>>

\* MonitorRunner: the backoff ran out, spawnChild.
ChildRestarts(m) ==
  /\ runner[m] = "waiting"
  /\ runner' = [runner EXCEPT ![m] = "child"]
  /\ UNCHANGED <<up, agentVars, clock, rowVars, job, mon, history>>

\* MonitorRunner: the spawn failed (the agent's folder is gone, no process left).
\* Node then emits `error', whose handler does nothing, and no `exit': the runner
\* stays in the table without a child or a timer until it is stopped.
SpawnFails(m) ==
  /\ runner[m] = "child"
  /\ runner' = [runner EXCEPT ![m] = "failed"]
  /\ UNCHANGED <<up, agentVars, clock, rowVars, job, mon, history>>

-----------------------------------------------------------------------------
(* The agent                                                                 *)

\* Slip: every row of the agent forgets its next fire.
ForgottenAll == Schedules

\* disarmAgent clears the next fire of these rows; a one-shot's is kept.
Forgotten == Recurring

\* disarmAgent, when the writer turns BROKEN.
Break ==
  /\ up /\ ~broken
  /\ broken' = TRUE
  /\ job' = [s \in Schedules |-> Never]
  /\ nextFire' = Set(nextFire, Forgotten, Never)
  /\ runner' = [m \in Monitors |-> "none"]
  /\ pledge' = Set(pledge, Recurring, "none")
  /\ UNCHANGED <<up, archived, paused, clock, row, lastFire, mon, runs>>

\* Slip: rearmAgent looks after the schedules only.
ToRestartNone == {}

\* The monitors rearmAgent starts: enabled, and not running.
ToRestart == {m \in EnabledMonitors : runner[m] = "none"}

\* rearmAgent, when a restart takes the writer out of BROKEN.
Recover ==
  /\ up /\ broken
  /\ broken' = FALSE
  /\ IF archived THEN UNCHANGED <<job, nextFire, pledge, runner>>
     ELSE /\ Arm(Enabled)
          /\ runner' = Set(runner, ToRestart, "child")
  /\ UNCHANGED <<up, archived, paused, clock, row, lastFire, mon, runs>>

\* Turns are used up or refilled, a session opens or closes.
BudgetChanges ==
  /\ up
  /\ paused' = ~paused
  /\ UNCHANGED <<up, broken, archived, clock, rowVars, job, monVars, history>>

\* removeAgent: every timer and child stops, every row is retired.
Archive ==
  /\ up /\ ~archived
  /\ archived' = TRUE
  /\ job' = [s \in Schedules |-> Never]
  /\ row' = Set(row, Enabled, "retired")
  /\ mon' = Set(mon, EnabledMonitors, "retired")
  /\ runner' = [m \in Monitors |-> "none"]
  /\ pledge' = [s \in Schedules |-> "none"]
  /\ UNCHANGED <<up, broken, paused, clock, nextFire, lastFire, runs>>

-----------------------------------------------------------------------------
(* The host                                                                  *)

\* The host quits or crashes: what lives in its memory is gone.  A timer that
\* was due and had not run yet is a missed fire.
HostStops ==
  /\ up
  /\ up' = FALSE
  /\ job' = [s \in Schedules |-> Never]
  /\ runner' = [m \in Monitors |-> "none"]
  /\ pledge' = [s \in Schedules |-> IF job[s] # Never /\ job[s] <= clock[s]
                                    THEN "missed" ELSE pledge[s]]
  /\ UNCHANGED <<agentVars, clock, rowVars, mon, runs>>

\* start: what the sweep does with the enabled rows of an agent that is gone.
BootArchived ==
  /\ row' = Set(row, Enabled, "absent")
  /\ mon' = Set(mon, EnabledMonitors, "absent")
  /\ UNCHANGED <<paused, nextFire, lastFire, job, runner, history>>

\* Slip: rows are armed from the expression and nothing is caught up.
BootWithoutCatchUp ==
  /\ Arm(Enabled)
  /\ runner' = Set(runner, EnabledMonitors, "child")
  /\ UNCHANGED <<paused, row, lastFire, mon, runs>>

\* start: the sweep over an agent that can run.  An overdue row fires once --
\* unless the turns are spent, before the sweep or by it -- and everything is
\* armed from the expression, except an overdue one-shot.
BootRunnable ==
  LET due == {s \in Enabled : Overdue(s)} IN
  \E fired \in SUBSET due :
    /\ IF paused THEN fired = {} /\ paused' = paused
       ELSE IF fired = due THEN paused' \in BOOLEAN
       ELSE fired # {} /\ paused' = TRUE
    /\ Fire(fired)
    /\ row' = Set(row, fired \cap OneShots, "retired")
    /\ LET armed == Enabled \ (due \cap OneShots) IN
       /\ job' = [s \in Schedules |-> IF s \in armed THEN Upcoming(s) ELSE job[s]]
       /\ nextFire' = [s \in Schedules |-> IF s \in armed THEN Upcoming(s)
                                           ELSE nextFire[s]]
       /\ pledge' = Set(Set(pledge, armed, "armed"), fired \cap OneShots, "none")
    /\ runner' = Set(runner, EnabledMonitors, "child")
    /\ UNCHANGED mon

\* Scheduler.start.  A broken agent's rows are left enabled and unarmed: the
\* spawn markers were reconciled before.
Boot(b) ==
  /\ ~up
  /\ up' = TRUE
  /\ broken' = b
  /\ \/ archived /\ BootArchived
     \/ ~archived /\ b /\ UNCHANGED <<paused, rowVars, job, monVars, history>>
     \/ ~archived /\ ~b /\ BootRunnable
  /\ UNCHANGED <<archived, clock>>

Next ==
  \/ \E s \in Schedules : CreateCron(s) \/ DeleteCron(s) \/ Tick(s) \/ CronFires(s)
  \/ \E m \in Monitors : CreateMonitor(m) \/ StopMonitor(m)
                         \/ ChildExits(m) \/ ChildRestarts(m) \/ SpawnFails(m)
  \/ Break \/ Recover \/ BudgetChanges \/ Archive
  \/ HostStops
  \/ \E b \in BOOLEAN : Boot(b)

Spec == Init /\ [][Next]_vars

-----------------------------------------------------------------------------
(* Properties                                                                *)

\* The rows and the in-memory tables are well typed.
TypeOK ==
  /\ up \in BOOLEAN /\ broken \in BOOLEAN /\ archived \in BOOLEAN /\ paused \in BOOLEAN
  /\ clock \in [Schedules -> Occ]
  /\ row \in [Schedules -> RowState]
  /\ nextFire \in [Schedules -> Occ]
  /\ lastFire \in [Schedules -> Occ]
  /\ runs \in [Schedules -> Occ]
  /\ job \in [Schedules -> Occ]
  /\ mon \in [Monitors -> RowState]
  /\ runner \in [Monitors -> RunnerState]
  /\ pledge \in [Schedules -> {"none", "armed", "missed"}]

\* A recurring schedule of an agent that can run always waits for the very next
\* occurrence or for one that is due, and the row says which (what the Scheduled
\* view shows), whatever breaks, recoveries and restarts came before.  At the
\* end of the modelled time there is no next occurrence.
ArmedForNext ==
  up /\ ~broken /\ ~archived =>
    \A s \in Enabled \cap Recurring :
      /\ job[s] = nextFire[s]
      /\ job[s] = Never => clock[s] = MaxOcc
      /\ job[s] <= clock[s] + 1

\* A one-shot that has not run is never forgotten: while its row is enabled
\* either its timer is armed or the row keeps a time a later boot works from --
\* the time it was missed at, until the restart of a broken agent arms the
\* expression's next occurrence in its place.
OneShotKept ==
  \A s \in Enabled \cap OneShots :
    \/ job[s] # Never \/ nextFire[s] # Never
    \/ clock[s] = MaxOcc

\* Monitors follow their rows: a supervisor (with a child or not) for every
\* enabled monitor of an agent that can run, none for a retired one, an archived
\* agent or a host that is down.
MonitorsFollowRows ==
  \A m \in Monitors :
    /\ up /\ ~broken /\ ~archived /\ mon[m] = "enabled" => runner[m] # "none"
    /\ runner[m] # "none" => up /\ ~archived /\ mon[m] = "enabled"

\* What lives only in the host's memory follows the rows, whatever breaks,
\* recoveries, crashes and boots came before.
HostFollowsRows == TypeOK /\ ArmedForNext /\ OneShotKept /\ MonitorsFollowRows

\* No occurrence wakes the agent twice, though both the boot's catch-up and the
\* timers may serve it, and a one-shot wakes it once.
NoDoubleFire ==
  [][\A s \in Schedules : runs'[s] # runs[s] =>
       /\ lastFire[s] < clock[s]
       /\ s \in OneShots => runs[s] = 0]_vars

\* A fire that was missed because the host was down -- or, for a one-shot,
\* skipped because the turns were spent -- is caught up by the next boot that
\* finds the agent able to run.
MissedIsCaughtUp ==
  [][\A s \in Schedules :
       /\ ~up /\ up' /\ ~broken' /\ ~archived' /\ ~paused /\ ~paused'
       /\ row[s] = "enabled" /\ pledge[s] = "missed"
       => runs'[s] = runs[s] + 1]_vars

\* Each occurrence wakes the agent once: never twice, and not never because the
\* host was down.
FiresExactlyOnce == NoDoubleFire /\ MissedIsCaughtUp
==============================================================================
