---------------------------- MODULE MCDeskProofs ----------------------------
(***************************************************************************)
(* Parts of the host, for any number of agents, schedules, monitors,       *)
(* writers, submissions and versions, and any length of time:              *)
(*   - what lives in the host follows the rows of schedules and monitors,  *)
(*     and each occurrence wakes the agent once (CronScheduler);           *)
(*   - the machine is kept awake for exactly the headless runs in flight   *)
(*     (SleepGuard: wake/sleep-guard.ts, wake/coordinator.ts);             *)
(*   - a boot that succeeds has the schema of its build (SchemaUpgrade:    *)
(*     db/index.ts);                                                       *)
(*   - nothing leaves the machine unasked (Telemetry: analytics, feedback);*)
(*   - statuses and the tray follow the facts (AgentDesk: status,          *)
(*     notifications, tray);                                               *)
(*   - no two agents share a folder, and the selection is of one that      *)
(*     lives (AgentRoster: agents/registry.ts, sidebar and New Agent form).*)
(*                                                                         *)
(* Everything about schedules is said of one schedule at a time: an action *)
(* that sweeps over them does the same to each.                            *)
(***************************************************************************)
EXTENDS MCDesk, Sequences, FiniteSetTheorems, WellFoundedInduction, TLAPS

(* The fires so far were of occurrences that have passed, one each; a one-shot that
   has not been retired has had none. *)
FiresCounted(s) ==
  /\ runs[s] <= lastFire[s] /\ lastFire[s] <= clock[s]
  /\ s \in OneShots /\ row[s] # "retired" => runs[s] = 0

(* A timer is there for a row of a host that runs, and the row says for when; what a
   row waits for was not served yet. *)
JobHasRow(s) ==
  /\ job[s] # Never => up /\ row[s] = "enabled" /\ nextFire[s] = job[s]
  /\ row[s] = "enabled" /\ nextFire[s] # Never => lastFire[s] < nextFire[s]

(* What was promised is in the row: the very next occurrence or one that is due, and a
   due one if it was missed. *)
PledgeInRow(s) ==
  row[s] = "enabled" =>
    /\ pledge[s] = "armed" => IF nextFire[s] = Never THEN clock[s] = MaxOcc
                              ELSE nextFire[s] <= clock[s] + 1
    /\ pledge[s] = "missed" => Overdue(s)

(* ArmedForNext and OneShotKept, of one schedule. *)
Waits(s) ==
  /\ up /\ ~broken /\ ~archived /\ row[s] = "enabled" /\ s \in Recurring =>
       /\ job[s] = nextFire[s]
       /\ job[s] = Never => clock[s] = MaxOcc
       /\ job[s] <= clock[s] + 1
  /\ row[s] = "enabled" /\ s \in OneShots =>
       job[s] # Never \/ nextFire[s] # Never \/ clock[s] = MaxOcc

Kept(s) == FiresCounted(s) /\ JobHasRow(s) /\ PledgeInRow(s) /\ Waits(s)

CInv == TypeOK /\ (\A s \in Schedules : Kept(s)) /\ MonitorsFollowRows

(* The part of TypeOK that is about the schedules. *)
RowTypes ==
  /\ clock \in [Schedules -> Occ] /\ row \in [Schedules -> RowState]
  /\ nextFire \in [Schedules -> Occ] /\ lastFire \in [Schedules -> Occ]
  /\ runs \in [Schedules -> Occ] /\ job \in [Schedules -> Occ]
  /\ pledge \in [Schedules -> {"none", "armed", "missed"}]

AgentTypes ==
  /\ up \in BOOLEAN /\ broken \in BOOLEAN /\ archived \in BOOLEAN /\ paused \in BOOLEAN
  /\ mon \in [Monitors -> RowState] /\ runner \in [Monitors -> RunnerState]

(* What a step leaves of a schedule. *)
Same(s) ==
  /\ clock'[s] = clock[s] /\ row'[s] = row[s] /\ nextFire'[s] = nextFire[s]
  /\ lastFire'[s] = lastFire[s] /\ job'[s] = job[s] /\ runs'[s] = runs[s]
  /\ pledge'[s] = pledge[s]

LEMMA Types == TypeOK <=> RowTypes /\ AgentTypes
  BY DEF TypeOK, RowTypes, AgentTypes

(* The values of one schedule are numbers within the modelled time. *)
LEMMA Numbers ==
  ASSUME RowTypes, NEW s \in Schedules
  PROVE  /\ clock[s] \in Nat /\ clock[s] <= MaxOcc /\ lastFire[s] \in Nat /\ runs[s] \in Nat
         /\ nextFire[s] \in Nat /\ job[s] \in Nat /\ MaxOcc \in Nat
         /\ row[s] \in RowState /\ pledge[s] \in {"none", "armed", "missed"}
  BY MaxOccIsNat DEF RowTypes, Occ

(* The next occurrence is later than everything that has passed, and is none only at
   the end of the modelled time. *)
LEMMA UpcomingFacts ==
  ASSUME RowTypes, NEW s \in Schedules
  PROVE  /\ Upcoming(s) \in Occ /\ Upcoming(s) \in Nat
         /\ Upcoming(s) = Never => clock[s] = MaxOcc
         /\ Upcoming(s) # Never => Upcoming(s) = clock[s] + 1
  BY Numbers, MaxOccIsNat DEF Upcoming, Occ, Never

(* A schedule that a step does not touch. *)
LEMMA SameKept ==
  ASSUME NEW s, Kept(s), Same(s), job[s] # Never => up',
         up' /\ ~broken' /\ ~archived' => up /\ ~broken /\ ~archived
  PROVE  Kept(s)'
  BY DEF Kept, Same, FiresCounted, JobHasRow, PledgeInRow, Waits, Overdue

(* A schedule whose row is live is armed from its expression, perhaps after a fire. *)
LEMMA ArmKept ==
  ASSUME RowTypes, NEW s \in Schedules, Kept(s), up',
         clock'[s] = clock[s], row'[s] = "enabled", row[s] # "retired",
         job'[s] = Upcoming(s), nextFire'[s] = Upcoming(s), pledge'[s] = "armed",
         \/ lastFire'[s] = lastFire[s] /\ runs'[s] = runs[s]
         \/ /\ lastFire[s] < clock[s] /\ s \notin OneShots
            /\ lastFire'[s] = clock[s] /\ runs'[s] = runs[s] + 1
  PROVE  Kept(s)'
<1>1. /\ clock[s] \in Nat /\ lastFire[s] \in Nat /\ runs[s] \in Nat
      /\ Upcoming(s) \in Nat /\ (Upcoming(s) = Never => clock[s] = MaxOcc)
      /\ (Upcoming(s) # Never => Upcoming(s) = clock[s] + 1)
  BY Numbers, UpcomingFacts
<1>2. runs[s] <= lastFire[s] /\ lastFire[s] <= clock[s]
      /\ (s \in OneShots => runs[s] = 0)
  BY DEF Kept, FiresCounted
<1>3. FiresCounted(s)'
  BY <1>1, <1>2 DEF FiresCounted
<1>4. lastFire'[s] <= clock[s] /\ lastFire'[s] \in Nat
  BY <1>1, <1>2
<1>5. JobHasRow(s)'
  BY <1>1, <1>4 DEF JobHasRow
<1>6. PledgeInRow(s)'
  BY <1>1 DEF PledgeInRow
<1>7. Waits(s)'
  BY <1>1 DEF Waits, Never
<1> QED
  BY <1>3, <1>5, <1>6, <1>7 DEF Kept

(* A schedule that loses its timer: it is retired, or its row keeps what it knew. *)
LEMMA DisarmKept ==
  ASSUME RowTypes, NEW s \in Schedules, Kept(s),
         clock'[s] = clock[s], lastFire'[s] = lastFire[s], runs'[s] = runs[s],
         job'[s] = Never,
         \/ row'[s] # "enabled" /\ (row'[s] = "retired" \/ row[s] # "retired")
         \/ /\ row'[s] = row[s] /\ ~(up' /\ ~broken' /\ ~archived')
            /\ \/ nextFire'[s] = nextFire[s]
               \/ nextFire'[s] = Never /\ s \notin OneShots /\ pledge'[s] = "none"
            /\ pledge'[s] \in {"none", pledge[s]}
                 \/ (pledge'[s] = "missed" /\ job[s] # Never /\ job[s] <= clock[s])
  PROVE  Kept(s)'
<1>1. FiresCounted(s)'
  BY DEF Kept, FiresCounted
<1>2. JobHasRow(s)'
  BY DEF Kept, JobHasRow
<1>3. PledgeInRow(s)'
  BY DEF Kept, PledgeInRow, JobHasRow, Overdue
<1>4. Waits(s)'
  BY DEF Kept, Waits, JobHasRow
<1> QED
  BY <1>1, <1>2, <1>3, <1>4 DEF Kept

-----------------------------------------------------------------------------
(* The actions.                                                              *)

LEMMA InitKept == Init => CInv
<1> SUFFICES ASSUME Init PROVE CInv
  OBVIOUS
<1>1. AgentTypes /\ MonitorsFollowRows
  BY DEF Init, AgentTypes, MonitorsFollowRows, RowState, RunnerState
<1>2. RowTypes
  BY MaxOccIsNat DEF Init, RowTypes, Occ, RowState, Never
<1>3. ASSUME NEW s \in Schedules PROVE Kept(s)
  BY <1>3 DEF Init, Kept, FiresCounted, JobHasRow, PledgeInRow, Waits, Never
<1> QED
  BY <1>1, <1>2, <1>3, Types DEF CInv

LEMMA CreateCronStep == ASSUME CInv, NEW s \in Schedules, CreateCron(s) PROVE CInv'
<1>0. /\ RowTypes /\ AgentTypes /\ up /\ row[s] = "absent" /\ Upcoming(s) # Never
      /\ row' = [row EXCEPT ![s] = "enabled"]
      /\ UNCHANGED <<up, agentVars, clock, lastFire, monVars, runs>>
  BY Types DEF CInv, CreateCron
<1>1. /\ job' \in [Schedules -> Occ] /\ nextFire' \in [Schedules -> Occ]
      /\ pledge' \in [Schedules -> {"none", "armed", "missed"}]
      /\ job'[s] = Upcoming(s) /\ nextFire'[s] = Upcoming(s) /\ pledge'[s] = "armed"
      /\ \A t \in Schedules : t # s => job'[t] = job[t] /\ nextFire'[t] = nextFire[t]
                                       /\ pledge'[t] = pledge[t]
  BY <1>0, UpcomingFacts DEF CreateCron, Arm, Set, RowTypes
<1>2. RowTypes'
  BY <1>0, <1>1 DEF RowTypes, RowState
<1>3. AgentTypes' /\ MonitorsFollowRows'
  BY <1>0 DEF CInv, AgentTypes, MonitorsFollowRows, agentVars, monVars
<1>4. ASSUME NEW t \in Schedules PROVE Kept(t)'
  <2>1. CASE t = s
    BY <1>0, <1>1, <2>1, ArmKept DEF CInv, RowTypes
  <2>2. CASE t # s
    BY <1>0, <1>1, <2>2, SameKept DEF CInv, Same, RowTypes, agentVars
  <2> QED
    BY <2>1, <2>2
<1> QED
  BY <1>2, <1>3, <1>4 DEF CInv, TypeOK, RowTypes, AgentTypes

LEMMA DeleteCronStep == ASSUME CInv, NEW s \in Schedules, DeleteCron(s) PROVE CInv'
<1>0. /\ RowTypes /\ AgentTypes /\ up
      /\ job' = [job EXCEPT ![s] = Never] /\ row' = [row EXCEPT ![s] = "retired"]
      /\ pledge' = [pledge EXCEPT ![s] = "none"]
      /\ UNCHANGED <<up, agentVars, clock, nextFire, lastFire, monVars, runs>>
  BY Types DEF CInv, DeleteCron
<1>2. RowTypes'
  BY <1>0, MaxOccIsNat DEF RowTypes, RowState, Never, Occ
<1>3. AgentTypes' /\ MonitorsFollowRows'
  BY <1>0 DEF CInv, AgentTypes, MonitorsFollowRows, agentVars, monVars
<1>4. ASSUME NEW t \in Schedules PROVE Kept(t)'
  <2>1. CASE t = s
    BY <1>0, <2>1, DisarmKept DEF CInv, RowTypes
  <2>2. CASE t # s
    BY <1>0, <2>2, SameKept DEF CInv, Same, RowTypes, agentVars
  <2> QED
    BY <2>1, <2>2
<1> QED
  BY <1>2, <1>3, <1>4 DEF CInv, TypeOK, RowTypes, AgentTypes

(* A minute passes: what was next is due, and missed if the host is down. *)
LEMMA TickStep == ASSUME CInv, NEW s \in Schedules, Tick(s) PROVE CInv'
<1>0. /\ RowTypes /\ AgentTypes /\ clock[s] < MaxOcc
      /\ clock' = [clock EXCEPT ![s] = @ + 1]
      /\ UNCHANGED <<up, agentVars, rowVars, job, monVars, runs>>
  BY Types DEF CInv, Tick
<1>1. /\ clock[s] \in Nat /\ MaxOcc \in Nat /\ clock[s] + 1 \in Occ
      /\ lastFire[s] \in Nat /\ nextFire[s] \in Nat /\ job[s] \in Nat /\ runs[s] \in Nat
  BY <1>0, Numbers DEF Occ
<1>2. PICK p \in {"none", "armed", "missed"} :
        /\ pledge' = [pledge EXCEPT ![s] = p]
        /\ p = pledge[s] \/ (p = "missed" /\ pledge[s] = "armed")
  BY <1>0 DEF Tick, RowTypes
<1>3. RowTypes'
  BY <1>0, <1>1, <1>2 DEF RowTypes, rowVars
<1>4. AgentTypes' /\ MonitorsFollowRows'
  BY <1>0 DEF CInv, AgentTypes, MonitorsFollowRows, agentVars, monVars
<1>5. ASSUME NEW t \in Schedules PROVE Kept(t)'
  <2>1. CASE t = s
    <3>1. /\ clock'[s] = clock[s] + 1 /\ row'[s] = row[s] /\ nextFire'[s] = nextFire[s]
          /\ lastFire'[s] = lastFire[s] /\ job'[s] = job[s] /\ runs'[s] = runs[s]
          /\ pledge'[s] = p /\ up' = up /\ broken' = broken /\ archived' = archived
      BY <1>0, <1>2 DEF RowTypes, rowVars, agentVars
    <3>2. Kept(s)
      BY DEF CInv
    <3>3. FiresCounted(s)' /\ JobHasRow(s)'
      BY <1>1, <3>1, <3>2 DEF Kept, FiresCounted, JobHasRow
    <3>4. PledgeInRow(s)'
      BY <1>0, <1>1, <1>2, <3>1, <3>2 DEF Kept, PledgeInRow, Overdue
    <3>5. Waits(s)'
      BY <1>0, <1>1, <3>1, <3>2 DEF Kept, Waits
    <3> QED
      BY <2>1, <3>3, <3>4, <3>5 DEF Kept
  <2>2. CASE t # s
    <3>1. Same(t)
      BY <1>0, <1>2, <2>2 DEF Same, RowTypes, rowVars
    <3>2. UNCHANGED <<up, broken, archived>> /\ Kept(t)
      BY <1>0 DEF CInv, agentVars
    <3> QED
      BY <3>1, <3>2, SameKept DEF Kept, JobHasRow
  <2> QED
    BY <2>1, <2>2
<1> QED
  BY <1>3, <1>4, <1>5 DEF CInv, TypeOK, RowTypes, AgentTypes

(* A timer runs, perhaps late: the occurrence it waited for was not served yet. *)
LEMMA CronFiresStep ==
  ASSUME CInv, NEW s \in Schedules, CronFires(s)
  PROVE  /\ CInv'
         /\ lastFire[s] < clock[s] /\ (s \in OneShots => runs[s] = 0)
         /\ \A t \in Schedules : t # s => runs'[t] = runs[t]
<1>0. /\ RowTypes /\ AgentTypes /\ up /\ job[s] # Never /\ job[s] <= clock[s] /\ Kept(s)
      /\ UNCHANGED <<up, agentVars, clock, monVars>>
  BY Types DEF CInv, CronFires
<1>1. /\ clock[s] \in Nat /\ lastFire[s] \in Nat /\ runs[s] \in Nat /\ job[s] \in Nat
      /\ clock[s] <= MaxOcc /\ MaxOcc \in Nat /\ clock[s] \in Occ
      /\ Upcoming(s) \in Occ /\ Never \in Occ
  BY <1>0, Numbers, UpcomingFacts DEF RowTypes, Occ, Never
<1>2. row[s] = "enabled" /\ nextFire[s] = job[s] /\ lastFire[s] < clock[s]
      /\ (s \in OneShots => runs[s] = 0) /\ runs[s] <= lastFire[s]
  BY <1>0, <1>1 DEF Kept, JobHasRow, FiresCounted
<1>3. runs[s] + 1 \in Occ /\ runs[s] + 1 <= clock[s]
  BY <1>1, <1>2 DEF Occ
<1>4. /\ lastFire' = [t \in Schedules |-> IF t = s /\ Fires THEN clock[s] ELSE lastFire[t]]
      /\ runs' = [t \in Schedules |-> IF t = s /\ Fires THEN runs[s] + 1 ELSE runs[t]]
  BY DEF CronFires, Fire
<1>5. /\ lastFire' \in [Schedules -> Occ] /\ runs' \in [Schedules -> Occ]
      /\ \A t \in Schedules : t # s => lastFire'[t] = lastFire[t] /\ runs'[t] = runs[t]
      /\ Fires => lastFire'[s] = clock[s] /\ runs'[s] = runs[s] + 1
      /\ ~Fires => lastFire'[s] = lastFire[s] /\ runs'[s] = runs[s]
  BY <1>0, <1>1, <1>3, <1>4 DEF RowTypes
<1>6. PICK j \in Occ, n \in Occ, r \in RowState, p \in {"none", "armed", "missed"} :
        /\ job' = [job EXCEPT ![s] = j] /\ nextFire' = [nextFire EXCEPT ![s] = n]
        /\ row' = [row EXCEPT ![s] = r] /\ pledge' = [pledge EXCEPT ![s] = p]
        /\ IF s \in Recurring
           THEN j = Upcoming(s) /\ n = Upcoming(s) /\ r = row[s] /\ p = "armed"
           ELSE /\ j = Never /\ n = nextFire[s]
                /\ r = IF Fires THEN "retired" ELSE row[s]
                /\ p = IF Fires THEN "none" ELSE "missed"
  <2>1. CASE s \in Recurring
    <3>1. s \notin OneShots /\ After(s) = Upcoming(s)
      BY <2>1 DEF Recurring, After
    <3>2. row' = [row EXCEPT ![s] = row[s]]
      BY <1>0, <3>1 DEF CronFires, RowTypes
    <3> QED
      BY <1>0, <1>1, <2>1, <3>1, <3>2 DEF CronFires, RowTypes
  <2>2. CASE s \notin Recurring
    <3>1. s \in OneShots /\ After(s) = Never
      BY <2>2 DEF Recurring, After
    <3>2. nextFire' = [nextFire EXCEPT ![s] = nextFire[s]]
      BY <1>0, <2>2 DEF CronFires, RowTypes
    <3>3. row' = [row EXCEPT ![s] = IF Fires THEN "retired" ELSE row[s]]
      BY <1>0, <3>1 DEF CronFires, RowTypes
    <3> QED
      BY <1>0, <1>1, <2>2, <3>1, <3>2, <3>3, ZenonT(60) DEF CronFires, RowTypes, RowState
  <2> QED
    BY <2>1, <2>2
<1>7. /\ job'[s] = j /\ nextFire'[s] = n /\ row'[s] = r /\ pledge'[s] = p
      /\ \A t \in Schedules : t # s => job'[t] = job[t] /\ nextFire'[t] = nextFire[t]
                                       /\ row'[t] = row[t] /\ pledge'[t] = pledge[t]
      /\ job' \in [Schedules -> Occ] /\ nextFire' \in [Schedules -> Occ]
      /\ row' \in [Schedules -> RowState]
      /\ pledge' \in [Schedules -> {"none", "armed", "missed"}]
  BY <1>0, <1>6 DEF RowTypes
<1>8. RowTypes'
  BY <1>0, <1>5, <1>7 DEF RowTypes
<1>9. AgentTypes' /\ MonitorsFollowRows'
  BY <1>0 DEF CInv, AgentTypes, MonitorsFollowRows, agentVars, monVars
<1>10. ASSUME NEW t \in Schedules PROVE Kept(t)'
  <2>1. CASE t # s
    BY <1>0, <1>5, <1>7, <2>1, SameKept DEF CInv, Same, RowTypes, agentVars
  <2>2. CASE t = s /\ s \in Recurring
    BY <1>0, <1>2, <1>5, <1>6, <1>7, <2>2, ArmKept DEF Recurring
  <2>3. CASE t = s /\ s \notin Recurring
    <3>0. /\ s \in OneShots /\ job'[s] = Never /\ nextFire'[s] = nextFire[s]
          /\ nextFire[s] # Never /\ nextFire[s] <= clock[s] /\ clock'[s] = clock[s]
          /\ row'[s] = (IF Fires THEN "retired" ELSE "enabled")
          /\ pledge'[s] = (IF Fires THEN "none" ELSE "missed")
      BY <1>0, <1>2, <1>6, <1>7, <2>3 DEF Recurring
    <3>1. CASE Fires
      <4>1. FiresCounted(s)'
        BY <1>1, <1>3, <1>5, <3>0, <3>1 DEF FiresCounted
      <4> QED
        BY <2>3, <3>0, <3>1, <4>1 DEF Kept, JobHasRow, PledgeInRow, Waits
    <3>2. CASE ~Fires
      BY <1>0, <1>2, <1>5, <2>3, <3>0, <3>2
      DEF Kept, FiresCounted, JobHasRow, PledgeInRow, Waits, Overdue, Recurring
    <3> QED
      BY <3>1, <3>2
  <2> QED
    BY <2>1, <2>2, <2>3
<1> QED
  BY <1>2, <1>5, <1>8, <1>9, <1>10 DEF CInv, TypeOK, RowTypes, AgentTypes

(* The monitors' own steps, and the budget. *)
LEMMA MonitorStep ==
  ASSUME CInv,
         \/ \E m \in Monitors : CreateMonitor(m) \/ StopMonitor(m) \/ ChildExits(m)
                                \/ ChildRestarts(m) \/ SpawnFails(m)
         \/ BudgetChanges
  PROVE  CInv'
<1>0. /\ RowTypes /\ AgentTypes /\ MonitorsFollowRows
      /\ UNCHANGED <<up, broken, archived, clock, rowVars, job, history>>
  BY Types DEF CInv, CreateMonitor, StopMonitor, ChildExits, ChildRestarts, SpawnFails,
               BudgetChanges, agentVars
<1>1. RowTypes'
  BY <1>0 DEF RowTypes, rowVars, history
<1>2. AgentTypes'
  BY <1>0 DEF AgentTypes, CreateMonitor, StopMonitor, ChildExits, ChildRestarts, SpawnFails,
              BudgetChanges, agentVars, monVars, RowState, RunnerState
<1>3. MonitorsFollowRows'
  BY <1>0 DEF MonitorsFollowRows, AgentTypes, CreateMonitor, StopMonitor, ChildExits,
              ChildRestarts, SpawnFails, BudgetChanges, agentVars, monVars, RowState, RunnerState
<1>4. ASSUME NEW t \in Schedules PROVE Kept(t)'
  BY <1>0, SameKept DEF CInv, Same, rowVars, history, JobHasRow, Kept
<1> QED
  BY <1>1, <1>2, <1>3, <1>4 DEF CInv, TypeOK, RowTypes, AgentTypes


(* The writer turns BROKEN: timers and children stop. *)
LEMMA BreakStep == ASSUME CInv, Break PROVE CInv'
<1>0. /\ RowTypes /\ AgentTypes /\ up /\ broken' = TRUE
      /\ job' = [s \in Schedules |-> Never]
      /\ runner' = [m \in Monitors |-> "none"]
      /\ UNCHANGED <<up, archived, paused, clock, row, lastFire, mon, runs>>
  BY Types DEF CInv, Break
<1>1. /\ nextFire' \in [Schedules -> Occ]
      /\ pledge' \in [Schedules -> {"none", "armed", "missed"}]
      /\ \A s \in Schedules :
           /\ nextFire'[s] = IF s \in Recurring THEN Never ELSE nextFire[s]
           /\ pledge'[s] = IF s \in Recurring THEN "none" ELSE pledge[s]
  <2>1. Never \in Occ
    BY MaxOccIsNat DEF Occ, Never
  <2> QED
    BY <1>0, <2>1 DEF Set, Break, Forgotten, RowTypes
<1>2. RowTypes'
  BY <1>0, <1>1, MaxOccIsNat DEF RowTypes, Occ, Never
<1>3. AgentTypes' /\ MonitorsFollowRows'
  BY <1>0 DEF AgentTypes, MonitorsFollowRows, RunnerState
<1>4. ASSUME NEW s \in Schedules PROVE Kept(s)'
  BY <1>0, <1>1, DisarmKept DEF CInv, Recurring
<1> QED
  BY <1>2, <1>3, <1>4 DEF CInv, TypeOK, RowTypes, AgentTypes

(* A restart takes it out of BROKEN: every enabled row is armed again. *)
LEMMA RecoverStep == ASSUME CInv, Recover PROVE CInv'
<1>0. /\ RowTypes /\ AgentTypes /\ MonitorsFollowRows /\ up /\ broken /\ broken' = FALSE
      /\ UNCHANGED <<up, archived, paused, clock, row, lastFire, mon, runs>>
  BY Types DEF CInv, Recover
<1>1. CASE archived
  <2>1. UNCHANGED <<job, nextFire, pledge, runner>>
    BY <1>1 DEF Recover
  <2>2. RowTypes' /\ AgentTypes' /\ MonitorsFollowRows'
    BY <1>0, <1>1, <2>1 DEF RowTypes, AgentTypes, MonitorsFollowRows
  <2>3. ASSUME NEW s \in Schedules PROVE Kept(s)'
    BY <1>0, <1>1, <2>1, SameKept DEF CInv, Same
  <2> QED
    BY <2>2, <2>3 DEF CInv, TypeOK, RowTypes, AgentTypes
<1>2. CASE ~archived
  <2>1. Arm(Enabled) /\ runner' = Set(runner, ToRestart, "child")
    BY <1>2 DEF Recover
  <2>2. /\ job' \in [Schedules -> Occ] /\ nextFire' \in [Schedules -> Occ]
        /\ pledge' \in [Schedules -> {"none", "armed", "missed"}]
        /\ \A s \in Schedules :
             IF row[s] = "enabled"
             THEN job'[s] = Upcoming(s) /\ nextFire'[s] = Upcoming(s) /\ pledge'[s] = "armed"
             ELSE job'[s] = job[s] /\ nextFire'[s] = nextFire[s] /\ pledge'[s] = pledge[s]
    BY <1>0, <2>1, UpcomingFacts DEF Set, Arm, Enabled, RowTypes
  <2>3. /\ runner' \in [Monitors -> RunnerState]
        /\ \A m \in Monitors :
             runner'[m] = IF mon[m] = "enabled" /\ runner[m] = "none" THEN "child" ELSE runner[m]
    BY <1>0, <2>1 DEF Set, AgentTypes, RunnerState, ToRestart, EnabledMonitors
  <2>4. RowTypes' /\ AgentTypes'
    BY <1>0, <2>2, <2>3 DEF RowTypes, AgentTypes
  <2>5. MonitorsFollowRows'
    BY <1>0, <1>2, <2>3 DEF MonitorsFollowRows
  <2>6. ASSUME NEW s \in Schedules PROVE Kept(s)'
    <3>1. CASE row[s] = "enabled"
      BY <1>0, <2>2, <3>1, ArmKept DEF CInv
    <3>2. CASE row[s] # "enabled"
      BY <1>0, <2>2, <3>2
      DEF CInv, Kept, FiresCounted, JobHasRow, PledgeInRow, Waits
    <3> QED
      BY <3>1, <3>2
  <2> QED
    BY <2>4, <2>5, <2>6 DEF CInv, TypeOK, RowTypes, AgentTypes
<1> QED
  BY <1>1, <1>2

(* The agent is removed: every enabled row is retired. *)
LEMMA ArchiveStep == ASSUME CInv, Archive PROVE CInv'
<1>0. /\ RowTypes /\ AgentTypes /\ up /\ archived' = TRUE
      /\ job' = [s \in Schedules |-> Never]
      /\ runner' = [m \in Monitors |-> "none"]
      /\ pledge' = [s \in Schedules |-> "none"]
      /\ UNCHANGED <<up, broken, paused, clock, nextFire, lastFire, runs>>
  BY Types DEF CInv, Archive
<1>1. /\ row' \in [Schedules -> RowState] /\ mon' \in [Monitors -> RowState]
      /\ \A s \in Schedules : row'[s] = IF row[s] = "enabled" THEN "retired" ELSE row[s]
  BY <1>0 DEF Set, Archive, RowTypes, AgentTypes, RowState, Enabled, EnabledMonitors
<1>2. RowTypes'
  BY <1>0, <1>1, MaxOccIsNat DEF RowTypes, Occ, Never
<1>3. AgentTypes' /\ MonitorsFollowRows'
  BY <1>0, <1>1 DEF AgentTypes, MonitorsFollowRows, RunnerState
<1>4. ASSUME NEW s \in Schedules PROVE Kept(s)'
  BY <1>0, <1>1, DisarmKept DEF CInv
<1> QED
  BY <1>2, <1>3, <1>4 DEF CInv, TypeOK, RowTypes, AgentTypes

(* The host goes away: what it had in memory is gone, the rows stay. *)
LEMMA HostStopsStep == ASSUME CInv, HostStops PROVE CInv'
<1>0. /\ RowTypes /\ AgentTypes /\ up' = FALSE
      /\ job' = [s \in Schedules |-> Never]
      /\ runner' = [m \in Monitors |-> "none"]
      /\ pledge' = [s \in Schedules |-> IF job[s] # Never /\ job[s] <= clock[s]
                                        THEN "missed" ELSE pledge[s]]
      /\ UNCHANGED <<agentVars, clock, rowVars, mon, runs>>
  BY Types DEF CInv, HostStops
<1>1. RowTypes'
  BY <1>0, MaxOccIsNat DEF RowTypes, Occ, Never, rowVars
<1>2. AgentTypes' /\ MonitorsFollowRows'
  BY <1>0 DEF AgentTypes, MonitorsFollowRows, RunnerState, agentVars
<1>3. ASSUME NEW s \in Schedules PROVE Kept(s)'
  <2>1. /\ Kept(s) /\ job'[s] = Never
        /\ pledge'[s] = IF job[s] # Never /\ job[s] <= clock[s] THEN "missed" ELSE pledge[s]
    BY <1>0 DEF CInv
  <2> QED
    BY <1>0, <2>1, DisarmKept DEF rowVars
<1> QED
  BY <1>1, <1>2, <1>3 DEF CInv, TypeOK, RowTypes, AgentTypes

-----------------------------------------------------------------------------
(* The host comes back.                                                      *)

(* A row that has no timer and is left as it is. *)
LEMMA RestKept ==
  ASSUME NEW s, Kept(s), Same(s), job[s] = Never,
         row[s] # "enabled" \/ s \in OneShots \/ broken' \/ archived'
  PROVE  Kept(s)'
  BY DEF Kept, Same, FiresCounted, JobHasRow, PledgeInRow, Waits, Overdue, Recurring

(* What is due was not served yet. *)
LEMMA DueUnserved ==
  ASSUME RowTypes, NEW s \in Schedules, Kept(s), s \in Enabled, Overdue(s)
  PROVE  /\ lastFire[s] < clock[s] /\ runs[s] + 1 <= clock[s] /\ runs[s] + 1 \in Occ
         /\ s \in OneShots => runs[s] = 0
<1>1. /\ clock[s] \in Nat /\ clock[s] <= MaxOcc /\ lastFire[s] \in Nat /\ runs[s] \in Nat
      /\ nextFire[s] \in Nat /\ MaxOcc \in Nat
  BY Numbers
<1>2. row[s] = "enabled" /\ nextFire[s] # Never /\ nextFire[s] <= clock[s]
  BY DEF Enabled, Overdue
<1>3. lastFire[s] < nextFire[s] /\ runs[s] <= lastFire[s] /\ (s \in OneShots => runs[s] = 0)
  BY <1>2 DEF Kept, JobHasRow, FiresCounted
<1> QED
  BY <1>1, <1>2, <1>3 DEF Occ

(* The sweep of a boot, over the rows of an agent that is gone, of one that is broken
   and of one that can run. *)
LEMMA BootArchivedStep ==
  ASSUME CInv, ~up, up', archived, BootArchived, UNCHANGED <<archived, clock>>,
         broken' \in BOOLEAN
  PROVE  CInv'
<1>0. /\ RowTypes /\ AgentTypes /\ MonitorsFollowRows
      /\ UNCHANGED <<paused, nextFire, lastFire, job, runner, runs, pledge>>
  BY Types DEF CInv, BootArchived, history
<1>1. /\ row' \in [Schedules -> RowState] /\ mon' \in [Monitors -> RowState]
      /\ \A s \in Schedules : row'[s] = IF row[s] = "enabled" THEN "absent" ELSE row[s]
  BY <1>0 DEF Set, BootArchived, RowTypes, AgentTypes, RowState, Enabled, EnabledMonitors
<1>2. RowTypes' /\ AgentTypes' /\ MonitorsFollowRows'
  BY <1>0, <1>1 DEF RowTypes, AgentTypes, MonitorsFollowRows
<1>3. ASSUME NEW s \in Schedules PROVE Kept(s)'
  <2>1. Kept(s) /\ job[s] = Never
    BY DEF CInv, Kept, JobHasRow
  <2> QED
    BY <1>0, <1>1, <2>1, DisarmKept
<1> QED
  BY <1>2, <1>3 DEF CInv, TypeOK, RowTypes, AgentTypes

LEMMA BootBrokenStep ==
  ASSUME CInv, ~up, up', broken',  broken' \in BOOLEAN, ~archived,
         UNCHANGED <<archived, clock, paused, rowVars, job, monVars, history>>
  PROVE  CInv'
<1>0. /\ RowTypes /\ AgentTypes /\ MonitorsFollowRows
  BY Types DEF CInv
<1>1. RowTypes' /\ AgentTypes' /\ MonitorsFollowRows'
  BY <1>0 DEF RowTypes, AgentTypes, MonitorsFollowRows, rowVars, monVars, history
<1>2. ASSUME NEW s \in Schedules PROVE Kept(s)'
  <2>1. Kept(s) /\ job[s] = Never /\ Same(s)
    BY DEF CInv, Kept, JobHasRow, Same, rowVars, history
  <2> QED
    BY <2>1, RestKept
<1> QED
  BY <1>1, <1>2 DEF CInv, TypeOK, RowTypes, AgentTypes

LEMMA BootRunnableStep ==
  ASSUME CInv, ~up, up', ~archived, ~broken', broken' \in BOOLEAN, BootRunnable,
         UNCHANGED <<archived, clock>>
  PROVE  /\ CInv'
         /\ \A s \in Schedules : runs'[s] # runs[s] =>
              lastFire[s] < clock[s] /\ (s \in OneShots => runs[s] = 0)
         /\ ~paused /\ ~paused' =>
              \A s \in Enabled : Overdue(s) => runs'[s] = runs[s] + 1
<1> DEFINE due == {s \in Enabled : Overdue(s)}
           armed == Enabled \ (due \cap OneShots)
<1>0. /\ RowTypes /\ AgentTypes /\ MonitorsFollowRows /\ UNCHANGED mon
      /\ runner' = Set(runner, EnabledMonitors, "child")
  BY Types DEF CInv, BootRunnable
<1>1. PICK fired \in SUBSET due :
        /\ IF paused THEN fired = {} /\ paused' = paused
           ELSE IF fired = due THEN paused' \in BOOLEAN
           ELSE fired # {} /\ paused' = TRUE
        /\ Fire(fired)
        /\ row' = Set(row, fired \cap OneShots, "retired")
        /\ job' = [s \in Schedules |-> IF s \in armed THEN Upcoming(s) ELSE job[s]]
        /\ nextFire' = [s \in Schedules |-> IF s \in armed THEN Upcoming(s) ELSE nextFire[s]]
        /\ pledge' = Set(Set(pledge, armed, "armed"), fired \cap OneShots, "none")
  BY DEF BootRunnable
<1>2. paused' \in BOOLEAN
  BY <1>0, <1>1 DEF AgentTypes
<1>3. ASSUME NEW s \in Schedules
      PROVE  /\ s \in fired => s \in Enabled /\ Overdue(s) /\ lastFire[s] < clock[s]
                  /\ runs[s] + 1 <= clock[s] /\ runs[s] + 1 \in Occ
                  /\ (s \in OneShots => runs[s] = 0)
             /\ lastFire'[s] = (IF s \in fired THEN clock[s] ELSE lastFire[s])
             /\ runs'[s] = (IF s \in fired THEN runs[s] + 1 ELSE runs[s])
  BY <1>0, <1>1, DueUnserved DEF Fire, CInv
<1>4. lastFire' \in [Schedules -> Occ] /\ runs' \in [Schedules -> Occ]
  BY <1>0, <1>1, <1>3 DEF Fire, RowTypes
<1>5. /\ job' \in [Schedules -> Occ] /\ nextFire' \in [Schedules -> Occ]
      /\ \A s \in Schedules :
           IF s \in armed THEN job'[s] = Upcoming(s) /\ nextFire'[s] = Upcoming(s)
           ELSE job'[s] = job[s] /\ nextFire'[s] = nextFire[s]
  BY <1>0, <1>1, UpcomingFacts DEF RowTypes
<1>6. /\ row' \in [Schedules -> RowState]
      /\ \A s \in Schedules :
           row'[s] = IF s \in fired \cap OneShots THEN "retired" ELSE row[s]
  BY <1>0, <1>1 DEF Set, RowTypes, RowState
<1>7. /\ pledge' \in [Schedules -> {"none", "armed", "missed"}]
      /\ \A s \in Schedules :
           pledge'[s] = IF s \in fired \cap OneShots THEN "none"
                        ELSE IF s \in armed THEN "armed" ELSE pledge[s]
  <2>1. PICK q : q = Set(pledge, armed, "armed")
    OBVIOUS
  <2>2. /\ q \in [Schedules -> {"none", "armed", "missed"}]
        /\ \A s \in Schedules : q[s] = IF s \in armed THEN "armed" ELSE pledge[s]
    BY <1>0, <2>1 DEF Set, RowTypes
  <2>3. pledge' = Set(q, fired \cap OneShots, "none")
    BY <1>1, <2>1
  <2> QED
    BY <2>2, <2>3 DEF Set
<1>8. RowTypes'
  BY <1>0, <1>4, <1>5, <1>6, <1>7 DEF RowTypes
<1>9. /\ runner' \in [Monitors -> RunnerState]
      /\ \A m \in Monitors : runner'[m] = IF mon[m] = "enabled" THEN "child" ELSE runner[m]
  BY <1>0 DEF Set, AgentTypes, RunnerState, EnabledMonitors
<1>10. AgentTypes' /\ MonitorsFollowRows'
  BY <1>0, <1>2, <1>9 DEF AgentTypes, MonitorsFollowRows
<1>11. ASSUME NEW s \in Schedules PROVE Kept(s)'
  <2>1. Kept(s) /\ job[s] = Never
    BY <1>11 DEF CInv, Kept, JobHasRow
  <2>2. CASE s \in armed
    <3>1. s \notin fired \cap OneShots /\ row[s] = "enabled"
      BY <2>2, <1>1 DEF Enabled
    <3>2. /\ row'[s] = "enabled" /\ row[s] # "retired" /\ pledge'[s] = "armed"
          /\ job'[s] = Upcoming(s) /\ nextFire'[s] = Upcoming(s) /\ clock'[s] = clock[s]
      BY <1>5, <1>6, <1>7, <2>2, <3>1
    <3>3. \/ lastFire'[s] = lastFire[s] /\ runs'[s] = runs[s]
          \/ /\ lastFire[s] < clock[s] /\ s \notin OneShots
             /\ lastFire'[s] = clock[s] /\ runs'[s] = runs[s] + 1
      BY <1>3, <3>1
    <3> QED
      BY <1>0, <2>1, <3>2, <3>3, ArmKept
  <2>3. CASE s \notin armed /\ s \in fired
    <3>1. s \in OneShots /\ row'[s] = "retired" /\ job'[s] = Never
      BY <1>1, <1>5, <1>6, <2>1, <2>3
    <3>2. clock[s] \in Nat /\ clock'[s] = clock[s]
      BY <1>0, Numbers
    <3>3. FiresCounted(s)'
      BY <1>3, <2>3, <3>1, <3>2 DEF FiresCounted
    <3> QED
      BY <3>1, <3>3 DEF Kept, JobHasRow, PledgeInRow, Waits
  <2>4. CASE s \notin armed /\ s \notin fired
    <3>1. Same(s)
      BY <1>3, <1>5, <1>6, <1>7, <2>4 DEF Same
    <3>2. row[s] # "enabled" \/ s \in OneShots
      BY <2>4 DEF Enabled
    <3> QED
      BY <2>1, <3>1, <3>2, RestKept
  <2> QED
    BY <2>2, <2>3, <2>4
<1>12. ~paused /\ ~paused' => fired = due
  BY <1>1
<1>13. \A s \in Schedules : runs'[s] # runs[s] =>
         lastFire[s] < clock[s] /\ (s \in OneShots => runs[s] = 0)
  BY <1>3
<1>14. ~paused /\ ~paused' => \A s \in Enabled : Overdue(s) => runs'[s] = runs[s] + 1
  BY <1>3, <1>12 DEF Enabled
<1> QED
  BY <1>8, <1>10, <1>11, <1>13, <1>14 DEF CInv, TypeOK, RowTypes, AgentTypes

(* What a boot does about fires: nothing is served twice, and what was due is caught
   up if the turns allow it. *)
FiresWell ==
  /\ \A s \in Schedules : runs'[s] # runs[s] =>
       lastFire[s] < clock[s] /\ (s \in OneShots => runs[s] = 0)
  /\ ~broken' /\ ~archived' /\ ~paused /\ ~paused' =>
       \A s \in Enabled : Overdue(s) => runs'[s] = runs[s] + 1

LEMMA BootStep == ASSUME CInv, NEW b \in BOOLEAN, Boot(b) PROVE CInv' /\ FiresWell
<1>0. ~up /\ up' /\ broken' = b /\ broken' \in BOOLEAN /\ UNCHANGED <<archived, clock>>
  BY DEF Boot
<1>1. CASE archived /\ BootArchived
  <2>1. CInv'
    BY <1>0, <1>1, BootArchivedStep
  <2>2. UNCHANGED runs /\ archived'
    BY <1>0, <1>1 DEF BootArchived, history
  <2> QED
    BY <2>1, <2>2 DEF FiresWell
<1>2. CASE ~archived /\ b /\ UNCHANGED <<paused, rowVars, job, monVars, history>>
  <2>1. CInv'
    BY <1>0, <1>2, BootBrokenStep
  <2>2. UNCHANGED runs /\ broken'
    BY <1>0, <1>2 DEF history
  <2> QED
    BY <2>1, <2>2 DEF FiresWell
<1>3. CASE ~archived /\ ~b /\ BootRunnable
  BY <1>0, <1>3, BootRunnableStep DEF FiresWell
<1> QED
  BY <1>1, <1>2, <1>3 DEF Boot

-----------------------------------------------------------------------------
(* The specification.                                                        *)

LEMMA CronStep == CInv /\ [Next]_vars => CInv'
<1> SUFFICES ASSUME CInv, [Next]_vars PROVE CInv'
  OBVIOUS
<1>1. ASSUME NEW s \in Schedules,
             CreateCron(s) \/ DeleteCron(s) \/ Tick(s) \/ CronFires(s)
      PROVE  CInv'
  BY <1>1, CreateCronStep, DeleteCronStep, TickStep, CronFiresStep
<1>2. CASE \/ \E m \in Monitors : CreateMonitor(m) \/ StopMonitor(m) \/ ChildExits(m)
                                  \/ ChildRestarts(m) \/ SpawnFails(m)
           \/ BudgetChanges
  BY <1>2, MonitorStep
<1>3. CASE Break \/ Recover \/ Archive \/ HostStops
  BY <1>3, BreakStep, RecoverStep, ArchiveStep, HostStopsStep
<1>4. ASSUME NEW b \in BOOLEAN, Boot(b) PROVE CInv'
  BY <1>4, BootStep
<1>5. CASE UNCHANGED vars
  BY <1>5 DEF vars, agentVars, rowVars, monVars, history, CInv, TypeOK, Kept, FiresCounted,
              JobHasRow, PledgeInRow, Waits, Overdue, MonitorsFollowRows
<1> QED
  BY <1>1, <1>2, <1>3, <1>4, <1>5 DEF Next

(* The schedules' inductive invariant holds in every behaviour: rows, timers, what was
   promised and what was served agree, schedule by schedule. *)
THEOREM SchedulesInductive == Spec => []CInv
  BY InitKept, CronStep, PTL DEF Spec

(* Timers, one-shots and supervised monitors follow their rows whatever breaks,
   recoveries, archivings, crashes and boots came before (Scheduler.start, armCron,
   disarmAgent, rearmAgent). *)
THEOREM HostFollows == Spec => []HostFollowsRows
<1>1. CInv => HostFollowsRows
  <2> SUFFICES ASSUME CInv PROVE HostFollowsRows
    OBVIOUS
  <2>1. ArmedForNext
    BY DEF CInv, Kept, Waits, ArmedForNext, Enabled, Recurring
  <2>2. OneShotKept
    BY DEF CInv, Kept, Waits, OneShotKept, Enabled
  <2> QED
    BY <2>1, <2>2 DEF CInv, HostFollowsRows
<1> QED
  BY <1>1, SchedulesInductive, PTL

(* No occurrence wakes the agent twice, a one-shot wakes it once, and what was missed
   while the host was down is caught up by the next boot that finds the agent able to
   run (Scheduler.start, markCronFired). *)
THEOREM OccurrenceServedOnce == Spec => FiresExactlyOnce
<1> DEFINE Twice == \A s \in Schedules : runs'[s] # runs[s] =>
                      /\ lastFire[s] < clock[s]
                      /\ s \in OneShots => runs[s] = 0
           Caught == \A s \in Schedules :
                      /\ ~up /\ up' /\ ~broken' /\ ~archived' /\ ~paused /\ ~paused'
                      /\ row[s] = "enabled" /\ pledge[s] = "missed"
                      => runs'[s] = runs[s] + 1
<1>1. CInv /\ [Next]_vars => [Twice]_vars /\ [Caught]_vars
  <2> SUFFICES ASSUME CInv, Next PROVE Twice /\ Caught
    OBVIOUS
  <2>1. ASSUME NEW s \in Schedules, CronFires(s) PROVE Twice /\ Caught
    <3>1. up
      BY <2>1 DEF CronFires
    <3> QED
      BY <2>1, <3>1, CronFiresStep
  <2>2. ASSUME NEW b \in BOOLEAN, Boot(b) PROVE Twice /\ Caught
    <3>1. FiresWell
      BY <2>2, BootStep
    <3>2. \A s \in Schedules : row[s] = "enabled" /\ pledge[s] = "missed" =>
            s \in Enabled /\ Overdue(s)
      BY DEF CInv, Kept, PledgeInRow, Enabled
    <3> QED
      BY <3>1, <3>2 DEF FiresWell
  <2>3. ASSUME NEW s \in Schedules, CreateCron(s) \/ DeleteCron(s) \/ Tick(s)
        PROVE  Twice /\ Caught
    <3>1. UNCHANGED <<up, runs>>
      BY <2>3 DEF CreateCron, DeleteCron, Tick
    <3> QED
      BY <3>1
  <2>4. CASE \/ \E m \in Monitors : CreateMonitor(m) \/ StopMonitor(m) \/ ChildExits(m)
                                    \/ ChildRestarts(m) \/ SpawnFails(m)
             \/ BudgetChanges \/ Break \/ Recover \/ Archive
    <3>1. UNCHANGED <<up, runs>>
      BY <2>4 DEF CreateMonitor, StopMonitor, ChildExits, ChildRestarts, SpawnFails,
                  BudgetChanges, Break, Recover, Archive, history
    <3> QED
      BY <3>1
  <2>5. CASE HostStops
    <3>1. UNCHANGED runs /\ ~up'
      BY <2>5 DEF HostStops
    <3> QED
      BY <3>1
  <2> QED
    BY <2>1, <2>2, <2>3, <2>4, <2>5 DEF Next
<1> QED
  BY <1>1, SchedulesInductive, PTL DEF Spec, FiresExactlyOnce, NoDoubleFire, MissedIsCaughtUp

-----------------------------------------------------------------------------
(* SleepGuard: the assertions held for the headless runs. *)

Guards == [run : [Writers -> {"none", "headless"}], release : [Writers -> Nat],
           held : SUBSET Nat, powerd : SUBSET Nat]

(* The assertions the writers can release. *)
Claimed(g) == {g.release[w] : w \in Writers} \ {Sleep!NoId}

(* Every release belongs to a run in flight and to one writer, and was created:
   so a release never takes another run's assertion, and a created one is new. *)
ClaimsSound(g, n) ==
  /\ g \in Guards
  /\ \A w \in Writers : g.release[w] <= n /\ (g.run[w] = "none" => g.release[w] = Sleep!NoId)
  /\ \A w, v \in Writers : g.release[w] = g.release[v] => w = v \/ g.release[w] = Sleep!NoId

(* The guard's table and powerd's agree with the writers. *)
BooksSound(g, out) == g.held = Claimed(g) /\ g.powerd = Claimed(g) \ out

Sound(g, n, out) == ClaimsSound(g, n) /\ BooksSound(g, out)

GuardInv ==
  /\ made \in Nat
  /\ \A id \in lapsed : id \in Nat /\ id <= made
  /\ Sound(guard, made, lapsed)

-----------------------------------------------------------------------------
(* The operators on guards *)

(* A writer that starts has nothing to release yet. *)
LEMMA RunSound ==
  ASSUME NEW g, NEW n \in Nat, NEW out, Sound(g, n, out),
         NEW w \in Writers, NEW r \in {"none", "headless"},
         r = "none" => g.release[w] = Sleep!NoId
  PROVE  Sound([g EXCEPT !.run[w] = r], n, out)
<1> DEFINE h == [g EXCEPT !.run[w] = r]
<1>0. g \in Guards
  BY DEF Sound, ClaimsSound
<1>1. /\ h \in Guards /\ h.release = g.release /\ h.held = g.held /\ h.powerd = g.powerd
      /\ \A v \in Writers : h.run[v] = IF v = w THEN r ELSE g.run[v]
  BY <1>0 DEF Guards
<1> HIDE DEF h
<1>2. ClaimsSound(h, n)
  BY <1>1 DEF Sound, ClaimsSound
<1>3. BooksSound(h, out)
  BY <1>1 DEF Sound, BooksSound, Claimed
<1> QED
  BY <1>2, <1>3 DEF h, Sound

(* A release takes the writer's own assertion and no other. *)
LEMMA ReleaseSound ==
  ASSUME NEW g, NEW n \in Nat, NEW out, Sound(g, n, out), NEW w \in Writers
  PROVE  /\ Sound(Sleep!ReleasedSleep(g, w), n, out)
         /\ Sleep!ReleasedSleep(g, w).release[w] = Sleep!NoId /\ Sleep!ReleasedSleep(g, w).run = g.run
<1> DEFINE h == Sleep!ReleasedSleep(g, w)
<1>0. g \in Guards
  BY DEF Sound, ClaimsSound
<1>1. /\ h \in Guards /\ h.run = g.run
      /\ h.held = g.held \ {g.release[w]} /\ h.powerd = g.powerd \ {g.release[w]}
      /\ \A v \in Writers : h.release[v] = IF v = w THEN Sleep!NoId ELSE g.release[v]
  BY <1>0 DEF Guards, Sleep!ReleasedSleep, Sleep!Dropped, Sleep!NoId
<1> HIDE DEF h
<1>2. ClaimsSound(h, n)
  BY <1>1 DEF Sound, ClaimsSound, Sleep!NoId
<1>3. Claimed(h) = Claimed(g) \ {g.release[w]}
  BY <1>1 DEF Sound, ClaimsSound, Claimed
<1>4. BooksSound(h, out)
  BY <1>1, <1>3 DEF Sound, BooksSound
<1> QED
  BY <1>1, <1>2, <1>4 DEF h, Sound

(* The audit finds no leak. *)
LEMMA AuditSound ==
  ASSUME NEW g, NEW n \in Nat, NEW out, Sound(g, n, out)
  PROVE  Sound(Sleep!Audited(g), n, out) /\ Sleep!Audited(g).run = g.run /\ Sleep!Audited(g).release = g.release
<1>0. g \in Guards
  BY DEF Sound, ClaimsSound
<1>1. CASE Sleep!Running(g) = {}
  <2>1. \A w \in Writers : g.run[w] = "none"
    BY <1>0, <1>1 DEF Sleep!Running, Guards
  <2>2. Claimed(g) = {}
    BY <2>1 DEF Claimed, Sound, ClaimsSound
  <2>3. Sleep!Dropped(g, g.held) = g
    BY <1>0, <2>2 DEF Sleep!Dropped, Guards, Sound, BooksSound
  <2> QED
    BY <1>1, <2>3 DEF Sleep!Audited
<1>2. CASE Sleep!Running(g) # {}
  BY <1>2 DEF Sleep!Audited
<1> QED
  BY <1>1, <1>2

(* Nothing is held for a run whose assertion could not be created... *)
LEMMA HoldNothing ==
  ASSUME NEW g, NEW n \in Nat, NEW out, Sound(g, n, out), NEW w \in Writers, g.release[w] = Sleep!NoId
  PROVE  Sound(Sleep!Holding(g, w, Sleep!NoId), n, out)
<1>0. g \in Guards
  BY DEF Sound, ClaimsSound
<1>1. Sleep!Holding(g, w, Sleep!NoId) = g
  BY <1>0 DEF Sleep!Holding, Guards
<1> QED
  BY <1>1

(* ... and a created one is nobody's yet, and has not lapsed. *)
LEMMA HoldNew ==
  ASSUME NEW g, NEW n \in Nat, NEW out, Sound(g, n, out), \A id \in out : id \in Nat /\ id <= n,
         NEW w \in Writers, g.release[w] = Sleep!NoId, g.run[w] = "headless"
  PROVE  Sound(Sleep!Holding(g, w, n + 1), n + 1, out)
<1> DEFINE h == Sleep!Holding(g, w, n + 1)
<1>0. g \in Guards
  BY DEF Sound, ClaimsSound
<1>n. n + 1 \in Nat /\ n + 1 # Sleep!NoId
  BY DEF Sleep!NoId
<1>1. /\ h \in Guards /\ h.run = g.run
      /\ h.held = g.held \cup {n + 1} /\ h.powerd = g.powerd \cup {n + 1}
      /\ \A v \in Writers : h.release[v] = IF v = w THEN n + 1 ELSE g.release[v]
  <2>1. {n + 1} \ {Sleep!NoId} = {n + 1}
    BY <1>n
  <2>2. h = [g EXCEPT !.release[w] = n + 1, !.held = @ \cup {n + 1}, !.powerd = @ \cup {n + 1}]
    BY <2>1 DEF Sleep!Holding
  <2> HIDE DEF h
  <2> QED
    BY <1>0, <1>n, <2>2 DEF Guards
<1> HIDE DEF h
<1>2. \A v \in Writers : g.release[v] \in Nat /\ g.release[v] <= n /\ g.release[v] # n + 1
  BY <1>0 DEF Sound, ClaimsSound, Guards
<1>3. ClaimsSound(h, n + 1)
  <2>1. \A v \in Writers : h.release[v] <= n + 1 /\ (h.run[v] = "none" => h.release[v] = Sleep!NoId)
    <3> SUFFICES ASSUME NEW v \in Writers
                 PROVE  h.release[v] <= n + 1 /\ (h.run[v] = "none" => h.release[v] = Sleep!NoId)
      OBVIOUS
    <3>1. CASE v = w
      BY <1>1, <3>1
    <3>2. CASE v # w
      BY <1>1, <1>2, <3>2 DEF Sound, ClaimsSound
    <3> QED
      BY <3>1, <3>2
  <2>2. \A u, v \in Writers : h.release[u] = h.release[v] => u = v \/ h.release[u] = Sleep!NoId
    BY <1>1, <1>2 DEF Sound, ClaimsSound
  <2> QED
    BY <1>1, <2>1, <2>2 DEF ClaimsSound
<1>4. Claimed(h) = Claimed(g) \cup {n + 1}
  BY <1>1, <1>2 DEF Claimed, Sleep!NoId
<1>5. n + 1 \notin out
  OBVIOUS
<1>6. BooksSound(h, out)
  BY <1>1, <1>4, <1>5 DEF Sound, BooksSound
<1> QED
  BY <1>3, <1>6 DEF h, Sound

(* Starting a run asks for one, from a guard the same step may have made. *)
LEMMA StartsSound ==
  ASSUME made \in Nat, \A id \in lapsed : id \in Nat /\ id <= made, lapsed' = lapsed,
         NEW g, Sound(g, made, lapsed), NEW w \in Writers, Sleep!Starts(g, w)
  PROVE  GuardInv'
<1> DEFINE h == Sleep!ReleasedSleep([g EXCEPT !.run[w] = "headless"], w)
<1>0. g \in Guards
  BY DEF Sound, ClaimsSound
<1>1. Sound([g EXCEPT !.run[w] = "headless"], made, lapsed)
  BY RunSound
<1>2. Sound(h, made, lapsed) /\ h.release[w] = Sleep!NoId /\ h.run = [g EXCEPT !.run[w] = "headless"].run
  BY <1>1, ReleaseSound
<1>3. h.run[w] = "headless"
  BY <1>0, <1>2 DEF Guards
<1>4. Sleep!Hold(h, w)
  BY DEF Sleep!Starts
<1> HIDE DEF h
<1>5. CASE guard' = Sleep!Holding(h, w, Sleep!NoId) /\ made' = made
  BY <1>2, <1>5, HoldNothing DEF GuardInv
<1>6. CASE guard' = Sleep!Holding(h, w, made + 1) /\ made' = made + 1
  <2>1. Sound(guard', made', lapsed')
    BY <1>2, <1>3, <1>6, HoldNew
  <2>2. made' \in Nat /\ \A id \in lapsed' : id \in Nat /\ id <= made'
    BY <1>6
  <2> QED
    BY <2>1, <2>2 DEF GuardInv
<1> QED
  BY <1>4, <1>5, <1>6 DEF Sleep!Hold

-----------------------------------------------------------------------------
(* The steps *)

(* An empty guard claims nothing. *)
LEMMA EmptySound ==
  ASSUME NEW n \in Nat, NEW out
  PROVE  Sound([run |-> [w \in Writers |-> "none"], release |-> [w \in Writers |-> Sleep!NoId],
                held |-> {}, powerd |-> {}], n, out)
  BY DEF Sound, ClaimsSound, BooksSound, Claimed, Guards, Sleep!NoId

LEMMA GuardInit == Sleep!Init => GuardInv
  BY EmptySound DEF Sleep!Init, GuardInv

(* The run that ends releases its own, is audited, and the next may start. *)
LEMMA ExitStep == ASSUME GuardInv, NEW w \in Writers, Sleep!HeadlessExits(w) PROVE GuardInv'
<1> DEFINE r == Sleep!ReleasedSleep(guard, w)
           e == [r EXCEPT !.run[w] = "none"]
           g == Sleep!Audited(e)
<1>1. Sound(r, made, lapsed) /\ r.release[w] = Sleep!NoId
  BY ReleaseSound DEF GuardInv
<1>2. Sound(e, made, lapsed)
  BY <1>1, RunSound DEF GuardInv
<1>3. Sound(g, made, lapsed)
  BY <1>2, AuditSound DEF GuardInv
<1>4. lapsed' = lapsed /\ ((guard' = g /\ made' = made) \/ Sleep!Starts(g, w))
  BY DEF Sleep!HeadlessExits
<1> HIDE DEF g
<1>5. CASE guard' = g /\ made' = made
  BY <1>3, <1>4, <1>5 DEF GuardInv
<1>6. CASE Sleep!Starts(g, w)
  BY <1>3, <1>4, <1>6, StartsSound DEF GuardInv
<1> QED
  BY <1>4, <1>5, <1>6

(* powerd's own timeout is recorded, and leaves the guard's table behind. *)
LEMMA LapseStep == ASSUME GuardInv, NEW id \in Sleep!Ids, Sleep!Lapses(id) PROVE GuardInv'
<1>0. guard \in Guards /\ guard.powerd = Claimed(guard) \ lapsed /\ guard.held = Claimed(guard)
  BY DEF GuardInv, Sound, ClaimsSound, BooksSound
<1>1. /\ guard' \in Guards /\ guard'.run = guard.run /\ guard'.release = guard.release
      /\ guard'.held = guard.held /\ guard'.powerd = guard.powerd \ {id}
      /\ lapsed' = lapsed \cup {id} /\ made' = made
  BY <1>0 DEF Sleep!Lapses, Guards
<1>2. Claimed(guard') = Claimed(guard)
  BY <1>1 DEF Claimed
<1>3. id \in Nat /\ id <= made
  <2>1. id \in Claimed(guard)
    BY <1>0 DEF Sleep!Lapses
  <2>2. PICK w \in Writers : id = guard.release[w]
    BY <2>1 DEF Claimed
  <2>3. guard.release[w] \in Nat /\ guard.release[w] <= made
    BY <1>0 DEF Guards, GuardInv, Sound, ClaimsSound
  <2> QED
    BY <2>2, <2>3
<1>4. ClaimsSound(guard', made')
  BY <1>1 DEF GuardInv, Sound, ClaimsSound
<1>5. BooksSound(guard', lapsed')
  BY <1>0, <1>1, <1>2 DEF BooksSound
<1>6. \A i \in lapsed' : i \in Nat /\ i <= made'
  BY <1>1, <1>3 DEF GuardInv
<1> QED
  BY <1>1, <1>4, <1>5, <1>6 DEF GuardInv, Sound

LEMMA GuardStep == GuardInv /\ [Sleep!Next]_(Sleep!vars) => GuardInv'
<1> SUFFICES ASSUME GuardInv, [Sleep!Next]_(Sleep!vars) PROVE GuardInv'
  OBVIOUS
<1>1. ASSUME NEW w \in Writers, Sleep!StartHeadless(w) PROVE GuardInv'
  BY <1>1, StartsSound DEF Sleep!StartHeadless, GuardInv
<1>2. ASSUME NEW w \in Writers, Sleep!HeadlessExits(w) PROVE GuardInv'
  BY <1>2, ExitStep
<1>3. ASSUME NEW id \in Sleep!Ids, Sleep!Lapses(id) PROVE GuardInv'
  BY <1>3, LapseStep
<1>4. CASE Sleep!Audit
  <2>1. Sound(Sleep!Audited(guard), made, lapsed)
    BY AuditSound DEF GuardInv
  <2> QED
    BY <1>4, <2>1 DEF Sleep!Audit, GuardInv
<1>5. CASE Sleep!HostStops
  BY <1>5, EmptySound DEF Sleep!HostStops, GuardInv
<1>6. CASE UNCHANGED Sleep!vars
  BY <1>6 DEF Sleep!vars, GuardInv
<1> QED
  BY <1>1, <1>2, <1>3, <1>4, <1>5, <1>6 DEF Sleep!Next

(* The inductive invariant: a release is an assertion that was created, of one run
   in flight, and the two tables hold the releases and nothing else. *)
THEOREM GuardInductive == Sleep!Spec => []GuardInv
<1> QED
  BY GuardInit, GuardStep, PTL DEF Sleep!Spec

(* The machine is kept awake for exactly the runs in flight, whatever the order of
   their starts, ends, audits and powerd's own timeouts. *)
THEOREM AwakeForTheRuns == Sleep!Spec => []Sleep!HeldForTheRun
<1>1. GuardInv => Sleep!HeldForTheRun
  <2> SUFFICES ASSUME GuardInv PROVE Sleep!HeldForTheRun
    OBVIOUS
  <2>1. guard \in Guards /\ guard.powerd = Claimed(guard) \ lapsed /\ guard.held = Claimed(guard)
    BY DEF GuardInv, Sound, ClaimsSound, BooksSound
  <2>2. \A w \in Writers : guard.release[w] # Sleep!NoId => w \in Sleep!Running(guard)
    BY <2>1 DEF GuardInv, Sound, ClaimsSound, Sleep!Running, Guards
  <2>3. Claimed(guard) = {guard.release[w] : w \in Sleep!Running(guard)} \ {Sleep!NoId}
    BY <2>2 DEF Claimed, Sleep!Running
  <2> QED
    BY <2>1, <2>3 DEF Sleep!HeldForTheRun
<1> QED
  BY <1>1, GuardInductive, PTL
-----------------------------------------------------------------------------
(***************************************************************************)
(* SchemaUpgrade: the database file over builds, interrupted boots and     *)
(* restored snapshots.                                                     *)
(***************************************************************************)

(* A file has a stamp and data written so far; every table of its stamp is there (unless
   the file is as old as stamp 0), the first one before any other, and each has the
   columns of the migrations up to the stamp. *)
FileSound(f, n) ==
  /\ f = [tables |-> f.tables, stamp |-> f.stamp, data |-> f.data]
  /\ f.tables = [t \in DOMAIN f.tables |-> f.tables[t]]
  /\ DOMAIN f.tables \subseteq Tables /\ f.stamp \in Schema!Versions /\ f.data \in 0 .. n
  /\ f.stamp # 0 => Schema!TablesOf(f.stamp) \subseteq DOMAIN f.tables
  /\ DOMAIN f.tables # {} => "agents" \in DOMAIN f.tables
  /\ \A t \in DOMAIN f.tables : Schema!ColumnsOf(t, f.stamp) \subseteq f.tables[t]

StepTypes ==
  /\ step \in {"off", "snapshot", "ddl", "migrate", "open"}
  /\ build \in Schema!Versions
  /\ writes \in 0 .. MaxWrites /\ boots \in 0 .. MaxBoots /\ restores \in 0 .. MaxRestores
  /\ first \in [Schema!Versions -> 0 .. Schema!NoFile]
  /\ spoilt \subseteq Schema!Versions

BackupTypes ==
  /\ backups = [v \in Schema!Versions |-> backups[v]]
  /\ \A v \in Schema!Versions :
       /\ backups[v].named \in BOOLEAN /\ backups[v].whole \in BOOLEAN
       /\ backups[v].whole => FileSound(backups[v].file, writes) /\ backups[v].file.stamp = v

(* How far the boot is: a file that was new has whatever its build's DDL gives it, and
   at the migrations all tables of the build are there. *)
BootSound ==
  /\ step = "snapshot" => db.stamp < build /\ ~fresh
  /\ step \in {"ddl", "migrate"} /\ fresh =>
       /\ db.stamp = 0
       /\ \A t \in DOMAIN db.tables : Schema!ColumnsOf(t, build) \subseteq db.tables[t]
  /\ step \in {"migrate", "open"} => Schema!TablesOf(build) \subseteq DOMAIN db.tables
  /\ step = "open" => db.stamp = build

(* The snapshot of a version that was not spoilt is there exactly if the version was
   migrated from, and whole, with the data of the first time. *)
BackupsSound ==
  \A v \in Schema!Versions \ spoilt :
    /\ backups[v].named <=> first[v] # Schema!NoFile
    /\ backups[v].named => backups[v].whole /\ backups[v].file.data = first[v]

SchemaInv ==
  /\ StepTypes /\ fresh \in BOOLEAN /\ FileSound(db, writes)
  /\ BackupTypes /\ BootSound /\ BackupsSound

-----------------------------------------------------------------------------
LEMMA SchemaConstants ==
  /\ Newest \in Nat /\ Builds \subseteq Schema!Versions
  /\ "agents" \in Tables /\ Since \in [Tables -> Schema!Versions] /\ Since["agents"] = 0
  /\ MaxWrites \in Nat /\ MaxBoots \in Nat /\ MaxRestores \in Nat
  BY SchemaAssumption DEF Schema!UpgradeAssumption

(* A later build uses more, of each table too. *)
LEMMA LaterUsesMore ==
  ASSUME NEW u \in Schema!Versions, NEW v \in Schema!Versions, u <= v
  PROVE  /\ Schema!TablesOf(u) \subseteq Schema!TablesOf(v)
         /\ \A t : Schema!ColumnsOf(t, u) \subseteq Schema!ColumnsOf(t, v)
  BY SchemaConstants DEF Schema!TablesOf, Schema!ColumnsOf, Schema!Versions

(* A file stays sound while the user's data moves on. *)
LEMMA FileLater ==
  ASSUME NEW f, NEW n \in Nat, NEW m \in Nat, n <= m, FileSound(f, n)
  PROVE  FileSound(f, m)
  BY DEF FileSound

(* The columns of the next version are those so far and the ones its migration adds. *)
LEMMA NextColumns ==
  ASSUME NEW v \in Nat, NEW t, NEW has, Schema!ColumnsOf(t, v) \subseteq has
  PROVE  Schema!ColumnsOf(t, v + 1) \subseteq has \cup (IF <<t, v + 1>> \in Columns THEN {v + 1} ELSE {})
<1> SUFFICES ASSUME NEW c \in Schema!ColumnsOf(t, v + 1)
             PROVE  c \in has \/ (c = v + 1 /\ <<t, v + 1>> \in Columns)
  OBVIOUS
<1>1. c \in Nat /\ c >= 1 /\ c <= v + 1 /\ <<t, c>> \in Columns
  BY DEF Schema!ColumnsOf
<1>2. CASE c = v + 1
  BY <1>1, <1>2
<1>3. CASE c # v + 1
  <2>1. c \in 1 .. v
    BY <1>1, <1>3
  <2> QED
    BY <1>1, <2>1 DEF Schema!ColumnsOf
<1> QED
  BY <1>2, <1>3

(* A file whose migration ran is sound, if the tables of the build are all there. *)
LEMMA MigratedSound ==
  ASSUME NEW f, NEW n \in Nat, FileSound(f, n), NEW b \in Schema!Versions, f.stamp < b,
         Schema!TablesOf(b) \subseteq DOMAIN f.tables
  PROVE  LET g == [f EXCEPT !.stamp = @ + 1, !.tables = Schema!Migrated(@, f.stamp + 1)]
         IN  /\ FileSound(g, n) /\ g.stamp = f.stamp + 1
             /\ DOMAIN g.tables = DOMAIN f.tables
<1> DEFINE g == [f EXCEPT !.stamp = @ + 1, !.tables = Schema!Migrated(@, f.stamp + 1)]
<1>1. /\ g = [tables |-> Schema!Migrated(f.tables, f.stamp + 1), stamp |-> f.stamp + 1,
              data |-> f.data]
      /\ g.stamp = f.stamp + 1 /\ g.data = f.data
      /\ g.tables = Schema!Migrated(f.tables, f.stamp + 1)
  <2>1. PICK m, s : m = Schema!Migrated(f.tables, f.stamp + 1) /\ s = f.stamp + 1
    OBVIOUS
  <2>2. g = [f EXCEPT !.stamp = s, !.tables = m]
    BY <2>1
  <2>3. f \in [tables : {f.tables}, stamp : {f.stamp}, data : {f.data}]
    BY DEF FileSound
  <2> HIDE DEF g
  <2> QED
    BY <2>1, <2>2, <2>3
<1> HIDE DEF g
<1>2. /\ DOMAIN g.tables = DOMAIN f.tables
      /\ g.tables = [t \in DOMAIN g.tables |-> g.tables[t]]
      /\ \A t \in DOMAIN f.tables :
           g.tables[t] = f.tables[t] \cup (IF <<t, f.stamp + 1>> \in Columns
                                          THEN {f.stamp + 1} ELSE {})
  BY <1>1 DEF Schema!Migrated
<1>3. f.stamp \in Nat /\ f.stamp + 1 \in Schema!Versions /\ f.stamp + 1 <= b
  BY SchemaConstants DEF FileSound, Schema!Versions
<1>4. \A t \in DOMAIN g.tables : Schema!ColumnsOf(t, g.stamp) \subseteq g.tables[t]
  <2> SUFFICES ASSUME NEW t \in DOMAIN g.tables
               PROVE  Schema!ColumnsOf(t, g.stamp) \subseteq g.tables[t]
    OBVIOUS
  <2>1. Schema!ColumnsOf(t, f.stamp) \subseteq f.tables[t]
    BY <1>2 DEF FileSound
  <2>2. Schema!ColumnsOf(t, f.stamp + 1) \subseteq
          f.tables[t] \cup (IF <<t, f.stamp + 1>> \in Columns THEN {f.stamp + 1} ELSE {})
    BY <1>3, <2>1, NextColumns
  <2> QED
    BY <1>1, <1>2, <2>2, Zenon
<1>5. Schema!TablesOf(g.stamp) \subseteq DOMAIN g.tables
  BY <1>1, <1>2, <1>3, LaterUsesMore
<1>6. g = [tables |-> g.tables, stamp |-> g.stamp, data |-> g.data]
  BY <1>1
<1> QED
  BY <1>1, <1>2, <1>3, <1>4, <1>5, <1>6 DEF FileSound, g

(* A table that the DDL adds comes with everything its build gives it. *)
LEMMA CreatedSound ==
  ASSUME NEW f, NEW n \in Nat, FileSound(f, n), NEW b \in Schema!Versions,
         NEW t \in Schema!TablesOf(b) \ DOMAIN f.tables,
         t = "agents" \/ "agents" \in DOMAIN f.tables
  PROVE  LET g == [f EXCEPT !.tables = [u \in DOMAIN @ \cup {t} |->
                     IF u = t THEN Schema!ColumnsOf(t, b) ELSE @[u]]]
         IN  /\ FileSound(g, n) /\ g.stamp = f.stamp
             /\ DOMAIN g.tables = DOMAIN f.tables \cup {t}
             /\ g.tables[t] = Schema!ColumnsOf(t, b)
             /\ \A u \in DOMAIN f.tables : g.tables[u] = f.tables[u]
<1> DEFINE h == [u \in DOMAIN f.tables \cup {t} |->
                   IF u = t THEN Schema!ColumnsOf(t, b) ELSE f.tables[u]]
           g == [f EXCEPT !.tables = [u \in DOMAIN @ \cup {t} |->
                   IF u = t THEN Schema!ColumnsOf(t, b) ELSE @[u]]]
<1>1. /\ g = [tables |-> h, stamp |-> f.stamp, data |-> f.data]
      /\ g.stamp = f.stamp /\ g.data = f.data /\ g.tables = h
  BY DEF FileSound
<1> HIDE DEF g
<1>2. /\ DOMAIN g.tables = DOMAIN f.tables \cup {t}
      /\ g.tables[t] = Schema!ColumnsOf(t, b)
      /\ \A u \in DOMAIN f.tables : g.tables[u] = f.tables[u]
      /\ g.tables = [u \in DOMAIN g.tables |-> g.tables[u]]
  BY <1>1
<1>3. f.stamp <= b
  <2>1. CASE f.stamp > b
    <3>1. f.stamp # 0
      BY <2>1 DEF FileSound, Schema!Versions
    <3>2. t \in Schema!TablesOf(f.stamp)
      BY <2>1, LaterUsesMore DEF FileSound, Schema!Versions
    <3> QED
      BY <3>1, <3>2 DEF FileSound
  <2> QED
    BY <2>1 DEF FileSound, Schema!Versions
<1>4. \A u \in DOMAIN g.tables : Schema!ColumnsOf(u, g.stamp) \subseteq g.tables[u]
  <2> SUFFICES ASSUME NEW u \in DOMAIN g.tables
               PROVE  Schema!ColumnsOf(u, g.stamp) \subseteq g.tables[u]
    OBVIOUS
  <2>1. CASE u = t
    BY <1>1, <1>2, <1>3, <2>1, LaterUsesMore DEF FileSound
  <2>2. CASE u # t
    BY <1>1, <1>2, <2>2 DEF FileSound
  <2> QED
    BY <2>1, <2>2
<1>5. g = [tables |-> g.tables, stamp |-> g.stamp, data |-> g.data]
  BY <1>1
<1>6. DOMAIN g.tables \subseteq Tables
  BY <1>2 DEF FileSound, Schema!TablesOf
<1> QED
  BY <1>1, <1>2, <1>4, <1>5, <1>6 DEF FileSound, g

-----------------------------------------------------------------------------
(* The steps *)

(* What a step that changes neither snapshots nor their history keeps. *)
BackupsAlone == UNCHANGED <<backups, first, spoilt>>

LEMMA SchemaBegins == Schema!Init => SchemaInv
<1> SUFFICES ASSUME Schema!Init PROVE SchemaInv
  OBVIOUS
<1> USE SchemaConstants DEF Schema!Init
<1>1. StepTypes
  BY DEF StepTypes, Schema!Versions, Schema!NoFile
<1>2. FileSound(db, writes)
  <2>1. CASE db = [tables |-> Schema!NoTables, stamp |-> 0, data |-> 0]
    BY <2>1 DEF FileSound, Schema!NoTables, Schema!Versions
  <2>2. CASE db = [tables |-> [t \in {u \in Tables : Since[u] = 0} |-> {}],
                   stamp |-> 0, data |-> 0]
    <3>1. \A t : Schema!ColumnsOf(t, 0) = {}
      BY DEF Schema!ColumnsOf
    <3> QED
      BY <2>2, <3>1 DEF FileSound, Schema!Versions
  <2> QED
    BY <2>1, <2>2
<1>3. BackupTypes
  BY DEF BackupTypes, Schema!NoBackup
<1>4. BootSound
  BY DEF BootSound
<1>5. BackupsSound
  BY DEF BackupsSound, Schema!NoBackup
<1> QED
  BY <1>1, <1>2, <1>3, <1>4, <1>5 DEF SchemaInv

(* Snapshots stay sound while the user's data moves on. *)
LEMMA BackupsKept ==
  ASSUME SchemaInv, BackupsAlone, writes \in Nat, writes' \in Nat, writes <= writes'
  PROVE  BackupTypes' /\ BackupsSound'
<1>1. BackupsSound'
  BY DEF SchemaInv, BackupsSound, BackupsAlone
<1>2. BackupTypes'
  BY FileLater DEF SchemaInv, BackupTypes, BackupsAlone
<1> QED
  BY <1>1, <1>2

LEMMA BootKeeps ==
  ASSUME SchemaInv, NEW b \in Builds, Schema!Boot(b) PROVE SchemaInv'
<1> USE SchemaConstants DEF SchemaInv
<1>1. /\ step = "off" /\ boots < MaxBoots /\ boots' = boots + 1 /\ build' = b
      /\ fresh' = Schema!isFresh(db)
      /\ step' = IF ~Schema!isFresh(db) /\ db.stamp < b THEN "snapshot" ELSE "ddl"
      /\ db' = db /\ writes' = writes /\ restores' = restores /\ BackupsAlone
  BY DEF Schema!Boot, BackupsAlone
<1>2. writes \in Nat
  BY DEF StepTypes
<1>3. StepTypes'
  BY <1>1 DEF StepTypes, BackupsAlone, Schema!NoFile
<1>4. fresh' \in BOOLEAN
  BY <1>1, Zenon DEF Schema!isFresh
<1>5. BackupTypes' /\ BackupsSound'
  BY <1>1, <1>2, BackupsKept
<1>6. Schema!isFresh(db) => DOMAIN db.tables = {} /\ db.stamp = 0
  <2> SUFFICES ASSUME "agents" \notin DOMAIN db.tables, db.stamp # 0 PROVE FALSE
    BY DEF Schema!isFresh, FileSound
  <2>1. "agents" \in Schema!TablesOf(db.stamp)
    BY DEF Schema!TablesOf, FileSound, Schema!Versions
  <2> QED
    BY <2>1 DEF FileSound
<1>7. BootSound'
  BY <1>1, <1>6 DEF BootSound
<1> QED
  BY <1>1, <1>3, <1>4, <1>5, <1>7 DEF FileSound

LEMMA BackupKeeps ==
  ASSUME SchemaInv, Schema!backupBeforeMigration PROVE SchemaInv'
<1> USE SchemaConstants DEF SchemaInv
<1>1. /\ step = "snapshot" /\ step' \in {"ddl", "off"}
      /\ db' = db /\ build' = build /\ fresh' = fresh /\ writes' = writes
      /\ boots' = boots /\ restores' = restores
  BY DEF Schema!backupBeforeMigration
<1>2. PICK v : v = db.stamp
  OBVIOUS
<1>3. /\ v \in Schema!Versions /\ writes \in Nat /\ db.data \in 0 .. MaxWrites
      /\ db.data # Schema!NoFile
  BY <1>2 DEF FileSound, StepTypes, Schema!NoFile
<1>4. /\ first' = IF step' = "ddl" /\ first[v] = Schema!NoFile
                  THEN [first EXCEPT ![v] = db.data] ELSE first
      /\ spoilt \subseteq spoilt' /\ spoilt' \subseteq spoilt \cup {v}
  BY <1>2 DEF Schema!backupBeforeMigration
<1>5. first \in [Schema!Versions -> 0 .. Schema!NoFile]
  BY DEF StepTypes
<1>6. /\ first' \in [Schema!Versions -> 0 .. Schema!NoFile]
      /\ \A u \in Schema!Versions \ {v} : first'[u] = first[u]
      /\ step' = "ddl" => first'[v] = IF first[v] = Schema!NoFile THEN db.data ELSE first[v]
  BY <1>3, <1>4, <1>5 DEF Schema!NoFile
<1>7. StepTypes'
  BY <1>1, <1>3, <1>4, <1>6 DEF StepTypes
<1>8. BootSound'
  BY <1>1 DEF BootSound
<1>9. \A whole \in BOOLEAN :
        /\ Schema!Taken(whole) = [u \in Schema!Versions |-> Schema!Taken(whole)[u]]
        /\ Schema!Taken(whole)[v] = [named |-> TRUE, whole |-> whole, file |-> db]
        /\ \A u \in Schema!Versions \ {v} : Schema!Taken(whole)[u] = backups[u]
  BY <1>2, <1>3, Zenon DEF Schema!Taken, BackupTypes
<1>10. \/ backups' = backups \/ backups' = Schema!Taken(TRUE) \/ backups' = Schema!Taken(FALSE)
  BY DEF Schema!backupBeforeMigration
<1>11. BackupTypes'
  <2>1. CASE backups' = backups
    BY <1>1, <2>1 DEF BackupTypes
  <2>2. ASSUME NEW w \in BOOLEAN, backups' = Schema!Taken(w) PROVE BackupTypes'
    <3>0. /\ Schema!Taken(w) = [u \in Schema!Versions |-> Schema!Taken(w)[u]]
          /\ Schema!Taken(w)[v] = [named |-> TRUE, whole |-> w, file |-> db]
          /\ \A u \in Schema!Versions \ {v} : Schema!Taken(w)[u] = backups[u]
      BY <1>9, Zenon
    <3>1. /\ backups' = [u \in Schema!Versions |-> backups'[u]]
          /\ \A u \in Schema!Versions \ {v} : backups'[u] = backups[u]
          /\ backups'[v] = [named |-> TRUE, whole |-> w, file |-> db]
      BY <2>2, <3>0, Zenon
    <3>2. ASSUME NEW u \in Schema!Versions
          PROVE  /\ backups'[u].named \in BOOLEAN /\ backups'[u].whole \in BOOLEAN
                 /\ backups'[u].whole => /\ FileSound(backups'[u].file, writes')
                                         /\ backups'[u].file.stamp = u
      <4>1. CASE u = v
        <5>1. /\ backups'[u].named = TRUE /\ backups'[u].whole = w
              /\ backups'[u].file = db
          BY <3>1, <4>1
        <5> QED
          BY <1>1, <1>2, <4>1, <5>1, Zenon
      <4>2. CASE u # v
        BY <1>1, <3>1, <4>2, Zenon DEF BackupTypes
      <4> QED
        BY <4>1, <4>2
    <3> QED
      BY <3>1, <3>2, Zenon DEF BackupTypes
  <2> QED
    BY <1>10, <2>1, <2>2
<1>12. BackupsSound'
  <2> SUFFICES ASSUME NEW u \in Schema!Versions, u \notin spoilt'
               PROVE  /\ backups'[u].named <=> first'[u] # Schema!NoFile
                      /\ backups'[u].named => backups'[u].whole /\ backups'[u].file.data = first'[u]
    BY DEF BackupsSound, Schema!NoFile
  <2>1. u \notin spoilt /\ (backups[u].named <=> first[u] # Schema!NoFile)
        /\ (backups[u].named => backups[u].whole /\ backups[u].file.data = first[u])
    BY <1>4 DEF BackupsSound
  <2>2. CASE u # v
    <3>1. backups'[u] = backups[u] /\ first'[u] = first[u]
      BY <1>6, <1>9, <1>10, <2>2
    <3> QED
      BY <2>1, <3>1
  <2>3. CASE u = v
    <3>1. CASE Schema!HasSnapshot(v) /\ step' = "ddl" /\ backups' = backups
      BY <1>6, <2>1, <2>3, <3>1 DEF Schema!HasSnapshot
    <3>2. CASE ~Schema!HasSnapshot(v) /\ step' = "ddl" /\ backups' = Schema!Taken(TRUE)
      <4>1. first[v] = Schema!NoFile
        BY <2>1, <2>3, <3>2 DEF Schema!HasSnapshot
      <4>2. first'[v] = db.data /\ first'[v] # Schema!NoFile
        BY <1>3, <1>6, <3>2, <4>1
      <4>3. backups'[v] = [named |-> TRUE, whole |-> TRUE, file |-> db]
        BY <1>9, <3>2
      <4> QED
        BY <2>3, <4>2, <4>3
    <3> QED
      BY <1>2, <2>3, <3>1, <3>2 DEF Schema!backupBeforeMigration
  <2> QED
    BY <2>2, <2>3
<1> QED
  BY <1>1, <1>7, <1>8, <1>11, <1>12 DEF FileSound

LEMMA DdlKeeps ==
  ASSUME SchemaInv, Schema!Ddl PROVE SchemaInv'
<1> USE SchemaConstants DEF SchemaInv
<1>1. /\ step = "ddl" /\ build' = build /\ fresh' = fresh /\ writes' = writes
      /\ boots' = boots /\ restores' = restores /\ BackupsAlone
  BY DEF Schema!Ddl, BackupsAlone
<1>2. writes \in Nat /\ build \in Schema!Versions
  BY DEF StepTypes
<1>3. BackupTypes' /\ BackupsSound'
  BY <1>1, <1>2, BackupsKept
<1>4. step' \in {"ddl", "migrate"}
  BY <1>1 DEF Schema!Ddl
<1>5. StepTypes'
  BY <1>1, <1>4 DEF StepTypes, BackupsAlone, Schema!NoFile
<1>6. CASE Schema!TablesOf(build) \ DOMAIN db.tables = {}
  <2>1. step' = "migrate" /\ db' = db
    BY <1>6 DEF Schema!Ddl
  <2>2. BootSound'
    BY <1>1, <1>6, <2>1 DEF BootSound
  <2> QED
    BY <1>1, <1>3, <1>5, <2>1, <2>2 DEF FileSound
<1>7. CASE Schema!TablesOf(build) \ DOMAIN db.tables # {}
  <2>1. PICK t \in IF "agents" \in Schema!TablesOf(build) \ DOMAIN db.tables THEN {"agents"}
                   ELSE Schema!TablesOf(build) \ DOMAIN db.tables :
          db' = [db EXCEPT !.tables = [u \in DOMAIN @ \cup {t} |->
                   IF u = t THEN Schema!ColumnsOf(t, build) ELSE @[u]]]
    BY <1>7 DEF Schema!Ddl
  <2>2. step' = "ddl"
    BY <1>1, <1>7 DEF Schema!Ddl
  <2>3. /\ t \in Schema!TablesOf(build) \ DOMAIN db.tables
        /\ t = "agents" \/ "agents" \in DOMAIN db.tables
    <3>1. "agents" \in Schema!TablesOf(build)
      BY <1>2 DEF Schema!TablesOf, Schema!Versions
    <3> QED
      BY <2>1, <3>1
  <2>4. /\ FileSound(db', writes) /\ db'.stamp = db.stamp
        /\ DOMAIN db'.tables = DOMAIN db.tables \cup {t}
        /\ db'.tables[t] = Schema!ColumnsOf(t, build)
        /\ \A u \in DOMAIN db.tables : db'.tables[u] = db.tables[u]
    BY <1>2, <2>1, <2>3, CreatedSound
  <2>5. BootSound'
    BY <1>1, <2>2, <2>4 DEF BootSound
  <2>6. FileSound(db, writes)'
    BY <1>1, <2>4 DEF FileSound
  <2> QED
    BY <1>1, <1>3, <1>5, <2>5, <2>6
<1> QED
  BY <1>6, <1>7

(* A new file has all columns of its build, so it may be stamped. *)
LEMMA StampedSound ==
  ASSUME NEW f, NEW n \in Nat, FileSound(f, n), NEW b \in Schema!Versions, f.stamp = 0,
         Schema!TablesOf(b) \subseteq DOMAIN f.tables,
         \A t \in DOMAIN f.tables : Schema!ColumnsOf(t, b) \subseteq f.tables[t]
  PROVE  LET g == [f EXCEPT !.stamp = b]
         IN  FileSound(g, n) /\ g.stamp = b /\ g.tables = f.tables
<1> DEFINE g == [f EXCEPT !.stamp = b]
<1>1. /\ g = [tables |-> f.tables, stamp |-> b, data |-> f.data]
      /\ g.stamp = b /\ g.data = f.data /\ g.tables = f.tables
  BY DEF FileSound
<1> HIDE DEF g
<1> QED
  BY <1>1 DEF FileSound, g

LEMMA MigrateKeeps ==
  ASSUME SchemaInv, Schema!migrate PROVE SchemaInv'
<1> USE SchemaConstants DEF SchemaInv
<1>1. /\ step = "migrate" /\ build' = build /\ fresh' = fresh /\ writes' = writes
      /\ boots' = boots /\ restores' = restores /\ BackupsAlone
  BY DEF Schema!migrate, BackupsAlone
<1>2. writes \in Nat /\ build \in Schema!Versions /\ db.stamp \in Schema!Versions
  BY DEF StepTypes, FileSound
<1>3. BackupTypes' /\ BackupsSound'
  BY <1>1, <1>2, BackupsKept
<1>4. step' \in {"off", "open", "migrate"}
  BY <1>1 DEF Schema!migrate
<1>5. StepTypes'
  BY <1>1, <1>4 DEF StepTypes, BackupsAlone, Schema!NoFile
<1>6. Schema!TablesOf(build) \subseteq DOMAIN db.tables
  BY <1>1 DEF BootSound
<1>7. FileSound(db, writes)' /\ BootSound'
  <2>1. CASE db' = db /\ (step' = "off" \/ (db.stamp = build /\ step' = "open"))
    <3>1. BootSound'
      BY <1>1, <1>6, <2>1 DEF BootSound
    <3> QED
      BY <1>1, <2>1, <3>1 DEF FileSound
  <2>2. CASE fresh /\ step' = "open" /\ db' = [db EXCEPT !.stamp = build]
    <3>1. db.stamp = 0 /\ \A t \in DOMAIN db.tables :
                             Schema!ColumnsOf(t, build) \subseteq db.tables[t]
      BY <1>1, <2>2 DEF BootSound
    <3>2. FileSound(db', writes) /\ db'.stamp = build /\ db'.tables = db.tables
      BY <1>2, <1>6, <2>2, <3>1, StampedSound
    <3>3. BootSound'
      BY <1>1, <1>6, <2>2, <3>2 DEF BootSound
    <3> QED
      BY <1>1, <3>2, <3>3 DEF FileSound
  <2>3. CASE /\ db.stamp < build /\ ~fresh /\ step' = step
             /\ db' = [db EXCEPT !.stamp = @ + 1, !.tables = Schema!Migrated(@, db.stamp + 1)]
    <3>1. FileSound(db', writes) /\ DOMAIN db'.tables = DOMAIN db.tables
      BY <1>2, <1>6, <2>3, MigratedSound
    <3>2. BootSound'
      BY <1>1, <1>6, <2>3, <3>1 DEF BootSound
    <3> QED
      BY <1>1, <3>1, <3>2 DEF FileSound
  <2> QED
    BY <2>1, <2>2, <2>3 DEF Schema!migrate
<1> QED
  BY <1>1, <1>3, <1>5, <1>7

LEMMA WriteKeeps ==
  ASSUME SchemaInv, Schema!Write PROVE SchemaInv'
<1> USE SchemaConstants DEF SchemaInv
<1>1. /\ step = "open" /\ writes < MaxWrites /\ writes' = writes + 1
      /\ db' = [db EXCEPT !.data = writes + 1]
      /\ step' = step /\ build' = build /\ fresh' = fresh
      /\ boots' = boots /\ restores' = restores /\ BackupsAlone
  BY DEF Schema!Write, BackupsAlone
<1>2. writes \in Nat /\ writes' \in Nat /\ writes <= writes'
  BY <1>1 DEF StepTypes
<1>3. BackupTypes' /\ BackupsSound'
  BY <1>1, <1>2, BackupsKept
<1>4. StepTypes'
  BY <1>1 DEF StepTypes, BackupsAlone, Schema!NoFile
<1>5. db' = [tables |-> db.tables, stamp |-> db.stamp, data |-> writes']
  <2>1. PICK n : n = writes + 1
    OBVIOUS
  <2>2. db \in [tables : {db.tables}, stamp : {db.stamp}, data : {db.data}]
    BY DEF FileSound
  <2> QED
    BY <1>1, <2>1, <2>2
<1>6. db'.tables = db.tables /\ db'.stamp = db.stamp /\ db'.data = writes'
  BY <1>5
<1>7. FileSound(db, writes)'
  BY <1>2, <1>5, <1>6 DEF FileSound
<1>8. BootSound'
  BY <1>1, <1>6 DEF BootSound
<1> QED
  BY <1>1, <1>3, <1>4, <1>7, <1>8

LEMMA RestoreKeeps ==
  ASSUME SchemaInv, NEW v \in Schema!Versions, Schema!Restore(v) PROVE SchemaInv'
<1> USE SchemaConstants DEF SchemaInv
<1>1. /\ step = "off" /\ restores < MaxRestores /\ backups[v].whole
      /\ restores' = restores + 1 /\ db' = backups[v].file
      /\ step' = step /\ build' = build /\ fresh' = fresh
      /\ writes' = writes /\ boots' = boots /\ BackupsAlone
  BY DEF Schema!Restore, BackupsAlone
<1>2. writes \in Nat
  BY DEF StepTypes
<1>3. BackupTypes' /\ BackupsSound'
  BY <1>1, <1>2, BackupsKept
<1>4. StepTypes'
  BY <1>1 DEF StepTypes, BackupsAlone, Schema!NoFile
<1>5. FileSound(db', writes)
  BY <1>1 DEF BackupTypes
<1>6. BootSound'
  BY <1>1 DEF BootSound
<1> QED
  BY <1>1, <1>3, <1>4, <1>5, <1>6 DEF FileSound

LEMMA SchemaEnds ==
  ASSUME SchemaInv, Schema!HostEnds \/ UNCHANGED Schema!vars PROVE SchemaInv'
<1> USE SchemaConstants DEF SchemaInv
<1>1. /\ step' \in {step, "off"} /\ db' = db /\ build' = build /\ fresh' = fresh
      /\ writes' = writes /\ boots' = boots /\ restores' = restores /\ BackupsAlone
  BY DEF Schema!HostEnds, Schema!vars, BackupsAlone
<1>2. writes \in Nat
  BY DEF StepTypes
<1>3. BackupTypes' /\ BackupsSound'
  BY <1>1, <1>2, BackupsKept
<1>4. StepTypes'
  BY <1>1 DEF StepTypes, BackupsAlone, Schema!NoFile
<1>5. BootSound'
  BY <1>1 DEF BootSound
<1> QED
  BY <1>1, <1>3, <1>4, <1>5 DEF FileSound

(* The inductive invariant of the database: at whatever step a boot was cut, the file has
   the tables and columns of its stamp, and so has every whole snapshot. *)
THEOREM SchemaInductive == Schema!Spec => []SchemaInv
<1>1. SchemaInv /\ [Schema!Next]_(Schema!vars) => SchemaInv'
  BY BootKeeps, BackupKeeps, DdlKeeps, MigrateKeeps, WriteKeeps, RestoreKeeps, SchemaEnds
     DEF Schema!Next
<1> QED
  BY SchemaBegins, <1>1, PTL DEF Schema!Spec

(* Every boot that succeeds has the schema of its build, over builds in any order,
   interrupted boots and restored snapshots, and the first snapshot of a version that was
   migrated from holds the data of that moment (db/client.ts, migrate.ts, backup.ts). *)
THEOREM SchemasConverge == Schema!Spec => []Schema!SchemaSound
<1>1. SchemaInv => Schema!SchemaSound
  <2> SUFFICES ASSUME SchemaInv PROVE Schema!SchemaSound
    OBVIOUS
  <2> USE SchemaConstants DEF SchemaInv
  <2>1. Schema!TypeOK
    BY DEF Schema!TypeOK, StepTypes, FileSound
  <2>2. Schema!Converged
    <3> SUFFICES ASSUME step = "open"
                 PROVE  /\ db.stamp = build
                        /\ \A t \in Schema!TablesOf(build) :
                             /\ t \in DOMAIN db.tables
                             /\ Schema!ColumnsOf(t, build) \subseteq db.tables[t]
      BY DEF Schema!Converged
    <3>1. db.stamp = build /\ Schema!TablesOf(build) \subseteq DOMAIN db.tables
      BY DEF BootSound
    <3> QED
      BY <3>1 DEF FileSound
  <2>3. Schema!WayBack
    BY DEF Schema!WayBack, BackupsSound, BackupTypes
  <2> QED
    BY <2>1, <2>2, <2>3 DEF Schema!SchemaSound
<1> QED
  BY <1>1, SchemaInductive, PTL

-----------------------------------------------------------------------------
(***************************************************************************)
(* Telemetry: what leaves the machine, and the feedback form.              *)
(***************************************************************************)
Stages == {"called", "flushing", "sent", "failed", "told sent", "told failed"}
Submissions == [id : Nat, text : Nat, at : Stages]

(* The host's copies of the consent are the setting, even while it is down. *)
ConsentCopied ==
  /\ settings \in Tele!Settings /\ seen = settings /\ enabled = settings.telemetry
  /\ client \in BOOLEAN

CountersTyped ==
  /\ edits \in 0 .. MaxEdits /\ ids \in Nat /\ ids >= 1
  /\ draft \in [id : Nat, text : Nat]
  /\ draft.id >= 1 /\ draft.id <= ids /\ draft.text <= edits
  /\ sends \in Seq(Submissions) /\ Len(sends) <= MaxSends
  /\ waiting \in 0 .. Len(sends)

(* Each submission told as sent cost one id. *)
ToldSent == {i \in 1 .. Len(sends) : sends[i].at = "told sent"}
IdsCounted == ids <= Cardinality(ToldSent) + 1

(* A text is of one id only: that of the draft it was typed into. *)
TextsTyped ==
  /\ \A i \in 1 .. Len(sends) :
       /\ sends[i].id >= 1 /\ sends[i].id <= ids
       /\ sends[i].text >= 1 /\ sends[i].text <= edits
       /\ sends[i].text = draft.text => sends[i].id = draft.id
  /\ \A i, j \in 1 .. Len(sends) : sends[i].text = sends[j].text => sends[i].id = sends[j].id

(* What the client or PostHog holds was submitted... *)
Submitted(f) ==
  \E j \in 1 .. Len(sends) : f = [id |-> sends[j].id, text |-> sends[j].text]

(* ... and PostHog holds one event of each id. *)
FeedbackSound ==
  /\ \A f \in outbox \cup stored : Submitted(f)
  /\ \A s, t \in stored : s.id = t.id => s = t

(* What was flushed in time is at PostHog, in whatever words arrived first. *)
Arrivals ==
  \A i \in 1 .. Len(sends) :
    sends[i].at \in {"sent", "told sent"} => \E s \in stored : s.id = sends[i].id

TeleInv ==
  /\ ConsentCopied /\ CountersTyped /\ IdsCounted /\ TextsTyped
  /\ FeedbackSound /\ Arrivals /\ Tele!ConsentHeld

-----------------------------------------------------------------------------
(* A new at of one submission *)

(* Submissions, as far as ids, texts and stages tell. *)
SameSends ==
  /\ Len(sends') = Len(sends)
  /\ \A j \in 1 .. Len(sends) : sends'[j].id = sends[j].id /\ sends'[j].text = sends[j].text

LEMMA ReachesAt ==
  ASSUME CountersTyped, NEW i \in 1 .. Len(sends), NEW at \in Stages, Tele!Reaches(i, at)
  PROVE  /\ SameSends /\ sends' \in Seq(Submissions)
         /\ \A j \in 1 .. Len(sends) : sends'[j].at = IF j = i THEN at ELSE sends[j].at
<1>1. sends \in Seq(Submissions) /\ sends' = [sends EXCEPT ![i].at = at]
  BY DEF CountersTyped, Tele!Reaches
<1>2. PICK r : r = [sends[i] EXCEPT !.at = at]
  OBVIOUS
<1>3. sends[i] \in Submissions
  BY <1>1
<1>4. r \in Submissions /\ r.id = sends[i].id /\ r.text = sends[i].text /\ r.at = at
  BY <1>2, <1>3 DEF Submissions
<1>5. sends' = [sends EXCEPT ![i] = r]
  BY <1>1, <1>2
<1>6. sends' \in Seq(Submissions) /\ Len(sends') = Len(sends)
      /\ \A j \in 1 .. Len(sends) : sends'[j] = IF j = i THEN r ELSE sends[j]
  BY <1>1, <1>4, <1>5
<1> QED
  BY <1>4, <1>6 DEF SameSends

LEMMA TeleNumbers ==
  ASSUME CountersTyped
  PROVE  /\ MaxEdits \in Nat /\ MaxSends \in Nat /\ edits \in Nat /\ Len(sends) \in Nat
         /\ ids \in Nat /\ draft.id \in Nat /\ draft.text \in Nat
         /\ \A i \in 1 .. Len(sends) : sends[i].id \in Nat /\ sends[i].text \in Nat
<1>1. /\ MaxEdits \in Nat /\ MaxSends \in Nat /\ edits \in Nat /\ Len(sends) \in Nat
      /\ ids \in Nat /\ draft.id \in Nat /\ draft.text \in Nat
  BY TeleAssumption DEF CountersTyped, Tele!TelemetryAssumption
<1>2. ASSUME NEW i \in 1 .. Len(sends) PROVE sends[i].id \in Nat /\ sends[i].text \in Nat
  <2>1. sends[i] \in Submissions
    BY DEF CountersTyped
  <2> QED
    BY <2>1 DEF Submissions
<1> QED
  BY <1>1, <1>2

(* What was submitted stays so. *)
LEMMA SubmittedStays ==
  ASSUME SameSends, NEW f, Submitted(f) PROVE Submitted(f)'
  BY DEF SameSends, Submitted

LEMMA TextsStay ==
  ASSUME SameSends, UNCHANGED <<draft, edits, ids>>, TextsTyped PROVE TextsTyped'
  BY DEF SameSends, TextsTyped

LEMMA ToldIsFinite == ASSUME CountersTyped PROVE IsFiniteSet(ToldSent)
<1>1. Len(sends) \in Nat
  BY DEF CountersTyped
<1>2. IsFiniteSet(1 .. Len(sends))
  <2>1. Len(sends) \in Int /\ 1 \in Int
    BY <1>1
  <2> QED
    BY <2>1, FS_Interval
<1>3. ToldSent \subseteq 1 .. Len(sends)
  BY DEF ToldSent
<1> QED
  BY <1>2, <1>3, FS_Subset

(* The count of ids, over a step that answers nobody as sent. *)
LEMMA CountStays ==
  ASSUME CountersTyped, IdsCounted, ids' = ids, ToldSent' = ToldSent PROVE IdsCounted'
  BY DEF IdsCounted

(* Nothing is tracked without consent. *)
LEMMA TrackedConsented ==
  ASSUME NEW events, NEW on \in BOOLEAN, NEW setting \in BOOLEAN,
         \/ on = FALSE \/ setting = TRUE \/ events = {"telemetry_disabled"}
  PROVE  \A c \in Tele!Tracked(events, on, setting) :
           c.consent \/ c.event \in {"telemetry_disabled", "feedback_submitted"}
  BY DEF Tele!Tracked

LEMMA ConsentStays ==
  ASSUME Tele!ConsentHeld, NEW more, captured' = captured \cup more,
         \A c \in more : c.consent \/ c.event \in {"telemetry_disabled", "feedback_submitted"}
  PROVE  Tele!ConsentHeld'
  BY DEF Tele!ConsentHeld

-----------------------------------------------------------------------------
(* What PostHog may hold after some feedback arrived: all it had, of the rest the first
   of each id. *)
LEMMA ArrivedSound ==
  ASSUME FeedbackSound, NEW items, items \subseteq outbox, NEW after \in Tele!Arrived(items)
  PROVE  /\ stored \subseteq after /\ after \subseteq stored \cup items
         /\ \A s, t \in after : s.id = t.id => s = t
         /\ \A f \in items : \E s \in after : s.id = f.id
<1> DEFINE new == {f \in items : \A s \in stored : s.id # f.id}
<1>1. PICK k \in SUBSET new :
        /\ \A f, g \in k : f.id = g.id => f = g
        /\ \A f \in new : \E g \in k : g.id = f.id
        /\ after = stored \cup k
  BY DEF Tele!Arrived
<1>2. stored \subseteq after /\ after \subseteq stored \cup items
  BY <1>1
<1>3. ASSUME NEW s \in after, NEW u \in after, s.id = u.id PROVE s = u
  <2>1. \A x \in k : \A y \in stored : x.id # y.id
    BY <1>1
  <2> QED
    BY <1>1, <1>3, <2>1 DEF FeedbackSound
<1>4. ASSUME NEW f \in items PROVE \E s \in after : s.id = f.id
  BY <1>1
<1> QED
  BY <1>2, <1>3, <1>4

(* Feedback that arrives, or is given up, leaves everything else as it was. *)
LEMMA DeliverKeeps ==
  ASSUME TeleInv, SameSends,
         outbox' \subseteq outbox, NEW items, items \subseteq outbox,
         stored' \in Tele!Arrived(items) \/ stored' = stored
  PROVE  FeedbackSound' /\ stored \subseteq stored'
<1>1. FeedbackSound
  BY DEF TeleInv
<1>2. /\ stored \subseteq stored' /\ stored' \subseteq stored \cup items
      /\ \A s, t \in stored' : s.id = t.id => s = t
  <2>1. CASE stored' = stored
    BY <1>1, <2>1 DEF FeedbackSound
  <2>2. CASE stored' \in Tele!Arrived(items)
    BY <1>1, <2>2, ArrivedSound
  <2> QED
    BY <2>1, <2>2
<1>3. \A f \in outbox' \cup stored' : Submitted(f)
  BY <1>1, <1>2 DEF FeedbackSound
<1>4. \A f \in outbox' \cup stored' : Submitted(f)'
  BY <1>3, SubmittedStays
<1> QED
  BY <1>2, <1>4 DEF FeedbackSound

(* A step of the host that leaves submissions and form alone. *)
LEMMA HostKeeps ==
  ASSUME TeleInv, UNCHANGED <<draft, edits, ids, waiting, sends>>,
         outbox' \subseteq outbox, NEW items, items \subseteq outbox,
         stored' \in Tele!Arrived(items) \/ stored' = stored
  PROVE  CountersTyped' /\ IdsCounted' /\ TextsTyped' /\ FeedbackSound' /\ Arrivals'
<1> USE DEF TeleInv
<1>1. SameSends
  BY DEF SameSends
<1>2. FeedbackSound' /\ stored \subseteq stored'
  BY <1>1, DeliverKeeps
<1>3. CountersTyped'
  BY DEF CountersTyped
<1>4. IdsCounted'
  BY DEF IdsCounted, ToldSent
<1>5. TextsTyped'
  BY <1>1, TextsStay
<1>6. Arrivals'
  BY <1>2 DEF Arrivals
<1> QED
  BY <1>2, <1>3, <1>4, <1>5, <1>6

-----------------------------------------------------------------------------
(* The steps *)

LEMMA TeleBegins == Tele!Init => TeleInv
<1> SUFFICES ASSUME Tele!Init PROVE TeleInv
  OBVIOUS
<1> USE DEF Tele!Init
<1>1. ConsentCopied
  BY DEF ConsentCopied
<1>2. MaxEdits \in Nat /\ MaxSends \in Nat
  BY TeleAssumption DEF Tele!TelemetryAssumption
<1>3. sends \in Seq(Submissions) /\ Len(sends) = 0
  OBVIOUS
<1>4. CountersTyped
  BY <1>2, <1>3 DEF CountersTyped
<1>5. ToldSent = {}
  BY <1>3 DEF ToldSent
<1>6. IdsCounted
  BY <1>5, FS_EmptySet DEF IdsCounted
<1>7. TextsTyped /\ FeedbackSound /\ Arrivals /\ Tele!ConsentHeld
  BY <1>3 DEF TextsTyped, FeedbackSound, Arrivals, Tele!ConsentHeld
<1> QED
  BY <1>1, <1>4, <1>6, <1>7 DEF TeleInv

LEMMA TrackKeeps == ASSUME TeleInv, Tele!Track PROVE TeleInv'
<1> USE DEF TeleInv
<1>1. /\ UNCHANGED <<settings, client, enabled, seen>>
      /\ UNCHANGED <<draft, edits, ids, waiting, sends, outbox, stored>>
  BY DEF Tele!Track, Tele!hostVars, Tele!formVars
<1>2. CountersTyped' /\ IdsCounted' /\ TextsTyped' /\ FeedbackSound' /\ Arrivals'
  BY <1>1, HostKeeps
<1>3. ConsentCopied'
  BY <1>1 DEF ConsentCopied
<1>4. enabled \in BOOLEAN /\ settings.telemetry \in BOOLEAN /\ enabled = settings.telemetry
  BY DEF ConsentCopied, Tele!Settings
<1>5. Tele!ConsentHeld'
  BY <1>4, TrackedConsented, ConsentStays DEF Tele!Track
<1> QED
  BY <1>2, <1>3, <1>5

LEMMA UpdateKeeps ==
  ASSUME TeleInv, NEW next \in Tele!Settings, Tele!Update(next) PROVE TeleInv'
<1> USE DEF TeleInv
<1>1. /\ settings' = next /\ seen' = next /\ enabled' = next.telemetry /\ client' = client
      /\ UNCHANGED <<draft, edits, ids, waiting, sends, outbox, stored>>
  BY DEF Tele!Update, Tele!onSettingsChanged, Tele!formVars
<1>2. CountersTyped' /\ IdsCounted' /\ TextsTyped' /\ FeedbackSound' /\ Arrivals'
  BY <1>1, HostKeeps
<1>3. ConsentCopied'
  BY <1>1 DEF ConsentCopied
<1>4. /\ enabled \in BOOLEAN /\ next.telemetry \in BOOLEAN /\ seen.telemetry \in BOOLEAN
      /\ enabled = seen.telemetry
  BY DEF ConsentCopied, Tele!Settings
<1>5. Tele!ConsentHeld'
  <2>1. CASE seen.telemetry /\ ~next.telemetry
    <3>1. captured' = captured \cup Tele!Tracked({"telemetry_disabled"}, enabled, FALSE)
      BY <2>1 DEF Tele!Update, Tele!onSettingsChanged
    <3> QED
      BY <1>4, <3>1, TrackedConsented, ConsentStays
  <2>2. CASE ~seen.telemetry /\ next.telemetry
    <3>1. captured' = captured \cup
                        Tele!Tracked({"telemetry_enabled"} \cup Tele!Changed(next), TRUE, TRUE)
      BY <2>2 DEF Tele!Update, Tele!onSettingsChanged
    <3> QED
      BY <3>1, TrackedConsented, ConsentStays
  <2>3. CASE seen.telemetry = next.telemetry
    <3>1. captured' = captured \cup Tele!Tracked(Tele!Changed(next), enabled, next.telemetry)
      BY <1>4, <2>3 DEF Tele!Update, Tele!onSettingsChanged
    <3>2. enabled = FALSE \/ next.telemetry = TRUE
      BY <1>4, <2>3
    <3> QED
      BY <1>4, <3>1, <3>2, TrackedConsented, ConsentStays
  <2> QED
    BY <1>4, <2>1, <2>2, <2>3
<1> QED
  BY <1>2, <1>3, <1>5

LEMMA HostComesAndGoes ==
  ASSUME TeleInv, Tele!shutdown \/ Tele!start PROVE TeleInv'
<1> USE DEF TeleInv
<1>1. /\ UNCHANGED <<draft, edits, ids, waiting, sends, captured>>
      /\ settings' = settings /\ client' \in BOOLEAN /\ outbox' \subseteq outbox
  BY DEF Tele!shutdown, Tele!start, Tele!formVars
<1>2. CountersTyped' /\ IdsCounted' /\ TextsTyped' /\ FeedbackSound' /\ Arrivals'
  <2>1. CASE Tele!shutdown
    BY <1>1, <2>1, HostKeeps DEF Tele!shutdown
  <2>2. CASE Tele!start
    BY <1>1, <2>2, HostKeeps DEF Tele!start
  <2> QED
    BY <2>1, <2>2
<1>3. ConsentCopied'
  <2>1. CASE Tele!shutdown
    BY <2>1 DEF Tele!shutdown, ConsentCopied
  <2>2. CASE Tele!start
    BY <2>2 DEF Tele!start, ConsentCopied
  <2> QED
    BY <2>1, <2>2
<1>4. Tele!ConsentHeld'
  BY <1>1 DEF Tele!ConsentHeld
<1> QED
  BY <1>2, <1>3, <1>4

LEMMA BackgroundKeeps ==
  ASSUME TeleInv, NEW f \in outbox, Tele!Background(f) PROVE TeleInv'
<1> USE DEF TeleInv
<1>1. /\ UNCHANGED <<settings, client, enabled, seen>>
      /\ UNCHANGED <<draft, edits, ids, waiting, sends, captured>>
      /\ outbox' \subseteq outbox /\ {f} \subseteq outbox
      /\ stored' = stored \/ stored' \in Tele!Arrived({f})
  BY DEF Tele!Background, Tele!hostVars, Tele!formVars
<1>2. CountersTyped' /\ IdsCounted' /\ TextsTyped' /\ FeedbackSound' /\ Arrivals'
  BY <1>1, HostKeeps
<1>3. ConsentCopied' /\ Tele!ConsentHeld'
  BY <1>1 DEF ConsentCopied, Tele!ConsentHeld
<1> QED
  BY <1>2, <1>3

(* A new draft or another waiting form: what was submitted stays as it is. *)
LEMMA setMessageKeeps == ASSUME TeleInv, Tele!setMessage PROVE TeleInv'
<1> USE DEF TeleInv
<1>1. /\ UNCHANGED <<settings, client, enabled, seen>>
      /\ UNCHANGED <<ids, waiting, sends, outbox, stored, captured>>
      /\ edits < MaxEdits /\ edits' = edits + 1
      /\ draft' = [draft EXCEPT !.text = edits + 1]
  BY DEF Tele!setMessage, Tele!hostVars
<1>2. PICK n : n = edits + 1
  OBVIOUS
<1>3. /\ edits \in Nat /\ MaxEdits \in Nat /\ n \in Nat
      /\ draft \in [id : Nat, text : Nat] /\ draft' = [draft EXCEPT !.text = n]
  BY <1>1, <1>2, TeleAssumption DEF CountersTyped, Tele!TelemetryAssumption
<1>4. draft' \in [id : Nat, text : Nat] /\ draft'.id = draft.id /\ draft'.text = n
  BY <1>3
<1>5. CountersTyped'
  BY <1>1, <1>2, <1>3, <1>4 DEF CountersTyped
<1>6. TextsTyped'
  <2>1. \A i \in 1 .. Len(sends) : sends[i].text # n /\ sends[i].text <= n
    BY <1>2, <1>3, TeleNumbers DEF TextsTyped
  <2>2. edits' = n /\ sends' = sends /\ ids' = ids
    BY <1>1, <1>2
  <2> QED
    BY <1>4, <2>1, <2>2 DEF TextsTyped
<1>7. FeedbackSound' /\ Arrivals' /\ ConsentCopied' /\ Tele!ConsentHeld' /\ IdsCounted'
  BY <1>1 DEF FeedbackSound, Submitted, Arrivals, ConsentCopied, Tele!ConsentHeld, IdsCounted,
              ToldSent
<1> QED
  BY <1>5, <1>6, <1>7

LEMMA ReopenKeeps == ASSUME TeleInv, Tele!Reopen \/ UNCHANGED Tele!vars PROVE TeleInv'
<1> USE DEF TeleInv
<1>1. /\ UNCHANGED <<settings, client, enabled, seen>>
      /\ UNCHANGED <<draft, edits, ids, sends, outbox, stored, captured>>
      /\ waiting' \in {0, waiting}
  BY DEF Tele!Reopen, Tele!hostVars, Tele!vars, Tele!formVars
<1>2. CountersTyped'
  BY <1>1 DEF CountersTyped
<1>3. TextsTyped' /\ FeedbackSound' /\ Arrivals'
  BY <1>1, ZenonT(60) DEF TextsTyped, FeedbackSound, Submitted, Arrivals
<1>4. ConsentCopied' /\ Tele!ConsentHeld' /\ IdsCounted'
  BY <1>1 DEF ConsentCopied, Tele!ConsentHeld, IdsCounted, ToldSent
<1> QED
  BY <1>2, <1>3, <1>4

LEMMA submitKeeps == ASSUME TeleInv, Tele!submit PROVE TeleInv'
<1> USE DEF TeleInv
<1>1. /\ UNCHANGED <<settings, client, enabled, seen>>
      /\ UNCHANGED <<draft, edits, ids, outbox, stored, captured>>
      /\ draft.text # 0 /\ Len(sends) < MaxSends /\ waiting' = Len(sends) + 1
      /\ sends' = Append(sends, [id |-> draft.id, text |-> draft.text, at |-> "called"])
  BY DEF Tele!submit, Tele!hostVars
<1>2. PICK r, n : r = [id |-> draft.id, text |-> draft.text, at |-> "called"] /\ n = Len(sends)
  OBVIOUS
<1>3. /\ r.id = draft.id /\ r.text = draft.text /\ r.at = "called"
      /\ draft.id \in Nat /\ draft.text \in Nat /\ r \in Submissions
  BY <1>2 DEF CountersTyped, Submissions, Stages
<1>4. sends \in Seq(Submissions) /\ n \in Nat /\ n = Len(sends) /\ MaxSends \in Nat
  BY <1>2, TeleAssumption DEF CountersTyped, Tele!TelemetryAssumption
<1>5. /\ sends' \in Seq(Submissions) /\ Len(sends') = n + 1 /\ sends'[n + 1] = r
      /\ \A j \in 1 .. n : sends'[j] = sends[j]
  BY <1>1, <1>2, <1>3, <1>4
<1>6. CountersTyped'
  BY <1>1, <1>4, <1>5 DEF CountersTyped
<1>7. ToldSent' = ToldSent
  <2>1. \A j \in 1 .. n + 1 : sends'[j].at = "told sent" <=> j \in 1 .. n /\ sends[j].at = "told sent"
    <3> SUFFICES ASSUME NEW j \in 1 .. n + 1
                 PROVE  sends'[j].at = "told sent" <=> j \in 1 .. n /\ sends[j].at = "told sent"
      OBVIOUS
    <3>1. CASE j = n + 1
      BY <1>3, <1>4, <1>5, <3>1
    <3>2. CASE j # n + 1
      <4>1. j \in 1 .. n
        BY <1>4, <3>2
      <4> QED
        BY <1>5, <4>1
    <3> QED
      BY <3>1, <3>2
  <2>2. 1 .. n \subseteq 1 .. n + 1
    BY <1>4
  <2> QED
    BY <1>4, <1>5, <2>1, <2>2, Zenon DEF ToldSent
<1>8. IdsCounted'
  BY <1>1, <1>7, CountStays
<1>9. \A j \in 1 .. n + 1 : j \in 1 .. n \/ j = n + 1
  BY <1>4
<1>10. TextsTyped'
  <2>1. draft.id >= 1 /\ draft.id <= ids /\ draft.text >= 1 /\ draft.text <= edits
    BY <1>1, <1>3 DEF CountersTyped
  <2>2. ASSUME NEW i \in 1 .. n + 1
        PROVE  /\ sends'[i].id >= 1 /\ sends'[i].id <= ids
               /\ sends'[i].text >= 1 /\ sends'[i].text <= edits
               /\ sends'[i].text = draft.text => sends'[i].id = draft.id
    BY <1>3, <1>4, <1>5, <1>9, <2>1 DEF TextsTyped
  <2>3. ASSUME NEW i \in 1 .. n + 1, NEW j \in 1 .. n + 1, sends'[i].text = sends'[j].text
        PROVE  sends'[i].id = sends'[j].id
    BY <1>3, <1>4, <1>5, <1>9, <2>2, <2>3 DEF TextsTyped
  <2> QED
    BY <1>1, <1>5, <2>2, <2>3 DEF TextsTyped
<1>11. FeedbackSound'
  <2>1. \A f : Submitted(f) => Submitted(f)'
    BY <1>4, <1>5 DEF Submitted
  <2> QED
    BY <1>1, <2>1 DEF FeedbackSound
<1>12. Arrivals'
  BY <1>1, <1>3, <1>4, <1>5, <1>9, ZenonT(60) DEF Arrivals
<1>13. ConsentCopied' /\ Tele!ConsentHeld'
  BY <1>1 DEF ConsentCopied, Tele!ConsentHeld
<1> QED
  BY <1>6, <1>8, <1>10, <1>11, <1>12, <1>13

LEMMA WaitingKept ==
  ASSUME CountersTyped, SameSends, waiting' \in {0, waiting}
  PROVE  waiting' \in 0 .. Len(sends')
<1>1. Len(sends') = Len(sends)
  BY DEF SameSends
<1>2. Len(sends) \in Nat /\ waiting \in 0 .. Len(sends)
  BY TeleNumbers DEF CountersTyped
<1>3. CASE waiting' = waiting
  BY <1>1, <1>2, <1>3
<1>4. CASE waiting' = 0
  BY <1>1, <1>2, <1>4
<1> QED
  BY <1>3, <1>4

(* A submission that was told as sent: the draft is a new one, of the next id. *)
LEMMA NewDraft ==
  ASSUME CountersTyped, IdsCounted, TextsTyped, SameSends, sends' \in Seq(Submissions),
         waiting' \in {0, waiting}, edits' = edits, NEW k, k = ids + 1,
         ids' = k, draft' = [id |-> k, text |-> 0],
         NEW i, ToldSent' = ToldSent \cup {i}, i \notin ToldSent
  PROVE  CountersTyped' /\ IdsCounted' /\ TextsTyped'
<1>1. /\ ids \in Nat /\ edits \in Nat /\ Len(sends) \in Nat /\ ids >= 1
      /\ k \in Nat /\ k >= 1 /\ ids <= k
  BY TeleNumbers DEF CountersTyped
<1>2. draft' \in [id : Nat, text : Nat] /\ draft'.id = k /\ draft'.text = 0
  BY <1>1
<1>3. waiting' \in 0 .. Len(sends')
  BY WaitingKept
<1>4. Len(sends') <= MaxSends
  BY DEF CountersTyped, SameSends
<1>5. /\ edits' \in 0 .. MaxEdits /\ ids' \in Nat /\ ids' >= 1
      /\ draft'.id >= 1 /\ draft'.id <= ids' /\ draft'.text <= edits'
  BY <1>1, <1>2 DEF CountersTyped
<1>6. CountersTyped'
  BY <1>2, <1>3, <1>4, <1>5 DEF CountersTyped
<1>7. TextsTyped'
  <2>1. ASSUME NEW j \in 1 .. Len(sends)
        PROVE  /\ sends'[j].id >= 1 /\ sends'[j].id <= ids'
               /\ sends'[j].text >= 1 /\ sends'[j].text <= edits'
               /\ sends'[j].text = draft'.text => sends'[j].id = draft'.id
    <3>1. /\ sends[j].id \in Nat /\ sends[j].id >= 1 /\ sends[j].id <= ids
          /\ sends[j].text \in Nat /\ sends[j].text >= 1 /\ sends[j].text <= edits
      BY TeleNumbers DEF TextsTyped
    <3>2. sends'[j].id = sends[j].id /\ sends'[j].text = sends[j].text
      BY DEF SameSends
    <3>3. sends[j].id <= k /\ sends[j].text # 0
      BY <1>1, <3>1
    <3> QED
      BY <1>2, <3>1, <3>2, <3>3
  <2>2. ASSUME NEW u \in 1 .. Len(sends), NEW v \in 1 .. Len(sends),
               sends'[u].text = sends'[v].text
        PROVE  sends'[u].id = sends'[v].id
    <3>1. sends[u].text = sends[v].text
      BY <2>2 DEF SameSends
    <3>2. sends[u].id = sends[v].id
      BY <3>1 DEF TextsTyped
    <3> QED
      BY <3>2 DEF SameSends
  <2> QED
    BY <2>1, <2>2 DEF TextsTyped, SameSends
<1>8. IdsCounted'
  <2>1. Cardinality(ToldSent') = Cardinality(ToldSent) + 1 /\ Cardinality(ToldSent) \in Nat
    BY ToldIsFinite, FS_AddElement, FS_CardinalityType
  <2> QED
    BY <1>1, <2>1 DEF IdsCounted
<1> QED
  BY <1>6, <1>7, <1>8

(* A stage of a submission other than that it was told as sent. *)
LEMMA StageKeeps ==
  ASSUME TeleInv, NEW i \in 1 .. Len(sends), NEW at \in Stages, Tele!Reaches(i, at),
         sends[i].at # "told sent", at # "told sent",
         UNCHANGED <<draft, edits, ids>>, waiting' \in {0, waiting}
  PROVE  CountersTyped' /\ IdsCounted' /\ TextsTyped'
<1> USE DEF TeleInv
<1>1. /\ SameSends /\ sends' \in Seq(Submissions)
      /\ \A j \in 1 .. Len(sends) : sends'[j].at = IF j = i THEN at ELSE sends[j].at
  BY ReachesAt
<1>2. CountersTyped'
  <2>1. waiting' \in 0 .. Len(sends')
    BY <1>1, WaitingKept
  <2> QED
    BY <1>1, <2>1 DEF CountersTyped, SameSends
<1>3. ToldSent' = ToldSent
  BY <1>1 DEF ToldSent, SameSends
<1>4. IdsCounted'
  BY <1>3, CountStays
<1>5. TextsTyped'
  BY <1>1, TextsStay
<1> QED
  BY <1>2, <1>4, <1>5

LEMMA sendKeeps ==
  ASSUME TeleInv, NEW i \in 1 .. Len(sends), Tele!sendFeedback(i) \/ Tele!FlushFails(i)
  PROVE  TeleInv'
<1> USE DEF TeleInv
<1>1. /\ UNCHANGED <<settings, client, enabled, seen>>
      /\ UNCHANGED <<draft, edits, ids, waiting, stored>>
      /\ sends[i].at \in {"called", "flushing"}
  BY DEF Tele!sendFeedback, Tele!FlushFails, Tele!hostVars, Tele!formVars
<1>2. PICK at \in {"flushing", "failed"} : Tele!Reaches(i, at)
  BY DEF Tele!sendFeedback, Tele!FlushFails
<1>3. at \in Stages
  BY DEF Stages
<1>4. CountersTyped' /\ IdsCounted' /\ TextsTyped'
  BY <1>1, <1>2, <1>3, StageKeeps
<1>5. /\ SameSends
      /\ \A j \in 1 .. Len(sends) : sends'[j].at = IF j = i THEN at ELSE sends[j].at
  BY <1>2, <1>3, ReachesAt
<1>6. Arrivals'
  BY <1>1, <1>5, ZenonT(60) DEF Arrivals, SameSends
<1>7. outbox' \subseteq outbox \cup {[id |-> sends[i].id, text |-> sends[i].text]}
  BY DEF Tele!sendFeedback, Tele!FlushFails
<1>8. FeedbackSound'
  <2>1. \A f \in outbox' \cup stored : Submitted(f)
    BY <1>7 DEF FeedbackSound, Submitted
  <2>2. \A f \in outbox' \cup stored : Submitted(f)'
    BY <1>5, <2>1, SubmittedStays
  <2> QED
    BY <1>1, <2>2 DEF FeedbackSound
<1>9. ConsentCopied'
  BY <1>1 DEF ConsentCopied
<1>10. Tele!ConsentHeld'
  BY DEF Tele!sendFeedback, Tele!FlushFails, Tele!ConsentHeld
<1> QED
  BY <1>4, <1>6, <1>8, <1>9, <1>10

LEMMA FlushedKeeps ==
  ASSUME TeleInv, NEW i \in 1 .. Len(sends), Tele!Flushed(i) PROVE TeleInv'
<1> USE DEF TeleInv
<1>1. /\ UNCHANGED <<settings, client, enabled, seen>>
      /\ UNCHANGED <<draft, edits, ids, waiting>>
      /\ sends[i].at = "flushing" /\ Tele!Reaches(i, "sent")
      /\ stored' \in Tele!Arrived(outbox) /\ outbox' = {}
      /\ \E f \in outbox \cup stored : f.id = sends[i].id
      /\ captured' = captured \cup Tele!Tracked({"feedback_sent"}, enabled, settings.telemetry)
  BY DEF Tele!Flushed, Tele!hostVars, Tele!formVars
<1>2. "sent" \in Stages
  BY DEF Stages
<1>3. CountersTyped' /\ IdsCounted' /\ TextsTyped'
  BY <1>1, <1>2, StageKeeps
<1>4. /\ SameSends
      /\ \A j \in 1 .. Len(sends) : sends'[j].at = IF j = i THEN "sent" ELSE sends[j].at
  BY <1>1, <1>2, ReachesAt
<1>5. FeedbackSound' /\ stored \subseteq stored'
  BY <1>1, <1>4, DeliverKeeps
<1>6. \E s \in stored' : s.id = sends[i].id
  <2>1. \A f \in outbox : \E s \in stored' : s.id = f.id
    BY <1>1, ArrivedSound
  <2> QED
    BY <1>1, <1>5, <2>1
<1>7. Arrivals'
  BY <1>4, <1>5, <1>6, ZenonT(60) DEF Arrivals, SameSends
<1>8. ConsentCopied'
  BY <1>1 DEF ConsentCopied
<1>9. enabled \in BOOLEAN /\ settings.telemetry \in BOOLEAN /\ enabled = settings.telemetry
  BY DEF ConsentCopied, Tele!Settings
<1>10. Tele!ConsentHeld'
  BY <1>1, <1>9, TrackedConsented, ConsentStays
<1> QED
  BY <1>3, <1>5, <1>7, <1>8, <1>10

LEMMA AnswerKeeps ==
  ASSUME TeleInv, NEW i \in 1 .. Len(sends), Tele!Answer(i) PROVE TeleInv'
<1> USE DEF TeleInv
<1>1. /\ UNCHANGED <<settings, client, enabled, seen>>
      /\ UNCHANGED <<edits, outbox, stored, captured>>
      /\ sends[i].at \in {"sent", "failed"} /\ waiting' \in {0, waiting}
  BY DEF Tele!Answer, Tele!hostVars
<1>2. ConsentCopied' /\ Tele!ConsentHeld'
  BY <1>1 DEF ConsentCopied, Tele!ConsentHeld
<1>3. PICK at \in {"told sent", "told failed"} :
        Tele!Reaches(i, at) /\ (at = "told sent" <=> sends[i].at = "sent")
  BY DEF Tele!Answer
<1>4. at \in Stages
  BY DEF Stages
<1>5. /\ SameSends /\ sends' \in Seq(Submissions)
      /\ \A j \in 1 .. Len(sends) : sends'[j].at = IF j = i THEN at ELSE sends[j].at
  BY <1>3, <1>4, ReachesAt
<1>6. FeedbackSound'
  BY <1>1, <1>5, DeliverKeeps
<1>7. Arrivals'
  BY <1>1, <1>3, <1>5, ZenonT(60) DEF Arrivals, SameSends
<1>8. CountersTyped' /\ IdsCounted' /\ TextsTyped'
  <2>1. CASE sends[i].at = "failed"
    <3>1. UNCHANGED <<draft, ids>>
      BY <2>1 DEF Tele!Answer
    <3>2. at # "told sent"
      BY <1>3, <2>1
    <3> QED
      BY <1>1, <1>3, <1>4, <2>1, <3>1, <3>2, StageKeeps
  <2>2. CASE sends[i].at = "sent"
    <3>0. PICK k : k = ids + 1
      OBVIOUS
    <3>1. draft' = [id |-> k, text |-> 0] /\ ids' = k /\ at = "told sent"
      BY <1>3, <2>2, <3>0 DEF Tele!Answer
    <3>2. ToldSent' = ToldSent \cup {i} /\ i \notin ToldSent
      BY <1>5, <2>2, <3>1 DEF ToldSent, SameSends
    <3> QED
      BY <1>1, <1>5, <3>0, <3>1, <3>2, NewDraft
  <2> QED
    BY <1>1, <2>1, <2>2
<1> QED
  BY <1>2, <1>6, <1>7, <1>8

(* The inductive invariant: the host's copies of the consent are the setting, a text belongs
   to one draft, whatever is held or stored was submitted, and PostHog has one event of
   each id, among them every one that was flushed in time. *)
THEOREM TeleInductive == Tele!Spec => []TeleInv
<1>1. TeleInv /\ [Tele!Next]_(Tele!vars) => TeleInv'
  BY TrackKeeps, setMessageKeeps, ReopenKeeps, submitKeeps, HostComesAndGoes, UpdateKeeps,
     sendKeeps, FlushedKeeps, AnswerKeeps, BackgroundKeeps
     DEF Tele!Next
<1> QED
  BY TeleBegins, <1>1, PTL DEF Tele!Spec

(* Nothing is captured without consent but the event that says so and feedback the user
   sends; a text is stored once however often it is sent; what was reported as sent is at
   PostHog (analytics/index.ts, stores/feedback.ts, FeedbackButton.tsx). *)
THEOREM OnlyWhatWasMeant == Tele!Spec => []Tele!TelemetrySound
<1>1. TeleInv => Tele!TelemetrySound
  <2> SUFFICES ASSUME TeleInv PROVE Tele!TelemetrySound
    OBVIOUS
  <2> USE DEF TeleInv
  <2>1. Tele!StoredOnce
    <3> SUFFICES ASSUME NEW s \in stored, NEW t \in stored, s.text = t.text PROVE s = t
      BY DEF Tele!StoredOnce
    <3>1. PICK i \in 1 .. Len(sends) : s = [id |-> sends[i].id, text |-> sends[i].text]
      BY DEF FeedbackSound, Submitted
    <3>2. PICK j \in 1 .. Len(sends) : t = [id |-> sends[j].id, text |-> sends[j].text]
      BY DEF FeedbackSound, Submitted
    <3>3. s.id = t.id
      BY <3>1, <3>2 DEF TextsTyped
    <3> QED
      BY <3>3 DEF FeedbackSound
  <2>2. Tele!SentIsStored
    <3> SUFFICES ASSUME NEW i \in 1 .. Len(sends), sends[i].at \in {"sent", "told sent"}
                 PROVE  \E s \in stored :
                          /\ s.id = sends[i].id
                          /\ \E j \in 1 .. Len(sends) :
                               sends[j].id = s.id /\ sends[j].text = s.text
      BY DEF Tele!SentIsStored
    <3>1. PICK s \in stored : s.id = sends[i].id
      BY DEF Arrivals
    <3>2. PICK j \in 1 .. Len(sends) : s = [id |-> sends[j].id, text |-> sends[j].text]
      BY DEF FeedbackSound, Submitted
    <3> QED
      BY <3>1, <3>2
  <2>3. Tele!TypeOK
    <3>1. MaxSends \in Nat /\ MaxEdits \in Nat /\ Len(sends) \in Nat /\ Len(sends) <= MaxSends
      BY TeleAssumption DEF Tele!TelemetryAssumption, CountersTyped
    <3>2. Cardinality(ToldSent) \in Nat /\ Cardinality(ToldSent) <= Len(sends)
      <4>1. IsFiniteSet(1 .. Len(sends)) /\ Cardinality(1 .. Len(sends)) = Len(sends)
        <5>1. Len(sends) \in Int /\ 1 \in Int
          BY <3>1
        <5>2. /\ IsFiniteSet(1 .. Len(sends))
              /\ Cardinality(1 .. Len(sends)) = IF 1 > Len(sends) THEN 0 ELSE Len(sends) - 1 + 1
          BY <5>1, FS_Interval
        <5>3. (IF 1 > Len(sends) THEN 0 ELSE Len(sends) - 1 + 1) = Len(sends)
          BY <3>1
        <5> QED
          BY <5>2, <5>3
      <4>2. ToldSent \subseteq 1 .. Len(sends)
        BY DEF ToldSent
      <4> QED
        BY <4>1, <4>2, ToldIsFinite, FS_Subset, FS_CardinalityType
    <3>3. ids \in Nat /\ ids <= 2 * MaxSends + 1
      BY <3>1, <3>2 DEF CountersTyped, IdsCounted
    <3>4. draft \in Tele!Feedback
      BY <3>1, <3>3 DEF CountersTyped, Tele!Feedback, Tele!Texts
    <3>5. \A f \in outbox \cup stored : f \in Tele!Feedback
      <4> SUFFICES ASSUME NEW f \in outbox \cup stored PROVE f \in Tele!Feedback
        OBVIOUS
      <4>1. PICK j \in 1 .. Len(sends) : f = [id |-> sends[j].id, text |-> sends[j].text]
        BY DEF FeedbackSound, Submitted
      <4>2. sends[j] \in Submissions
        BY DEF CountersTyped
      <4>3. /\ sends[j].id \in Nat /\ sends[j].id >= 1 /\ sends[j].id <= ids
            /\ sends[j].text \in Nat /\ sends[j].text <= edits
            /\ edits \in Nat /\ edits <= MaxEdits
        BY <3>1, <4>2, SMTT(30) DEF TextsTyped, Submissions, CountersTyped
      <4>4. sends[j].id \in 1 .. 2 * MaxSends + 1 /\ sends[j].text \in 0 .. MaxEdits
        BY <3>1, <3>3, <4>3
      <4> QED
        BY <4>1, <4>4 DEF Tele!Feedback, Tele!Texts
    <3>6. /\ {settings, seen} \subseteq Tele!Settings
          /\ {client, enabled} \subseteq BOOLEAN
      BY Zenon DEF ConsentCopied, Tele!Settings
    <3>7. \A i \in 1 .. Len(sends) : sends[i].at \in Stages
      <4> SUFFICES ASSUME NEW i \in 1 .. Len(sends) PROVE sends[i].at \in Stages
        OBVIOUS
      <4>1. sends[i] \in Submissions
        BY DEF CountersTyped
      <4> QED
        BY <4>1 DEF Submissions
    <3> QED
      BY <3>4, <3>5, <3>6, <3>7 DEF Tele!TypeOK, CountersTyped, Stages
  <2> QED
    BY <2>1, <2>2, <2>3 DEF Tele!TelemetrySound
<1> QED
  BY <1>1, TeleInductive, PTL

-----------------------------------------------------------------------------
(***************************************************************************)
(* AgentDesk: the statuses of the agents and the tray that follows them.   *)
(***************************************************************************)
Arbs == [pty : [Agents -> {"unset", "working", "idle"}], needs : SUBSET Agents,
         pending : [Agents -> 0 .. MaxCards]]

HostTyped ==
  /\ status \in [Agents -> Desk!Statuses] /\ arb \in Arbs
  /\ sess \subseteq Agents /\ timers \subseteq Agents

CardsTyped == cards \in [Agents -> 0 .. MaxCards] /\ noted \in 0 .. MaxEvents

(* The messages under way and the tray, a field for each stream. *)
Stream(s) ==
  s = [agents |-> s.agents, recent |-> s.recent, signal |-> s.signal, asked |-> s.asked,
       answer |-> s.answer]

StreamsTyped ==
  /\ Stream(sent)
  /\ tray = [agents |-> tray.agents, pending |-> tray.pending, recent |-> tray.recent]

(* The arbiter's signals are the facts they stand for, and the status is their winner. *)
Told(a) ==
  /\ arb.pty[a] = "working" <=> a \in timers
  /\ arb.pending[a] = cards[a]
  /\ status[a] = Desk!Winner(arb, a)

HostSound ==
  /\ hostUp \in BOOLEAN
  /\ hostUp = TRUE => \A a \in Agents \ gone : Told(a)
  /\ hostUp = FALSE => arb = Desk!Cold /\ sess = {} /\ timers = {}
  /\ relay = "on" => hostUp = TRUE

(* A stream with nothing under way has told the tray what there is; what is under way
   is what there is. *)
Follows(message, shown, v) == message = v \/ (message = None /\ shown = v)

TraySound ==
  relay = "on" =>
    /\ Follows(sent.agents, tray.agents, Desk!list(status, gone))
    /\ Follows(sent.recent, tray.recent, ring)
    /\ sent.signal = FALSE /\ sent.asked = FALSE =>
         Follows(sent.answer, tray.pending, Desk!PendingTotal)

RingSound == ring = Desk!NewestFirst(noted)

DeskInv == HostTyped /\ CardsTyped /\ StreamsTyped /\ HostSound /\ TraySound /\ RingSound

-----------------------------------------------------------------------------
LEMMA DeskConstants ==
  /\ MaxCards \in Nat /\ RecentMax \in Nat /\ MaxEvents \in Nat
  /\ \A as \in SUBSET Agents : None \notin [as -> Desk!Statuses]
  /\ \A n \in 0 .. MaxEvents : Desk!NewestFirst(n) # None
  /\ \A pending \in [Agents -> 0 .. MaxCards] : Desk!TotalOf(pending) # None
  BY DeskAssumption DEF Desk!DeskAssumption

(* What there is of each stream is not None. *)
LEMMA NoneIsNothing ==
  ASSUME DeskInv
  PROVE  /\ Desk!list(status, gone) # None /\ ring # None /\ Desk!PendingTotal # None
<1> USE DeskConstants DEF DeskInv
<1>1. Desk!list(status, gone) \in [Agents \ gone -> Desk!Statuses]
  BY DEF Desk!list, HostTyped
<1>2. ring # None
  BY DEF RingSound, CardsTyped
<1>3. Desk!PendingTotal # None
  BY DEF Desk!PendingTotal, CardsTyped
<1> QED
  BY <1>1, <1>2, <1>3

-----------------------------------------------------------------------------
(* The operators *)

(* A connected launcher is sent one value on one stream. *)
LEMMA TellsOne ==
  ASSUME NEW s, NEW v, Stream(s)
  PROVE  /\ Stream(Desk!Tell(s, "agents", v)) /\ Stream(Desk!Tell(s, "recent", v))
         /\ Stream(Desk!Tell(s, "signal", v))
         /\ relay # "on" => /\ Desk!Tell(s, "agents", v) = s /\ Desk!Tell(s, "recent", v) = s
                            /\ Desk!Tell(s, "signal", v) = s
         /\ relay = "on" =>
              /\ Desk!Tell(s, "agents", v) = [agents |-> v, recent |-> s.recent,
                   signal |-> s.signal, asked |-> s.asked, answer |-> s.answer]
              /\ Desk!Tell(s, "recent", v) = [agents |-> s.agents, recent |-> v,
                   signal |-> s.signal, asked |-> s.asked, answer |-> s.answer]
              /\ Desk!Tell(s, "signal", v) = [agents |-> s.agents, recent |-> s.recent,
                   signal |-> v, asked |-> s.asked, answer |-> s.answer]
<1>0. s \in [agents : {s.agents}, recent : {s.recent}, signal : {s.signal}, asked : {s.asked},
             answer : {s.answer}]
  BY DEF Stream
<1>1. /\ [s EXCEPT !["agents"] = v] = [s EXCEPT !.agents = v]
      /\ [s EXCEPT !["recent"] = v] = [s EXCEPT !.recent = v]
      /\ [s EXCEPT !["signal"] = v] = [s EXCEPT !.signal = v]
  OBVIOUS
<1>2. [s EXCEPT !.agents = v] = [agents |-> v, recent |-> s.recent, signal |-> s.signal,
                                 asked |-> s.asked, answer |-> s.answer]
  BY <1>0
<1>3. [s EXCEPT !.recent = v] = [agents |-> s.agents, recent |-> v, signal |-> s.signal,
                                 asked |-> s.asked, answer |-> s.answer]
  BY <1>0
<1>4. [s EXCEPT !.signal = v] = [agents |-> s.agents, recent |-> s.recent, signal |-> v,
                                 asked |-> s.asked, answer |-> s.answer]
  BY <1>0
<1>5. CASE relay = "on"
  BY <1>1, <1>2, <1>3, <1>4, <1>5 DEF Desk!Tell, Stream
<1>6. CASE relay # "on"
  BY <1>6 DEF Desk!Tell
<1> QED
  BY <1>5, <1>6

(* The winner is a status, and one of the agent's own signals. *)
LEMMA WinnerIsStatus ==
  ASSUME NEW r, NEW a PROVE Desk!Winner(r, a) \in Desk!Statuses
  BY DEF Desk!Winner, Desk!Statuses

LEMMA WinnerIsOwn ==
  ASSUME NEW r, NEW q, NEW a, r.pty[a] = q.pty[a], r.pending[a] = q.pending[a],
         a \in r.needs <=> a \in q.needs
  PROVE  Desk!Winner(r, a) = Desk!Winner(q, a)
  BY DEF Desk!Winner

(* Judging an agent leaves the others as they are. *)
LEMMA Judged ==
  ASSUME HostTyped, HostSound, NEW r \in Arbs, NEW a \in Agents, Desk!Judge(r, a),
         hostUp = TRUE, hostUp' = TRUE, gone' = gone,
         timers' \subseteq Agents, sess' \subseteq Agents,
         \A b \in Agents \ {a} :
           /\ r.pty[b] = arb.pty[b] /\ r.pending[b] = arb.pending[b]
           /\ b \in r.needs <=> b \in arb.needs
           /\ b \in timers' <=> b \in timers
           /\ cards'[b] = cards[b],
         a \notin gone =>
           /\ r.pty[a] = "working" <=> a \in timers'
           /\ r.pending[a] = cards'[a]
  PROVE  HostTyped' /\ HostSound'
<1>1. arb' = r /\ status' = [status EXCEPT ![a] = Desk!Winner(r, a)]
  BY DEF Desk!Judge
<1>2. HostTyped'
  BY <1>1, WinnerIsStatus DEF HostTyped
<1>3. status'[a] = Desk!Winner(r, a) /\ \A b \in Agents \ {a} : status'[b] = status[b]
  BY <1>1 DEF HostTyped
<1>4. ASSUME NEW b \in Agents \ gone PROVE Told(b)'
  <2>1. CASE b = a
    <3>1. status'[a] = Desk!Winner(arb', a)
      BY <1>1, <1>3
    <3>2. (arb'.pty[a] = "working" <=> a \in timers') /\ arb'.pending[a] = cards'[a]
      BY <1>1, <2>1
    <3> QED
      BY <2>1, <3>1, <3>2, Zenon DEF Told, Desk!Winner
  <2>2. CASE b # a
    <3>1. Told(b)
      BY DEF HostSound
    <3>2. Desk!Winner(r, b) = Desk!Winner(arb, b)
      BY <2>2, WinnerIsOwn
    <3>3. status'[b] = Desk!Winner(arb', b)
      BY <1>1, <1>3, <2>2, <3>1, <3>2 DEF Told
    <3>4. (arb'.pty[b] = "working" <=> b \in timers') /\ arb'.pending[b] = cards'[b]
      BY <1>1, <2>2, <3>1 DEF Told
    <3> QED
      BY <3>3, <3>4, Zenon DEF Told, Desk!Winner
  <2> QED
    BY <2>1, <2>2
<1>5. HostSound'
  BY <1>4 DEF HostSound
<1> QED
  BY <1>2, <1>5

(* The arbiter's operators change the signals of one agent. *)
LEMMA SetPty ==
  ASSUME arb \in Arbs, NEW a \in Agents, NEW p \in {"working", "idle"}
  PROVE  LET r == Desk!setPty(a, p) IN
         /\ r \in Arbs /\ r.pty[a] = p /\ r.pending = arb.pending
         /\ \A b \in Agents \ {a} :
              r.pty[b] = arb.pty[b] /\ (b \in r.needs <=> b \in arb.needs)
<1>1. PICK n : n = IF p = "working" THEN arb.needs \ {a} ELSE arb.needs
  OBVIOUS
<1>2. n \subseteq Agents /\ \A b \in Agents \ {a} : b \in n <=> b \in arb.needs
  BY <1>1 DEF Arbs
<1>3. Desk!setPty(a, p) = [arb EXCEPT !.pty[a] = p, !.needs = n]
  BY <1>1 DEF Desk!setPty
<1>4. PICK w : w = [arb.pty EXCEPT ![a] = p]
  OBVIOUS
<1>5. /\ w \in [Agents -> {"unset", "working", "idle"}] /\ w[a] = p
      /\ \A b \in Agents \ {a} : w[b] = arb.pty[b]
  BY <1>4 DEF Arbs
<1>6. Desk!setPty(a, p) = [pty |-> w, needs |-> n, pending |-> arb.pending]
  BY <1>3, <1>4 DEF Arbs
<1> QED
  BY <1>2, <1>5, <1>6 DEF Arbs

LEMMA SetNeeds ==
  ASSUME arb \in Arbs, NEW a \in Agents, NEW on \in BOOLEAN
  PROVE  LET r == Desk!setNeedsInput(a, on) IN
         /\ r \in Arbs /\ r.pty = arb.pty /\ r.pending = arb.pending
         /\ \A b \in Agents \ {a} : b \in r.needs <=> b \in arb.needs
<1>1. PICK n : n = IF on THEN arb.needs \cup {a} ELSE arb.needs \ {a}
  OBVIOUS
<1>2. n \subseteq Agents /\ \A b \in Agents \ {a} : b \in n <=> b \in arb.needs
  BY <1>1 DEF Arbs
<1>3. Desk!setNeedsInput(a, on) = [arb EXCEPT !.needs = n]
  BY <1>1 DEF Desk!setNeedsInput
<1> QED
  BY <1>2, <1>3 DEF Arbs

LEMMA SetPending ==
  ASSUME arb \in Arbs, NEW a \in Agents, NEW n \in 0 .. MaxCards
  PROVE  LET r == Desk!setPendingApprovals(a, n) IN
         /\ r \in Arbs /\ r.pty = arb.pty /\ r.needs = arb.needs /\ r.pending[a] = n
         /\ \A b \in Agents \ {a} : r.pending[b] = arb.pending[b]
  BY DEF Arbs, Desk!setPendingApprovals

(* A change of statuses reaches the stream of the agents. *)
LEMMA Broadcasts ==
  ASSUME DeskInv, gone' = gone
  PROVE  LET s == Desk!Broadcast(sent) IN
         /\ Stream(s) /\ s.recent = sent.recent /\ s.signal = sent.signal
         /\ s.asked = sent.asked /\ s.answer = sent.answer
         /\ relay = "on" => Follows(s.agents, tray.agents, Desk!list(status', gone'))
<1> USE DEF DeskInv
<1>1. CASE status' = status
  BY <1>1 DEF Desk!Broadcast, StreamsTyped, TraySound
<1>2. CASE status' # status
  <2>1. Desk!Broadcast(sent) = Desk!Tell(sent, "agents", Desk!list(status', gone))
    BY <1>2 DEF Desk!Broadcast
  <2>2. Stream(sent)
    BY DEF StreamsTyped
  <2> QED
    BY <2>1, <2>2, TellsOne DEF Follows
<1> QED
  BY <1>1, <1>2

LEMMA LeastOfTwo ==
  ASSUME NEW m \in Nat, NEW n \in Nat
  PROVE  Desk!Min({m, n}) = IF m <= n THEN m ELSE n
<1>1. PICK k : k = IF m <= n THEN m ELSE n
  OBVIOUS
<1>2. k \in {m, n} /\ k <= m /\ k <= n /\ k \in Nat
  BY <1>1
<1>3. \A x \in {m, n} : (\A y \in {m, n} : x <= y) => x = k
  BY <1>2
<1> QED
  BY <1>1, <1>2, <1>3 DEF Desk!Min

(* Recording one more event keeps the newest of them, newest first. *)
LEMMA RingStep ==
  ASSUME NEW n \in Nat, noted = n, ring = Desk!NewestFirst(n)
  PROVE  Desk!Recorded(ring) = Desk!NewestFirst(n + 1)
<1>1. RecentMax \in Nat
  BY DeskConstants
<1>2. PICK m : m = Desk!Min({n, RecentMax})
  OBVIOUS
<1>3. PICK k : k = Desk!Min({n + 1, RecentMax})
  OBVIOUS
<1>4. /\ m = IF n <= RecentMax THEN n ELSE RecentMax
      /\ k = IF n + 1 <= RecentMax THEN n + 1 ELSE RecentMax
  <2>1. n + 1 \in Nat
    OBVIOUS
  <2> QED
    BY <1>1, <1>2, <1>3, <2>1, LeastOfTwo
<1>5. m \in Nat /\ m + 1 \in Nat /\ k \in Nat /\ k <= m + 1
  BY <1>1, <1>4
<1>6. Desk!Min({m + 1, RecentMax}) = k
  <2>1. Desk!Min({m + 1, RecentMax}) = IF m + 1 <= RecentMax THEN m + 1 ELSE RecentMax
    BY <1>1, <1>5, LeastOfTwo
  <2> QED
    BY <1>1, <1>4, <1>5, <2>1
<1>7. ring = [i \in 1 .. m |-> n + 1 - i]
  BY <1>2 DEF Desk!NewestFirst
<1>8. ring \in Seq(Nat) /\ Len(ring) = m /\ \A i \in 1 .. m : ring[i] = n + 1 - i
  <2>1. \A i \in 1 .. m : n + 1 - i \in Nat
    BY <1>1, <1>4, <1>5
  <2> QED
    BY <1>5, <1>7, <2>1
<1>9. PICK q : q = <<n + 1>> \o ring
  OBVIOUS
<1>10. /\ q \in Seq(Nat) /\ Len(q) = m + 1 /\ q[1] = n + 1
       /\ \A i \in 1 .. m : q[i + 1] = ring[i]
  <2>1. <<n + 1>> \in Seq(Nat) /\ Len(<<n + 1>>) = 1 /\ <<n + 1>>[1] = n + 1
    OBVIOUS
  <2> QED
    BY <1>5, <1>8, <1>9, <2>1
<1>11. \A i \in 1 .. k : q[i] = n + 2 - i
  <2> SUFFICES ASSUME NEW i \in 1 .. k PROVE q[i] = n + 2 - i
    OBVIOUS
  <2>1. CASE i = 1
    BY <1>10, <2>1
  <2>2. CASE i # 1
    <3>1. i - 1 \in 1 .. m /\ (i - 1) + 1 = i
      BY <1>5, <2>2
    <3>2. q[i] = ring[i - 1]
      BY <1>10, <3>1
    <3> QED
      BY <1>5, <1>8, <3>1, <3>2
  <2> QED
    BY <2>1, <2>2
<1>12. SubSeq(q, 1, k) = [i \in 1 .. k |-> q[i]]
  BY <1>5, <1>10
<1>13. Desk!Recorded(ring) = SubSeq(q, 1, k)
  BY <1>6, <1>8, <1>9 DEF Desk!Recorded
<1>14. Desk!NewestFirst(n + 1) = [i \in 1 .. k |-> n + 2 - i]
  BY <1>3 DEF Desk!NewestFirst
<1> QED
  BY <1>11, <1>12, <1>13, <1>14

(* A notify event is recorded and sent. *)
LEMMA Notified ==
  ASSUME DeskInv, NEW s, Stream(s), Desk!Notify(s)
  PROVE  /\ noted' \in 0 .. MaxEvents /\ RingSound'
         /\ Stream(sent') /\ sent'.agents = s.agents /\ sent'.signal = s.signal
         /\ sent'.asked = s.asked /\ sent'.answer = s.answer
         /\ relay = "on" => Follows(sent'.recent, tray.recent, ring')
<1> USE DeskConstants
<1>1. PICK n : n = noted
  OBVIOUS
<1>2. n \in Nat /\ n < MaxEvents /\ noted' = n + 1
  BY <1>1 DEF Desk!Notify, DeskInv, CardsTyped
<1>3. Desk!Recorded(ring) = Desk!NewestFirst(n + 1)
  BY <1>1, <1>2, RingStep DEF DeskInv, RingSound
<1>4. RingSound'
  BY <1>2, <1>3 DEF Desk!Notify, RingSound, Desk!NewestFirst
<1>5. noted' \in 0 .. MaxEvents
  BY <1>2
<1>6. sent' = Desk!Tell(s, "recent", ring')
  BY DEF Desk!Notify
<1> QED
  BY <1>4, <1>5, <1>6, TellsOne DEF Follows

-----------------------------------------------------------------------------
(* The steps *)

LEMMA DeskBegins == Desk!Init => DeskInv
<1> SUFFICES ASSUME Desk!Init PROVE DeskInv
  OBVIOUS
<1> USE DeskConstants DEF Desk!Init
<1>1. HostTyped
  BY DEF HostTyped, Desk!Statuses, Arbs, Desk!Cold
<1>2. CardsTyped
  BY DEF CardsTyped
<1>3. StreamsTyped
  BY DEF StreamsTyped, Stream, Desk!Nothing, Desk!Blank
<1>4. \A a \in Agents : arb.pty[a] = "unset" /\ arb.pending[a] = 0 /\ a \notin arb.needs
  BY DEF Desk!Cold
<1>5. \A a \in Agents : Told(a)
  BY <1>4 DEF Told, Desk!Winner
<1>6. HostSound /\ TraySound
  BY <1>5 DEF HostSound, TraySound
<1>7. RingSound
  <2>1. Desk!Min({0, RecentMax}) = 0
    BY LeastOfTwo
  <2>2. Desk!NewestFirst(0) = [i \in 1 .. 0 |-> 0 + 1 - i]
    BY <2>1 DEF Desk!NewestFirst
  <2> QED
    BY <2>2 DEF RingSound
<1> QED
  BY <1>1, <1>2, <1>3, <1>6, <1>7 DEF DeskInv

LEMMA StartKeeps == ASSUME DeskInv, NEW a \in Agents, Desk!SessionStarts(a) PROVE DeskInv'
<1> USE DEF DeskInv
<1>1. /\ sess' = sess \cup {a}
      /\ UNCHANGED <<hostUp, gone, status, arb, timers, cards, ring, noted, relay, sent, tray>>
  BY DEF Desk!SessionStarts
<1>2. hostUp
  BY DEF Desk!SessionStarts
<1>3. HostTyped' /\ CardsTyped' /\ StreamsTyped' /\ RingSound'
  BY <1>1 DEF HostTyped, CardsTyped, StreamsTyped, Stream, RingSound
<1>4. HostSound'
  BY <1>1, <1>2, Zenon DEF HostSound, Told, Desk!Winner
<1>5. TraySound'
  BY <1>1 DEF TraySound, Follows, Desk!list, Desk!PendingTotal
<1> QED
  BY <1>3, <1>4, <1>5

(* Output, its end and an exit judge the agent by its PTY. *)
LEMMA PtyKeeps ==
  ASSUME DeskInv, NEW a \in Agents, Desk!Output(a) \/ Desk!IdleElapses(a) \/ Desk!SessionExits(a)
  PROVE  DeskInv'
<1> USE DEF DeskInv
<1>1. PICK p \in {"working", "idle"} :
        /\ Desk!Judge(Desk!setPty(a, p), a)
        /\ timers' = IF p = "working" THEN timers \cup {a} ELSE timers \ {a}
  BY DEF Desk!Output, Desk!IdleElapses, Desk!SessionExits
<1>2. /\ sess' \subseteq sess /\ sent' = Desk!Broadcast(sent)
      /\ UNCHANGED <<hostUp, gone, cards, ring, noted, relay, tray>>
  BY DEF Desk!Output, Desk!IdleElapses, Desk!SessionExits
<1>3. hostUp = TRUE
  BY DEF Desk!Output, Desk!IdleElapses, Desk!SessionExits, HostSound
<1>4. PICK r : r = Desk!setPty(a, p)
  OBVIOUS
<1>5. /\ r \in Arbs /\ r.pty[a] = p /\ r.pending = arb.pending
      /\ \A b \in Agents \ {a} : r.pty[b] = arb.pty[b] /\ (b \in r.needs <=> b \in arb.needs)
  BY <1>4, SetPty DEF HostTyped
<1>6. HostTyped' /\ HostSound'
  <2>1. timers' \subseteq Agents /\ sess' \subseteq Agents
    BY <1>1, <1>2 DEF HostTyped
  <2>2. \A b \in Agents \ {a} : b \in timers' <=> b \in timers
    BY <1>1
  <2>3. p = "working" <=> a \in timers'
    BY <1>1
  <2>4. a \notin gone => arb.pending[a] = cards[a]
    BY <1>3 DEF HostSound, Told
  <2> QED
    BY <1>1, <1>2, <1>3, <1>4, <1>5, <2>1, <2>2, <2>3, <2>4, Judged
<1>7. CardsTyped' /\ RingSound'
  BY <1>2 DEF CardsTyped, RingSound
<1>8. StreamsTyped' /\ TraySound'
  BY <1>2, Broadcasts DEF StreamsTyped, TraySound, Desk!PendingTotal
<1> QED
  BY <1>6, <1>7, <1>8

LEMMA HookKeeps ==
  ASSUME DeskInv, NEW a \in Agents, NEW event, Desk!Hook(a, event) PROVE DeskInv'
<1> USE DEF DeskInv
<1>1. PICK on \in BOOLEAN : Desk!Judge(Desk!setNeedsInput(a, on), a)
  BY DEF Desk!Hook
<1>2. /\ sent' = Desk!Tell(sent, "agents", Desk!list(status', gone))
      /\ UNCHANGED <<hostUp, gone, sess, timers, cards, ring, noted, relay, tray>>
  BY DEF Desk!Hook
<1>3. hostUp = TRUE
  BY DEF Desk!Hook, HostSound
<1>4. PICK r : r = Desk!setNeedsInput(a, on)
  OBVIOUS
<1>5. /\ r \in Arbs /\ r.pty = arb.pty /\ r.pending = arb.pending
      /\ \A b \in Agents \ {a} : b \in r.needs <=> b \in arb.needs
  BY <1>4, SetNeeds DEF HostTyped
<1>6. HostTyped' /\ HostSound'
  <2>1. timers' \subseteq Agents /\ sess' \subseteq Agents
    BY <1>2 DEF HostTyped
  <2>2. a \notin gone => (arb.pty[a] = "working" <=> a \in timers) /\ arb.pending[a] = cards[a]
    BY <1>3 DEF HostSound, Told
  <2> QED
    BY <1>1, <1>2, <1>3, <1>4, <1>5, <2>1, <2>2, Judged
<1>7. CardsTyped' /\ RingSound'
  BY <1>2 DEF CardsTyped, RingSound
<1>8. Stream(sent)
  BY DEF StreamsTyped
<1>9. StreamsTyped' /\ TraySound'
  BY <1>2, <1>8, TellsOne DEF StreamsTyped, TraySound, Follows, Desk!PendingTotal
<1> QED
  BY <1>6, <1>7, <1>9

LEMMA WakeKeeps == ASSUME DeskInv, NEW a \in Agents, Desk!WakeStarts(a) PROVE DeskInv'
<1> USE DEF DeskInv
<1>1. PICK s : s = Desk!Tell(sent, "agents", Desk!list(status, gone))
  OBVIOUS
<1>2. /\ Desk!Notify(s) /\ hostUp
      /\ UNCHANGED <<hostUp, gone, status, arb, sess, timers, cards, relay, tray>>
  BY <1>1 DEF Desk!WakeStarts
<1>3. Stream(sent)
  BY DEF StreamsTyped
<1>4. /\ Stream(s) /\ s.signal = sent.signal /\ s.asked = sent.asked /\ s.answer = sent.answer
      /\ relay = "on" => s.agents = Desk!list(status, gone)
  BY <1>1, <1>3, TellsOne
<1>5. /\ noted' \in 0 .. MaxEvents /\ RingSound'
      /\ Stream(sent') /\ sent'.agents = s.agents /\ sent'.signal = s.signal
      /\ sent'.asked = s.asked /\ sent'.answer = s.answer
      /\ relay = "on" => Follows(sent'.recent, tray.recent, ring')
  BY <1>2, <1>4, Notified
<1>6. HostTyped' /\ CardsTyped'
  BY <1>2, <1>5 DEF HostTyped, CardsTyped
<1>7. HostSound'
  BY <1>2, Zenon DEF HostSound, Told, Desk!Winner
<1>8. StreamsTyped' /\ TraySound'
  BY <1>2, <1>4, <1>5 DEF StreamsTyped, TraySound, Follows, Desk!PendingTotal, Desk!list
<1> QED
  BY <1>5, <1>6, <1>7, <1>8

(* A card that comes or goes judges its agent by the cards that are pending. *)
LEMMA SyncKeeps ==
  ASSUME DeskInv, NEW a \in Agents, NEW n \in 0 .. MaxCards, Desk!SyncPending(a, n), hostUp,
         UNCHANGED <<hostUp, gone, sess, timers, relay, tray>>
  PROVE  HostTyped' /\ HostSound' /\ cards' \in [Agents -> 0 .. MaxCards]
<1> USE DEF DeskInv
<1>1. cards' = [cards EXCEPT ![a] = n] /\ Desk!Judge(Desk!setPendingApprovals(a, n), a)
  BY DEF Desk!SyncPending
<1>2. PICK r : r = Desk!setPendingApprovals(a, n)
  OBVIOUS
<1>3. /\ r \in Arbs /\ r.pty = arb.pty /\ r.needs = arb.needs /\ r.pending[a] = n
      /\ \A b \in Agents \ {a} : r.pending[b] = arb.pending[b]
  BY <1>2, SetPending DEF HostTyped
<1>4. /\ cards' \in [Agents -> 0 .. MaxCards] /\ cards'[a] = n
      /\ \A b \in Agents \ {a} : cards'[b] = cards[b]
  BY <1>1 DEF CardsTyped
<1>5. hostUp = TRUE /\ timers' \subseteq Agents /\ sess' \subseteq Agents
  BY DEF HostTyped, HostSound
<1>6. a \notin gone => (arb.pty[a] = "working" <=> a \in timers)
  BY <1>5 DEF HostSound, Told
<1> QED
  BY <1>1, <1>2, <1>3, <1>4, <1>5, <1>6, Judged

LEMMA CardKeeps ==
  ASSUME DeskInv, NEW a \in Agents, Desk!Card(a) \/ Desk!Close(a) PROVE DeskInv'
<1> USE DEF DeskInv
<1>1. /\ hostUp /\ UNCHANGED <<hostUp, gone, sess, timers, relay, tray>>
      /\ \E n \in 0 .. MaxCards : Desk!SyncPending(a, n)
  <2>1. cards[a] \in 0 .. MaxCards /\ MaxCards \in Nat
    BY DeskConstants DEF CardsTyped
  <2>2. CASE Desk!Card(a)
    <3>1. cards[a] + 1 \in 0 .. MaxCards
      BY <2>1, <2>2 DEF Desk!Card
    <3> QED
      BY <2>2, <3>1 DEF Desk!Card
  <2>3. CASE Desk!Close(a)
    <3>1. cards[a] - 1 \in 0 .. MaxCards
      BY <2>1, <2>3 DEF Desk!Close
    <3> QED
      BY <2>3, <3>1 DEF Desk!Close
  <2> QED
    BY <2>2, <2>3
<1>2. HostTyped' /\ HostSound' /\ cards' \in [Agents -> 0 .. MaxCards]
  BY <1>1, SyncKeeps
<1>3. PICK b : b = Desk!Broadcast(sent)
  OBVIOUS
<1>4. /\ Stream(b) /\ b.recent = sent.recent
      /\ relay = "on" => Follows(b.agents, tray.agents, Desk!list(status', gone'))
  BY <1>1, <1>3, Broadcasts
<1>5. PICK s : s = Desk!Tell(b, "signal", TRUE)
  OBVIOUS
<1>6. /\ Stream(s) /\ s.recent = sent.recent
      /\ relay = "on" => s.signal = TRUE
      /\ relay = "on" => Follows(s.agents, tray.agents, Desk!list(status', gone'))
  <2>1. Stream(s) /\ (relay # "on" => s = b)
    BY <1>4, <1>5, TellsOne
  <2>2. relay = "on" => s.agents = b.agents /\ s.recent = b.recent /\ s.signal = TRUE
    <3>1. PICK yes : yes = TRUE
      OBVIOUS
    <3>2. relay = "on" => s.agents = b.agents /\ s.recent = b.recent /\ s.signal = yes
      <4>1. s = Desk!Tell(b, "signal", yes)
        BY <1>5, <3>1
      <4> HIDE <3>1
      <4> QED
        BY <1>4, <4>1, TellsOne
    <3> QED
      BY <3>1, <3>2
  <2>3. s.recent = sent.recent
    BY <1>4, <2>1, <2>2
  <2>4. relay = "on" => Follows(s.agents, tray.agents, Desk!list(status', gone'))
    BY <1>4, <2>2
  <2> QED
    BY <2>1, <2>2, <2>3, <2>4
<1>7. /\ noted' \in 0 .. MaxEvents /\ RingSound' /\ Stream(sent')
      /\ relay = "on" => /\ sent'.agents = s.agents /\ sent'.signal = TRUE
                         /\ Follows(sent'.recent, tray.recent, ring')
  <2>1. CASE Desk!Card(a)
    <3>1. Desk!Notify(s)
      BY <1>3, <1>5, <2>1 DEF Desk!Card
    <3> QED
      BY <1>6, <3>1, Notified
  <2>2. CASE Desk!Close(a)
    <3>1. sent' = s /\ UNCHANGED <<ring, noted>>
      BY <1>3, <1>5, <2>2 DEF Desk!Close
    <3> QED
      BY <1>6, <3>1 DEF CardsTyped, RingSound, TraySound, Follows
  <2> QED
    BY <2>1, <2>2
<1>8. StreamsTyped' /\ TraySound'
  BY <1>1, <1>6, <1>7 DEF StreamsTyped, TraySound
<1>9. CardsTyped'
  BY <1>2, <1>7 DEF CardsTyped
<1> QED
  BY <1>2, <1>7, <1>8, <1>9

(* An archived agent's signals are forgotten, and nobody looks at its status. *)
LEMMA DeskArchiveKeeps == ASSUME DeskInv, NEW a \in Agents, Desk!Archive(a) PROVE DeskInv'
<1> USE DEF DeskInv
<1>1. /\ hostUp /\ arb' = Desk!forget(a) /\ gone' = gone \cup {a}
      /\ sent' = Desk!Tell(sent, "agents", Desk!list(status, gone'))
      /\ UNCHANGED <<hostUp, status, sess, timers, cards, ring, noted, relay, tray>>
  BY DEF Desk!Archive
<1>2. PICK w, p : w = [arb.pty EXCEPT ![a] = "unset"] /\ p = [arb.pending EXCEPT ![a] = 0]
  OBVIOUS
<1>3. /\ w \in [Agents -> {"unset", "working", "idle"}] /\ p \in [Agents -> 0 .. MaxCards]
      /\ \A b \in Agents \ {a} : w[b] = arb.pty[b] /\ p[b] = arb.pending[b]
  BY <1>2, DeskConstants DEF HostTyped, Arbs
<1>4. arb' = [pty |-> w, needs |-> arb.needs \ {a}, pending |-> p]
  <2>1. arb' = [arb EXCEPT !.pty = w, !.needs = arb.needs \ {a}, !.pending = p]
    BY <1>1, <1>2 DEF Desk!forget
  <2> QED
    BY <2>1 DEF HostTyped, Arbs
<1>5. HostTyped'
  BY <1>1, <1>3, <1>4 DEF HostTyped, Arbs
<1>6. HostSound'
  <2>1. ASSUME NEW b \in Agents \ gone' PROVE Told(b)'
    <3>1. b # a /\ b \notin gone /\ Told(b)
      BY <1>1, <2>1 DEF HostSound
    <3>2. /\ arb'.pty[b] = arb.pty[b] /\ arb'.pending[b] = arb.pending[b]
          /\ b \in arb'.needs <=> b \in arb.needs
      BY <1>3, <1>4, <3>1
    <3> QED
      BY <1>1, <3>1, <3>2, Zenon DEF Told, Desk!Winner
  <2> QED
    BY <1>1, <2>1 DEF HostSound
<1>7. CardsTyped' /\ RingSound'
  BY <1>1 DEF CardsTyped, RingSound
<1>8. Stream(sent)
  BY DEF StreamsTyped
<1>9. StreamsTyped' /\ TraySound'
  BY <1>1, <1>8, TellsOne DEF StreamsTyped, TraySound, Follows, Desk!PendingTotal, Desk!list
<1> QED
  BY <1>5, <1>6, <1>7, <1>9

LEMMA StopKeeps == ASSUME DeskInv, Desk!HostStops PROVE DeskInv'
<1> USE DEF DeskInv
<1>1. /\ hostUp' = FALSE /\ arb' = Desk!Cold /\ sess' = {} /\ timers' = {} /\ relay' # "on"
      /\ sent' = Desk!Nothing /\ UNCHANGED <<gone, status, cards, ring, noted, tray>>
  BY DEF Desk!HostStops
<1>2. HostTyped'
  BY <1>1, DeskConstants DEF HostTyped, Arbs, Desk!Cold
<1>3. HostSound' /\ TraySound' /\ CardsTyped' /\ RingSound'
  BY <1>1 DEF HostSound, TraySound, CardsTyped, RingSound, Desk!Cold
<1>4. StreamsTyped'
  BY <1>1 DEF StreamsTyped, Stream, Desk!Nothing
<1> QED
  BY <1>2, <1>3, <1>4

(* A boot finds every signal unset, and no card. *)
LEMMA BootsKeeps == ASSUME DeskInv, Desk!Boot PROVE DeskInv'
<1> USE DEF DeskInv
<1>1. /\ hostUp = FALSE /\ hostUp' = TRUE /\ cards' = Desk!OrphansLeft
      /\ UNCHANGED <<gone, arb, sess, timers, ring, noted, relay, sent, tray>>
      /\ arb = Desk!Cold /\ timers = {} /\ relay # "on"
  BY DEF Desk!Boot, HostSound
<1>2. cards' \in [Agents -> 0 .. MaxCards]
  BY <1>1, DeskConstants DEF Desk!OrphansLeft
<1>3. /\ status' \in [Agents -> Desk!Statuses]
      /\ \A a \in Agents \ gone : status'[a] = "idle"
  BY DEF Desk!Boot, HostTyped, Desk!Statuses
<1>4. \A a \in Agents \ gone : Told(a)'
  <2> SUFFICES ASSUME NEW a \in Agents \ gone PROVE Told(a)'
    OBVIOUS
  <2>1. /\ arb'.pty[a] = "unset" /\ arb'.pending[a] = 0 /\ a \notin arb'.needs
        /\ cards'[a] = 0 /\ a \notin timers'
    BY <1>1 DEF Desk!Cold, Desk!OrphansLeft
  <2> QED
    BY <1>3, <2>1 DEF Told, Desk!Winner
<1>5. HostTyped' /\ HostSound' /\ TraySound'
  BY <1>1, <1>3, <1>4 DEF HostTyped, HostSound, TraySound
<1>6. CardsTyped' /\ RingSound' /\ StreamsTyped'
  BY <1>1, <1>2 DEF CardsTyped, RingSound, StreamsTyped, Stream
<1> QED
  BY <1>5, <1>6

(* A launcher that subscribes is sent what there is of every stream. *)
LEMMA LauncherKeeps ==
  ASSUME DeskInv, \/ Desk!LauncherStarts \/ Desk!LauncherQuits
                  \/ Desk!SocketDrops \/ Desk!SocketReturns
  PROVE  DeskInv'
<1> USE DEF DeskInv
<1>1. /\ UNCHANGED <<hostUp, gone, status, arb, sess, timers, cards, ring, noted>>
      /\ tray' \in {tray, Desk!Blank}
      /\ \/ relay' # "on" /\ sent' = Desk!Nothing
         \/ relay' = "on" /\ hostUp /\ sent' = Desk!Seed
  BY DEF Desk!LauncherStarts, Desk!LauncherQuits, Desk!SocketDrops, Desk!SocketReturns,
         Desk!hostVars
<1>2. HostTyped' /\ CardsTyped' /\ RingSound'
  BY <1>1 DEF HostTyped, CardsTyped, RingSound
<1>3. HostSound'
  BY <1>1, Zenon DEF HostSound, Told, Desk!Winner
<1>4. tray' = [agents |-> tray'.agents, pending |-> tray'.pending, recent |-> tray'.recent]
  BY <1>1 DEF StreamsTyped, Desk!Blank
<1>5. Desk!Seed = [agents |-> Desk!list(status, gone), recent |-> ring, signal |-> TRUE,
                   asked |-> FALSE, answer |-> None]
  <2>1. PICK l, n : l = Desk!list(status, gone) /\ n = Desk!Nothing
    OBVIOUS
  <2>2. n \in [agents : {n.agents}, recent : {n.recent}, signal : {n.signal},
               asked : {n.asked}, answer : {n.answer}]
    BY <2>1 DEF Desk!Nothing
  <2>3. n.asked = FALSE /\ n.answer = None
    BY <2>1 DEF Desk!Nothing
  <2>4. PICK yes : yes = TRUE
    OBVIOUS
  <2>5. [n EXCEPT !.agents = l, !.recent = ring, !.signal = yes] =
          [agents |-> l, recent |-> ring, signal |-> yes, asked |-> n.asked,
           answer |-> n.answer]
    <3>1. PICK m : m = [n EXCEPT !.agents = l]
      OBVIOUS
    <3>2. m = [agents |-> l, recent |-> n.recent, signal |-> n.signal, asked |-> n.asked,
               answer |-> n.answer]
      BY <2>2, <3>1
    <3>3. PICK k : k = [m EXCEPT !.recent = ring]
      OBVIOUS
    <3>4. k = [agents |-> l, recent |-> ring, signal |-> n.signal, asked |-> n.asked,
               answer |-> n.answer]
      BY <3>2, <3>3
    <3>5. [k EXCEPT !.signal = yes] = [agents |-> l, recent |-> ring, signal |-> yes,
                                       asked |-> n.asked, answer |-> n.answer]
      BY <3>4
    <3>6. [n EXCEPT !.agents = l, !.recent = ring, !.signal = yes] = [k EXCEPT !.signal = yes]
      BY <3>1, <3>3
    <3> QED
      BY <3>5, <3>6
  <2> QED
    BY <2>1, <2>3, <2>4, <2>5 DEF Desk!Seed
<1>6. StreamsTyped' /\ TraySound'
  <2>1. CASE relay' # "on" /\ sent' = Desk!Nothing
    BY <1>4, <2>1 DEF StreamsTyped, TraySound, Stream, Desk!Nothing
  <2>2. CASE relay' = "on" /\ sent' = Desk!Seed
    BY <1>1, <1>4, <1>5, <2>2 DEF StreamsTyped, TraySound, Stream, Follows, Desk!list
  <2> QED
    BY <1>1, <2>1, <2>2
<1> QED
  BY <1>2, <1>3, <1>6

(* What arrives of a stream is what there is. *)
LEMMA ArrivalKeeps ==
  ASSUME DeskInv, \/ Desk!AgentsArrive \/ Desk!RecentArrives \/ Desk!SignalArrives
                  \/ Desk!Count \/ Desk!CountArrives \/ UNCHANGED Desk!vars
  PROVE  DeskInv'
<1> USE DEF DeskInv
<1>1. UNCHANGED <<hostUp, gone, status, arb, sess, timers, cards, ring, noted, relay>>
  BY DEF Desk!AgentsArrive, Desk!RecentArrives, Desk!SignalArrives, Desk!Count,
         Desk!CountArrives, Desk!hostVars, Desk!vars
<1>2. HostTyped' /\ CardsTyped' /\ RingSound'
  BY <1>1 DEF HostTyped, CardsTyped, RingSound
<1>3. HostSound'
  BY <1>1, Zenon DEF HostSound, Told, Desk!Winner
<1>4. /\ sent \in [agents : {sent.agents}, recent : {sent.recent}, signal : {sent.signal},
                   asked : {sent.asked}, answer : {sent.answer}]
      /\ tray \in [agents : {tray.agents}, pending : {tray.pending}, recent : {tray.recent}]
  BY DEF StreamsTyped, Stream
<1>5. PICK l, total : l = Desk!list(status, gone) /\ total = Desk!PendingTotal
  OBVIOUS
<1>6. /\ Desk!list(status, gone)' = l /\ Desk!PendingTotal' = total
      /\ l # None /\ ring # None /\ total # None
  BY <1>1, <1>5, NoneIsNothing DEF Desk!list, Desk!PendingTotal
<1>7. StreamsTyped' /\ TraySound'
  <2>1. CASE Desk!AgentsArrive
    <3>1. /\ sent' = [agents |-> None, recent |-> sent.recent, signal |-> sent.signal,
                      asked |-> sent.asked, answer |-> sent.answer]
          /\ tray' = [agents |-> sent.agents, pending |-> tray.pending, recent |-> tray.recent]
          /\ sent.agents # None
      BY <1>4, <2>1 DEF Desk!AgentsArrive
    <3> QED
      BY <1>1, <1>5, <1>6, <3>1 DEF StreamsTyped, Stream, TraySound, Follows
  <2>2. CASE Desk!RecentArrives
    <3>1. /\ sent' = [agents |-> sent.agents, recent |-> None, signal |-> sent.signal,
                      asked |-> sent.asked, answer |-> sent.answer]
          /\ tray' = [agents |-> tray.agents, pending |-> tray.pending, recent |-> sent.recent]
          /\ sent.recent # None
      BY <1>4, <2>2 DEF Desk!RecentArrives
    <3> QED
      BY <1>1, <1>5, <1>6, <3>1 DEF StreamsTyped, Stream, TraySound, Follows
  <2>3. CASE Desk!SignalArrives
    <3>1. /\ sent' = [agents |-> sent.agents, recent |-> sent.recent, signal |-> FALSE,
                      asked |-> TRUE, answer |-> sent.answer]
          /\ tray' = tray
      BY <1>4, <2>3 DEF Desk!SignalArrives, Desk!hostVars
    <3> QED
      BY <1>1, <1>5, <1>6, <3>1 DEF StreamsTyped, Stream, TraySound, Follows
  <2>4. CASE Desk!Count
    <3>1. /\ sent' = [agents |-> sent.agents, recent |-> sent.recent, signal |-> sent.signal,
                      asked |-> FALSE, answer |-> total]
          /\ tray' = tray
      BY <1>4, <1>5, <2>4 DEF Desk!Count
    <3> QED
      BY <1>1, <1>5, <1>6, <3>1 DEF StreamsTyped, Stream, TraySound, Follows
  <2>5. CASE Desk!CountArrives
    <3>1. /\ sent' = [agents |-> sent.agents, recent |-> sent.recent, signal |-> sent.signal,
                      asked |-> sent.asked, answer |-> None]
          /\ tray' = [agents |-> tray.agents, pending |-> sent.answer, recent |-> tray.recent]
          /\ sent.answer # None
      BY <1>4, <2>5 DEF Desk!CountArrives
    <3> QED
      BY <1>1, <1>5, <1>6, <3>1 DEF StreamsTyped, Stream, TraySound, Follows
  <2>6. CASE UNCHANGED Desk!vars
    <3>1. sent' = sent /\ tray' = tray
      BY <2>6 DEF Desk!vars
    <3> QED
      BY <1>1, <1>5, <1>6, <3>1 DEF StreamsTyped, Stream, TraySound, Follows
  <2> QED
    BY <2>1, <2>2, <2>3, <2>4, <2>5, <2>6
<1> QED
  BY <1>2, <1>3, <1>7

(* The inductive invariant: while a host runs, the arbiter's signals of an agent are the
   facts they stand for and its status is their winner; every stream either has told the
   tray what there is, or has it under way. *)
THEOREM DeskInductive == Desk!Spec => []DeskInv
<1>1. DeskInv /\ [Desk!Next]_(Desk!vars) => DeskInv'
  BY StartKeeps, PtyKeeps, HookKeeps, WakeKeeps, CardKeeps, DeskArchiveKeeps, StopKeeps,
     BootsKeeps, LauncherKeeps, ArrivalKeeps
     DEF Desk!Next
<1> QED
  BY DeskBegins, <1>1, PTL DEF Desk!Spec

(* Every status is what the highest of the independent facts says, and the tray of a
   connected launcher shows what the host knows once nothing is under way, over hooks in
   any order, boots and dropped sockets (status/arbiter.ts, main/index.ts, tray.ts). *)
THEOREM ScreensTellTheHost == Desk!Spec => [](Desk!StatusIsWinner /\ Desk!TrayCatchesUp)
<1>1. DeskInv => Desk!StatusIsWinner /\ Desk!TrayCatchesUp
  <2> SUFFICES ASSUME DeskInv PROVE Desk!StatusIsWinner /\ Desk!TrayCatchesUp
    OBVIOUS
  <2> USE DEF DeskInv
  <2>1. Desk!StatusIsWinner
    <3> SUFFICES ASSUME hostUp, NEW a \in Agents \ gone
                 PROVE  status[a] = IF cards[a] > 0 THEN "awaiting-approval"
                                    ELSE IF a \in arb.needs THEN "needs-input"
                                    ELSE IF a \in timers THEN "working" ELSE "idle"
      BY DEF Desk!StatusIsWinner
    <3>1. Told(a)
      BY DEF HostSound
    <3> QED
      BY <3>1, Zenon DEF Told, Desk!Winner
  <2>2. Desk!TrayCatchesUp
    <3> SUFFICES ASSUME relay = "on", sent = Desk!Nothing
                 PROVE  tray = [agents |-> Desk!list(status, gone),
                                pending |-> Desk!PendingTotal, recent |-> Desk!NewestFirst(noted)]
      BY DEF Desk!TrayCatchesUp
    <3>1. /\ sent.agents = None /\ sent.recent = None /\ sent.signal = FALSE
          /\ sent.asked = FALSE /\ sent.answer = None
      BY DEF Desk!Nothing
    <3>2. /\ tray.agents = Desk!list(status, gone) /\ tray.recent = ring
          /\ tray.pending = Desk!PendingTotal
      BY <3>1, NoneIsNothing DEF TraySound, Follows
    <3> QED
      BY <3>2 DEF StreamsTyped, RingSound
  <2> QED
    BY <2>1, <2>2
<1> QED
  BY <1>1, DeskInductive, PTL


-----------------------------------------------------------------------------
(***************************************************************************)
(* AgentRoster: creating, selecting and deleting agents.                   *)
(***************************************************************************)
Slugs == Seq(STRING \cup Nat)
Texts == Templates \cup {Default, Roster!NoTemplate, Roster!Empty, Roster!Mine}
AgentRows == [slug : Slugs, live : BOOLEAN, meant : Texts]
Forms == [open : BOOLEAN, no : Nat, template : Texts, seeded : Texts, text : Texts,
          busy : BOOLEAN]

(* What is under way between renderer and host while the table has n rows. *)
Requests(n) ==
  [kind : {"create"}, name : Names, no : Nat, text : Texts, template : Texts]
  \cup [kind : {"archive", "open"}, id : 1 .. n]

Replies(n) ==
  [kind : {"list"}, list : Seq(1 .. n)] \cup [kind : {"created"}, id : 1 .. n]
  \cup [kind : {"failed"}, no : Nat]

TableTyped == rows \in Seq(AgentRows) /\ Len(rows) <= MaxAgents

WiresTyped == toHost \in Seq(Requests(Len(rows))) /\ toGui \in Seq(Replies(Len(rows)))

WindowTyped ==
  /\ agents \in Seq(1 .. Len(rows)) /\ selected \in 0 .. Len(rows)
  /\ pendingDelete \in 0 .. Len(rows) /\ doomed \subseteq 1 .. Len(rows)
  /\ strayed \in BOOLEAN /\ form \in Forms

(* Each row has a folder of its own, with the text it was made for. *)
FoldersOwn ==
  \A i \in 1 .. Len(rows) :
    /\ \A j \in 1 .. Len(rows) : i # j => rows[i].slug # rows[j].slug
    /\ rows[i].slug \in DOMAIN folders /\ folders[rows[i].slug].text = rows[i].meant

(* Only agents whose deletion was confirmed are archived, or about to be. *)
DoomedGo ==
  /\ \A i \in 1 .. Len(rows) : ~rows[i].live => i \in doomed
  /\ \A k \in 1 .. Len(toHost) : toHost[k].kind = "archive" => toHost[k].id \in doomed

(* The last list under way is the table's; if none is, the sidebar's is. *)
ListLast(k) ==
  toGui[k].kind = "list" /\ \A j \in 1 .. Len(toGui) : j > k => toGui[j].kind # "list"

ListTold ==
  /\ \A k \in 1 .. Len(toGui) : ListLast(k) => toGui[k].list = Roster!list
  /\ (\A k \in 1 .. Len(toGui) : toGui[k].kind # "list") => agents = Roster!list

(* The pane is that of the selection, something is selected if there is anything, and
   not an agent that goes. *)
SelectionKeeps ==
  /\ mounted = Roster!Pane(selected, agents)
  /\ selected = Roster!NoAgent => agents = <<>>
  /\ strayed \/ selected \notin doomed

RosterInv ==
  /\ TableTyped /\ WiresTyped /\ WindowTyped
  /\ FoldersOwn /\ DoomedGo /\ ListTold /\ SelectionKeeps

-----------------------------------------------------------------------------
(* The list in the order of the rows                                         *)

Rank(L, i) == {j \in L : j <= i}
Ordered(L) == [p \in 1 .. Cardinality(L) |-> CHOOSE i \in L : Cardinality(Rank(L, i)) = p]

(* The live rows in their order: each has a place, and each place one of them. *)
LEMMA OrderedFacts ==
  ASSUME NEW n \in Nat, NEW L \in SUBSET (1 .. n)
  PROVE  /\ Ordered(L) \in Seq(L) /\ Ordered(L) \in Seq(1 .. n)
         /\ Ordered(L) = <<>> => L = {}
<1> DEFINE c == Cardinality(L)
           place == [i \in L |-> Cardinality(Rank(L, i))]
<1>1. IsFiniteSet(1 .. n)
  <2>1. 1 \in Int /\ n \in Int
    OBVIOUS
  <2> QED
    BY <2>1, FS_Interval
<1>2. IsFiniteSet(L) /\ c \in Nat
  BY <1>1, FS_Subset, FS_CardinalityType
<1>3. ASSUME NEW i \in L PROVE IsFiniteSet(Rank(L, i)) /\ place[i] \in 1 .. c
  <2>1. Rank(L, i) \in SUBSET L /\ i \in Rank(L, i)
    BY DEF Rank
  <2>2. IsFiniteSet(Rank(L, i)) /\ Cardinality(Rank(L, i)) <= c
    BY <1>2, <2>1, FS_Subset
  <2>3. Cardinality(Rank(L, i)) \in Nat
    BY <2>2, FS_CardinalityType
  <2>4. Cardinality(Rank(L, i)) # 0
    BY <2>1, <2>2, FS_EmptySet
  <2> QED
    BY <1>2, <2>2, <2>3, <2>4
<1>4. ASSUME NEW i \in L, NEW j \in L, i < j PROVE place[i] # place[j]
  <2>1. Rank(L, i) \in SUBSET Rank(L, j)
    <3>1. \A k \in L : k <= i => k <= j
      <4>1. i \in Nat /\ j \in Nat /\ L \subseteq Nat
        OBVIOUS
      <4> QED
        BY <1>4, <4>1
    <3> QED
      BY <3>1 DEF Rank
  <2>2. j \in Rank(L, j) /\ j \notin Rank(L, i)
    BY <1>4 DEF Rank
  <2>3. Cardinality(Rank(L, j)) # Cardinality(Rank(L, i))
    BY <1>3, <2>1, <2>2, FS_Subset
  <2> QED
    BY <2>3
<1>5. place \in Injection(L, 1 .. c)
  <2>1. \A i, j \in L : place[i] = place[j] => i = j
    <3> SUFFICES ASSUME NEW i \in L, NEW j \in L, i # j PROVE place[i] # place[j]
      OBVIOUS
    <3>1. i < j \/ j < i
      OBVIOUS
    <3> QED
      BY <1>4, <3>1, Zenon
  <2> QED
    BY <1>3, <2>1 DEF Injection, IsInjective
<1>6. IsFiniteSet(1 .. c) /\ Cardinality(1 .. c) = c
  <2>1. 1 \in Int /\ c \in Int
    BY <1>2
  <2>2. IsFiniteSet(1 .. c) /\ Cardinality(1 .. c) = IF 1 > c THEN 0 ELSE c - 1 + 1
    BY <2>1, FS_Interval
  <2> QED
    BY <1>2, <2>2
<1>7. place \in Surjection(L, 1 .. c)
  BY <1>5, <1>6, FS_Injection
<1>8. ASSUME NEW p \in 1 .. c PROVE Ordered(L)[p] \in L
  <2>1. \E i \in L : place[i] = p
    BY <1>7 DEF Surjection
  <2>2. \E i \in L : Cardinality(Rank(L, i)) = p
    BY <2>1
  <2> QED
    BY <2>2 DEF Ordered
<1> HIDE DEF place
<1>9. Ordered(L) \in Seq(L) /\ Len(Ordered(L)) = c
  <2>1. Ordered(L) = [p \in 1 .. c |-> Ordered(L)[p]]
    BY DEF Ordered
  <2>2. \A f : f = [p \in 1 .. c |-> f[p]] /\ (\A p \in 1 .. c : f[p] \in L)
                 => f \in Seq(L) /\ Len(f) = c
    BY <1>2
  <2> QED
    BY <1>8, <2>1, <2>2
<1>10. Ordered(L) \in Seq(1 .. n)
  <2>1. \A S, T, s : S \subseteq T /\ s \in Seq(S) => s \in Seq(T)
    OBVIOUS
  <2> QED
    BY <1>9, <2>1
<1>11. Ordered(L) = <<>> => c = 0
  BY <1>9
<1> QED
  BY <1>2, <1>9, <1>10, <1>11, FS_EmptySet

Lives(r) == {i \in DOMAIN r : r[i].live}

LEMMA ListOrdered == Roster!list = Ordered(Lives(rows)) /\ Roster!Live = Lives(rows)
  BY Zenon DEF Roster!list, Roster!Live, Roster!Known, Lives, Ordered, Rank,
               Roster!Cardinality, Cardinality

LEMMA ListOrderedNext == Roster!list' = Ordered(Lives(rows'))
  BY Zenon DEF Roster!list, Roster!Live, Roster!Known, Lives, Ordered, Rank,
               Roster!Cardinality, Cardinality

-----------------------------------------------------------------------------
(* A slug that is free                                                       *)

LEMMA LessIsWellFounded ==
  \E R : IsWellFoundedOn(R, Nat) /\ \A x, y \in Nat : x < y => <<x, y>> \in R
<1>1. IsWellFoundedOn(OpToRel(<, Nat), Nat)
  BY NatLessThanWellFounded, Zenon
<1>2. \A x, y \in Nat : x < y => <<x, y>> \in OpToRel(<, Nat)
  BY DEF OpToRel
<1> QED
  BY <1>1, <1>2, Zenon

(* A set of naturals that is not empty has a least one. *)
LEMMA LeastMember ==
  ASSUME NEW S \in SUBSET Nat, S # {}
  PROVE  Roster!Min(S) \in S
<1>1. PICK R : IsWellFoundedOn(R, Nat) /\ \A x, y \in Nat : x < y => <<x, y>> \in R
  BY LessIsWellFounded
<1>2. S \subseteq Nat
  OBVIOUS
<1>3. \A A, B, T : IsWellFoundedOn(A, B) /\ T \subseteq B /\ T # {} =>
         \E x \in T : \A y \in T : ~ (<<y, x>> \in A)
  BY WFMin, Zenon
<1>4. PICK x \in S : \A y \in S : ~ (<<y, x>> \in R)
  <2>1. IsWellFoundedOn(R, Nat)
    BY <1>1
  <2> QED
    BY <2>1, <1>2, <1>3, Zenon
<1>5. \A y \in S : ~(y < x)
  BY <1>1, <1>4, <1>2, Zenon
<1>6. \A y \in S : x <= y
  BY <1>5
<1>7. \E z \in S : \A y \in S : z <= y
  BY <1>6
<1> QED
  BY <1>7 DEF Roster!Min

(* There are more numbered forms of a name than rows, so one of them is free. *)
LEMMA FreeSlug ==
  ASSUME rows \in Seq(AgentRows), Len(rows) < MaxAgents, NEW name \in Names
  PROVE  Roster!SlugFor(name) \in Slugs /\ Roster!SlugFor(name) \notin Roster!Taken
<1>1. MaxAgents \in Nat /\ name \in Seq(STRING)
  BY RosterAssumption DEF Roster!RosterAssumption
<1> DEFINE numbers == 2 .. MaxAgents + 1
           free == {n \in numbers : Append(name, n) \notin Roster!Taken}
           slug == [i \in 1 .. Len(rows) |-> rows[i].slug]
<1>2. ASSUME NEW n \in numbers, NEW k \in numbers, Append(name, n) = Append(name, k)
      PROVE  n = k
  <2>1. Append(name, n)[Len(name) + 1] = n /\ Append(name, k)[Len(name) + 1] = k
    BY <1>1
  <2> QED
    BY <1>2, <2>1
<1>3. ASSUME free = {} PROVE FALSE
  <2>1. \A n \in numbers : \E i \in 1 .. Len(rows) : rows[i].slug = Append(name, n)
    BY <1>3 DEF Roster!Taken, Roster!Known
  <2> DEFINE at == [n \in numbers |-> CHOOSE i \in 1 .. Len(rows) : rows[i].slug = Append(name, n)]
  <2>2. \A n \in numbers : at[n] \in 1 .. Len(rows) /\ rows[at[n]].slug = Append(name, n)
    BY <2>1
  <2>3. at \in [numbers -> 1 .. Len(rows)]
    BY <2>2
  <2> HIDE DEF at
  <2>4. \A n, k \in numbers : at[n] = at[k] => n = k
    <3> SUFFICES ASSUME NEW n \in numbers, NEW k \in numbers, at[n] = at[k] PROVE n = k
      OBVIOUS
    <3>1. Append(name, n) = Append(name, k)
      BY <2>2
    <3> QED
      BY <1>2, <3>1
  <2>5. at \in Injection(numbers, 1 .. Len(rows))
    BY <2>3, <2>4 DEF Injection, IsInjective
  <2>6. Len(rows) \in Nat
    OBVIOUS
  <2>7. IsFiniteSet(1 .. Len(rows)) /\ Cardinality(1 .. Len(rows)) = Len(rows)
    <3>1. 1 \in Int /\ Len(rows) \in Int
      BY <2>6
    <3>2. /\ IsFiniteSet(1 .. Len(rows))
          /\ Cardinality(1 .. Len(rows)) = IF 1 > Len(rows) THEN 0 ELSE Len(rows) - 1 + 1
      BY <3>1, FS_Interval
    <3> QED
      BY <2>6, <3>2
  <2>8. Cardinality(numbers) = MaxAgents
    <3>1. 2 \in Int /\ MaxAgents + 1 \in Int
      BY <1>1
    <3> DEFINE last == MaxAgents + 1
    <3>2. Cardinality(2 .. last) = IF 2 > last THEN 0 ELSE last - 2 + 1
      <4> HIDE DEF last
      <4> QED
        BY <3>1, FS_Interval DEF last
    <3> QED
      BY <1>1, <3>2
  <2>9. Cardinality(numbers) <= Cardinality(1 .. Len(rows))
    BY <2>5, <2>7, FS_Injection
  <2> QED
    BY <1>1, <2>6, <2>7, <2>8, <2>9
<1>4. free \in SUBSET Nat
  BY <1>1
<1>5. Roster!Min(free) \in free
  BY <1>3, <1>4, LeastMember
<1>6. name \in Slugs /\ \A n \in Nat : Append(name, n) \in Slugs
  BY <1>1 DEF Slugs
<1>7. CASE name \notin Roster!Taken
  BY <1>6, <1>7 DEF Roster!SlugFor
<1>8. CASE name \in Roster!Taken
  <2>1. Roster!SlugFor(name) = Append(name, Roster!Min(free))
    BY <1>8 DEF Roster!SlugFor
  <2>2. Roster!Min(free) \in Nat /\ Append(name, Roster!Min(free)) \notin Roster!Taken
    BY <1>1, <1>5
  <2> QED
    BY <1>6, <2>1, <2>2
<1> QED
  BY <1>7, <1>8
-----------------------------------------------------------------------------
(* The wires                                                                 *)

LEMMA WiresWiden ==
  ASSUME NEW n \in Nat, NEW m \in 0 .. n
  PROVE  /\ \A s : s \in Seq(1 .. m) => s \in Seq(1 .. n)
         /\ \A s : s \in Seq(Requests(m)) => s \in Seq(Requests(n))
         /\ \A s : s \in Seq(Replies(m)) => s \in Seq(Replies(n))
<1>1. \A S, T, s : S \subseteq T /\ s \in Seq(S) => s \in Seq(T)
  OBVIOUS
<1>2. 1 .. m \subseteq 1 .. n
  OBVIOUS
<1>3. Seq(1 .. m) \subseteq Seq(1 .. n)
  BY <1>1, <1>2
<1>4. Requests(m) \subseteq Requests(n)
  BY <1>2, Zenon DEF Requests
<1>5. Replies(m) \subseteq Replies(n)
  <2>1. \A S, T : S \subseteq T => [kind : {"list"}, list : S] \subseteq [kind : {"list"}, list : T]
    OBVIOUS
  <2>2. \A S, T : S \subseteq T => [kind : {"created"}, id : S] \subseteq [kind : {"created"}, id : T]
    OBVIOUS
  <2> QED
    BY <1>2, <1>3, <2>1, <2>2 DEF Replies
<1> QED
  BY <1>1, <1>3, <1>4, <1>5

(* Nothing new is said of the list, and the list did not change. *)
LEMMA NothingTold ==
  ASSUME WiresTyped, ListTold, Roster!list' = Roster!list, UNCHANGED agents,
         \/ UNCHANGED toGui
         \/ \E m : m.kind # "list" /\ toGui' = Append(toGui, m)
  PROVE  ListTold'
<1>1. CASE UNCHANGED toGui
  BY <1>1 DEF ListTold, ListLast
<1>2. ASSUME NEW m, m.kind # "list", toGui' = Append(toGui, m) PROVE ListTold'
  <2>1. toGui \in Seq(Replies(Len(rows)))
    BY DEF WiresTyped
  <2>2. /\ Len(toGui') = Len(toGui) + 1 /\ toGui'[Len(toGui) + 1] = m /\ Len(toGui) \in Nat
        /\ \A k \in 1 .. Len(toGui) : toGui'[k] = toGui[k]
    BY <1>2, <2>1
  <2>3. ASSUME NEW k \in 1 .. Len(toGui'), ListLast(k)' PROVE toGui'[k].list = Roster!list'
    <3>1. k \in 1 .. Len(toGui) /\ toGui'[k] = toGui[k]
      BY <1>2, <2>2, <2>3 DEF ListLast
    <3>2. ASSUME NEW j \in 1 .. Len(toGui), j > k PROVE toGui[j].kind # "list"
      BY <2>2, <2>3, <3>1, <3>2 DEF ListLast
    <3>3. toGui[k].kind = "list"
      BY <2>3, <3>1 DEF ListLast
    <3>4. ListLast(k)
      BY <3>2, <3>3 DEF ListLast
    <3> QED
      BY <3>1, <3>4 DEF ListTold
  <2>4. (\A k \in 1 .. Len(toGui') : toGui'[k].kind # "list") => agents' = Roster!list'
    <3> SUFFICES ASSUME \A k \in 1 .. Len(toGui') : toGui'[k].kind # "list"
                 PROVE  agents' = Roster!list'
      OBVIOUS
    <3>1. \A k \in 1 .. Len(toGui) : toGui[k].kind # "list"
      BY <2>2
    <3> QED
      BY <3>1 DEF ListTold
  <2> QED
    BY <2>3, <2>4 DEF ListTold
<1> QED
  BY <1>1, <1>2

(* A list just said is the last one. *)
LEMMA ListSaid ==
  ASSUME WiresTyped, NEW push, NEW reply, push.kind = "list", push.list = Roster!list',
         reply.kind = "created",
         \/ toGui' = toGui \o <<push, reply>>
         \/ toGui' = toGui \o <<reply, push>>
         \/ toGui' = Append(toGui, push)
  PROVE  ListTold'
<1> DEFINE n == Len(toGui)
<1>1. toGui \in Seq(Replies(Len(rows))) /\ n \in Nat
  BY DEF WiresTyped
<1>2. /\ Len(toGui') \in {n + 1, n + 2} /\ \A k \in 1 .. n : toGui'[k] = toGui[k]
      /\ \/ toGui'[n + 1] = push /\ Len(toGui') = n + 1
         \/ toGui'[n + 1] = push /\ toGui'[n + 2] = reply /\ Len(toGui') = n + 2
         \/ toGui'[n + 1] = reply /\ toGui'[n + 2] = push /\ Len(toGui') = n + 2
  <2>1. CASE toGui' = toGui \o <<push, reply>>
    BY <1>1, <2>1
  <2>2. CASE toGui' = toGui \o <<reply, push>>
    BY <1>1, <2>2
  <2>3. CASE toGui' = Append(toGui, push)
    BY <1>1, <2>3
  <2> QED
    BY <2>1, <2>2, <2>3
<1>3. PICK at \in {n + 1, n + 2} :
        /\ at \in 1 .. Len(toGui') /\ toGui'[at] = push
        /\ \A k \in 1 .. Len(toGui') : k > at => toGui'[k] = reply
  <2>1. CASE toGui'[n + 1] = push /\ Len(toGui') = n + 1
    BY <1>1, <2>1
  <2>2. CASE toGui'[n + 1] = push /\ toGui'[n + 2] = reply /\ Len(toGui') = n + 2
    BY <1>1, <2>2
  <2>3. CASE toGui'[n + 1] = reply /\ toGui'[n + 2] = push /\ Len(toGui') = n + 2
    BY <1>1, <2>3
  <2> QED
    BY <1>2, <2>1, <2>2, <2>3
<1>4. at \in Nat /\ Len(toGui') \in Nat
  BY <1>1, <1>2, <1>3
<1>5. ASSUME NEW k \in 1 .. Len(toGui'), ListLast(k)' PROVE k = at
  <2>1. ~(at > k)
    BY <1>3, <1>5 DEF ListLast
  <2>2. ~(k > at)
    BY <1>3, <1>5 DEF ListLast
  <2> QED
    BY <1>4, <2>1, <2>2
<1>6. \A k \in 1 .. Len(toGui') : ListLast(k)' => toGui'[k].list = Roster!list'
  BY <1>3, <1>5, Zenon
<1>7. ~ \A k \in 1 .. Len(toGui') : toGui'[k].kind # "list"
  BY <1>3
<1> QED
  BY <1>6, <1>7 DEF ListTold

(* What is heard leaves the wire: a list is then the sidebar's. *)
LEMMA ListHeard ==
  ASSUME WiresTyped, ListTold, Roster!list' = Roster!list, toGui # <<>>,
         toGui' = Tail(toGui),
         agents' = IF Head(toGui).kind = "list" THEN Head(toGui).list ELSE agents
  PROVE  ListTold'
<1>1. toGui \in Seq(Replies(Len(rows))) /\ Len(toGui) \in Nat
  BY DEF WiresTyped
<1>2. /\ Len(toGui') = Len(toGui) - 1 /\ Len(toGui) > 0 /\ Head(toGui) = toGui[1]
      /\ \A k \in 1 .. Len(toGui') : toGui'[k] = toGui[k + 1]
  BY <1>1
<1>3. ASSUME NEW k \in 1 .. Len(toGui'), ListLast(k)' PROVE toGui'[k].list = Roster!list'
  <2>1. k + 1 \in 1 .. Len(toGui) /\ toGui'[k] = toGui[k + 1]
    BY <1>1, <1>2
  <2>2. ASSUME NEW j \in 1 .. Len(toGui), j > k + 1 PROVE toGui[j].kind # "list"
    <3>1. j - 1 \in 1 .. Len(toGui') /\ j - 1 > k /\ (j - 1) + 1 = j
      BY <1>1, <1>2, <2>2
    <3>2. toGui'[j - 1] = toGui[j]
      BY <1>2, <3>1
    <3> QED
      BY <1>3, <3>1, <3>2 DEF ListLast
  <2>3. toGui[k + 1].kind = "list"
    BY <1>3, <2>1 DEF ListLast
  <2>4. ListLast(k + 1)
    BY <2>2, <2>3 DEF ListLast
  <2> QED
    BY <2>1, <2>4 DEF ListTold
<1>4. ASSUME \A k \in 1 .. Len(toGui') : toGui'[k].kind # "list" PROVE agents' = Roster!list'
  <2>1. ASSUME NEW j \in 1 .. Len(toGui), j > 1 PROVE toGui[j].kind # "list"
    <3>1. j - 1 \in 1 .. Len(toGui') /\ (j - 1) + 1 = j
      BY <1>1, <1>2, <2>1
    <3>2. toGui'[j - 1] = toGui[j]
      BY <1>2, <3>1
    <3> QED
      BY <1>4, <3>1, <3>2
  <2>2. 1 \in 1 .. Len(toGui)
    BY <1>1, <1>2
  <2>3. CASE toGui[1].kind = "list"
    <3>1. ListLast(1)
      BY <2>1, <2>3 DEF ListLast
    <3> QED
      BY <1>2, <2>2, <2>3, <3>1 DEF ListTold
  <2>4. CASE toGui[1].kind # "list"
    <3>1. \A j \in 1 .. Len(toGui) : toGui[j].kind # "list"
      <4> SUFFICES ASSUME NEW j \in 1 .. Len(toGui) PROVE toGui[j].kind # "list"
        OBVIOUS
      <4>1. j = 1 \/ j > 1
        OBVIOUS
      <4> QED
        BY <2>1, <2>4, <4>1
    <3> QED
      BY <1>2, <2>4, <3>1 DEF ListTold
  <2> QED
    BY <2>3, <2>4
<1> QED
  BY <1>3, <1>4 DEF ListTold
-----------------------------------------------------------------------------
(* Steps                                                                     *)

LEMMA FreshForm ==
  ASSUME NEW n \in Nat
  PROVE  /\ Roster!NoForm \in Forms /\ [Roster!NoForm EXCEPT !.no = n] \in Forms
         /\ [Roster!NoForm EXCEPT !.open = TRUE, !.no = n, !.template = Default] \in Forms
<1>1. Roster!NoTemplate \in Texts /\ Roster!Empty \in Texts /\ Default \in Texts
  BY DEF Texts
<1>2. Roster!NoForm \in Forms
  BY <1>1 DEF Roster!NoForm, Forms
<1>3. \A f \in Forms, d \in Texts : /\ [f EXCEPT !.no = n] \in Forms
                                   /\ [f EXCEPT !.open = TRUE, !.no = n, !.template = d] \in Forms
  BY DEF Forms
<1> QED
  BY <1>1, <1>2, <1>3

LEMMA RosterStarts == Roster!Init => RosterInv
<1> SUFFICES ASSUME Roster!Init PROVE RosterInv
  OBVIOUS
<1> USE DEF Roster!Init, Roster!NoAgent
<1>1. Len(rows) = 0 /\ Len(toHost) = 0 /\ Len(toGui) = 0 /\ MaxAgents \in Nat
  BY RosterAssumption DEF Roster!RosterAssumption
<1>2. TableTyped /\ WiresTyped
  BY <1>1 DEF TableTyped, WiresTyped
<1>3. WindowTyped
  <2>1. agents \in Seq(1 .. Len(rows)) /\ selected \in 0 .. Len(rows)
    BY <1>1
  <2>2. pendingDelete \in 0 .. Len(rows) /\ doomed \subseteq 1 .. Len(rows)
    BY <1>1
  <2>3. strayed \in BOOLEAN /\ form \in Forms
    BY FreshForm
  <2> QED
    BY <2>1, <2>2, <2>3 DEF WindowTyped
<1>4. FoldersOwn /\ DoomedGo
  BY <1>1 DEF FoldersOwn, DoomedGo
<1>5. ListTold
  <2>1. Lives(rows) = {}
    BY DEF Lives
  <2>2. Cardinality({}) = 0
    BY FS_EmptySet
  <2>3. Ordered({}) = <<>>
    BY <2>2 DEF Ordered
  <2> QED
    BY <1>1, <2>1, <2>3, ListOrdered DEF ListTold
<1>6. SelectionKeeps
  BY DEF SelectionKeeps, Roster!Pane
<1> QED
  BY <1>2, <1>3, <1>4, <1>5, <1>6 DEF RosterInv

LEMMA MembershipKept ==
  ASSUME NEW S, NEW x, NEW b, b = (x \in S)
  PROVE  b \in BOOLEAN /\ (b \/ x \notin S)
<1>1. b \in BOOLEAN
  OBVIOUS
<1>2. b \/ x \notin S
  OBVIOUS
<1> QED
  BY <1>1, <1>2

(* A concatenation is a sequence of the same kind, and each of its places is a place of
   one of its halves. *)
FromHalves(s, t, u) ==
  \A k \in 1 .. Len(u) : \/ \E j \in 1 .. Len(s) : s[j] = u[k]
                         \/ \E j \in 1 .. Len(t) : t[j] = u[k]

LEMMA Joined ==
  ASSUME NEW S, NEW s \in Seq(S), NEW t \in Seq(S)
  PROVE  s \o t \in Seq(S) /\ FromHalves(s, t, s \o t)
<1>1. s \o t \in Seq(S) /\ Len(s \o t) = Len(s) + Len(t) /\ Len(s) \in Nat /\ Len(t) \in Nat
  OBVIOUS
<1>2. ASSUME NEW k \in 1 .. Len(s \o t)
      PROVE  \/ \E j \in 1 .. Len(s) : s[j] = (s \o t)[k]
             \/ \E j \in 1 .. Len(t) : t[j] = (s \o t)[k]
  <2>1. CASE k <= Len(s)
    <3>1. k \in 1 .. Len(s) /\ s[k] = (s \o t)[k]
      BY <1>1, <2>1
    <3> QED
      BY <3>1
  <2>2. CASE k > Len(s)
    <3>1. k - Len(s) \in 1 .. Len(t) /\ t[k - Len(s)] = (s \o t)[k]
      BY <1>1, <2>2
    <3> QED
      BY <3>1
  <2> QED
    BY <1>1, <2>1, <2>2
<1> QED
  BY <1>1, <1>2 DEF FromHalves

(* What a render does: nothing goes to the host but what it is given and the opening of
   a pane, and what is selected is not an agent that goes, or it shows. *)
LEMMA RenderStep ==
  ASSUME RosterInv, UNCHANGED rows, doomed' \subseteq 1 .. Len(rows),
         NEW sel \in 0 .. Len(rows), NEW l \in Seq(1 .. Len(rows)), NEW was,
         NEW out \in Seq(Requests(Len(rows))), Roster!Render(sel, l, was, out),
         selected' = selected /\ ~(was = Roster!NoAgent /\ mounted # Roster!NoAgent) =>
           strayed \/ selected \notin doomed'
  PROVE  /\ agents' = l /\ agents' \in Seq(1 .. Len(rows')) /\ selected' \in 0 .. Len(rows')
         /\ strayed' \in BOOLEAN /\ SelectionKeeps'
         /\ toHost' \in Seq(Requests(Len(rows')))
         /\ \A k \in 1 .. Len(toHost') : toHost'[k].kind = "archive" =>
              \/ \E j \in 1 .. Len(toHost) : toHost[j] = toHost'[k]
              \/ \E j \in 1 .. Len(out) : out[j] = toHost'[k]
<1> USE DEF Roster!NoAgent
<1>1. /\ Len(rows) \in Nat /\ toHost \in Seq(Requests(Len(rows)))
      /\ selected \in 0 .. Len(rows) /\ strayed \in BOOLEAN
  BY DEF RosterInv, TableTyped, WiresTyped, WindowTyped
<1>2. /\ selected' = Roster!AutoSelect(sel, l) /\ agents' = l
      /\ mounted' = Roster!Pane(selected', l)
  BY DEF Roster!Render
<1>3. l # <<>> => l[1] \in 1 .. Len(rows)
  BY <1>1
<1>4. selected' \in 0 .. Len(rows) /\ (selected' = 0 => l = <<>>)
  BY <1>2, <1>3 DEF Roster!AutoSelect
<1>5. mounted' \in 0 .. Len(rows) /\ (mounted' # 0 => mounted' \in 1 .. Len(rows))
  BY <1>1, <1>2, <1>4 DEF Roster!Pane
<1> DEFINE opened == IF mounted' \notin {0, was} THEN <<[kind |-> "open", id |-> mounted']>>
                     ELSE <<>>
<1>6. toHost' = toHost \o out \o opened
  BY DEF Roster!Render
<1>7. opened \in Seq(Requests(Len(rows))) /\ (\A k \in 1 .. Len(opened) : opened[k].kind = "open")
  <2>1. CASE mounted' \notin {0, was}
    <3>1. [kind |-> "open", id |-> mounted'] \in Requests(Len(rows))
      BY <1>5, <2>1 DEF Requests
    <3>2. opened = <<[kind |-> "open", id |-> mounted']>>
      BY <2>1
    <3> QED
      BY <3>1, <3>2
  <2>2. CASE mounted' \in {0, was}
    <3>1. opened = <<>>
      BY <2>2
    <3> QED
      BY <3>1
  <2> QED
    BY <2>1, <2>2
<1> HIDE DEF opened
<1>8. /\ toHost' \in Seq(Requests(Len(rows)))
      /\ \A k \in 1 .. Len(toHost') :
           \/ \E j \in 1 .. Len(toHost) : toHost[j] = toHost'[k]
           \/ \E j \in 1 .. Len(out) : out[j] = toHost'[k]
           \/ \E j \in 1 .. Len(opened) : opened[j] = toHost'[k]
  <2>2. toHost \o out \in Seq(Requests(Len(rows)))
    BY <1>1, Joined
  <2> DEFINE R == Requests(Len(rows))
             both == toHost \o out
  <2>1. toHost \in Seq(R) /\ out \in Seq(R) /\ both \in Seq(R) /\ opened \in Seq(R)
    BY <1>1, <1>7, <2>2
  <2> HIDE DEF R
  <2>3. FromHalves(toHost, out, both)
    BY <2>1, Joined
  <2> HIDE DEF both
  <2>4. FromHalves(both, opened, toHost')
    <3>1. toHost' = both \o opened
      BY <1>6 DEF both
    <3> QED
      BY <2>1, <3>1, Joined
  <2>5. toHost' \in Seq(Requests(Len(rows)))
    BY <1>6, <1>7, <2>2, Joined
  <2>6. ASSUME NEW k \in 1 .. Len(toHost')
        PROVE  \/ \E j \in 1 .. Len(toHost) : toHost[j] = toHost'[k]
               \/ \E j \in 1 .. Len(out) : out[j] = toHost'[k]
               \/ \E j \in 1 .. Len(opened) : opened[j] = toHost'[k]
    <3>1. CASE \E j \in 1 .. Len(both) : both[j] = toHost'[k]
      BY <2>3, <3>1, Zenon DEF FromHalves
    <3> QED
      BY <2>4, <3>1, Zenon DEF FromHalves
  <2> QED
    BY <2>5, <2>6
<1>9. /\ strayed' \in BOOLEAN
      /\ strayed' \/ selected' \notin doomed'
  <2>1. strayed' = IF selected' # selected \/ (was = 0 /\ mounted # 0)
                   THEN selected' \in doomed' ELSE strayed
    BY DEF Roster!Render
  <2>2. CASE selected' # selected \/ (was = 0 /\ mounted # 0)
    <3>1. strayed' = (selected' \in doomed')
      BY <2>1, <2>2
    <3> QED
      BY <3>1, MembershipKept
  <2>3. CASE selected' = selected /\ ~(was = 0 /\ mounted # 0)
    BY <1>1, <2>1, <2>3
  <2> QED
    BY <2>2, <2>3
<1>10. SelectionKeeps'
  BY <1>2, <1>4, <1>9, Zenon DEF SelectionKeeps, Roster!Pane
<1> QED
  BY <1>2, <1>4, <1>7, <1>8, <1>9, <1>10

(* Nothing is said of the table's rows or to the host. *)
LEMMA HostRests ==
  ASSUME RosterInv, UNCHANGED <<rows, folders>>
  PROVE  TableTyped' /\ FoldersOwn' /\ Roster!list' = Roster!list
<1>1. TableTyped' /\ FoldersOwn'
  BY DEF RosterInv, TableTyped, FoldersOwn
<1>2. Roster!list' = Roster!list
  BY ListOrdered, ListOrderedNext, Zenon
<1> QED
  BY <1>1, <1>2

(* The form and the dialog. *)
LEMMA FormStep ==
  ASSUME RosterInv,
         UNCHANGED <<rows, folders, sessions, toHost, toGui, agents, selected, mounted, doomed,
                     strayed>>,
         form' \in Forms, pendingDelete' \in 0 .. Len(rows)
  PROVE  RosterInv'
<1>1. TableTyped' /\ FoldersOwn' /\ Roster!list' = Roster!list
  BY HostRests
<1>2. ListTold'
  BY <1>1, NothingTold DEF RosterInv
<1>3. WiresTyped' /\ WindowTyped' /\ DoomedGo'
  BY DEF RosterInv, WiresTyped, WindowTyped, DoomedGo
<1>4. SelectionKeeps'
  BY DEF RosterInv, SelectionKeeps, Roster!Pane
<1> QED
  BY <1>1, <1>2, <1>3, <1>4 DEF RosterInv

LEMMA SeedFacts ==
  ASSUME NEW f \in Forms, NEW ts
  PROVE  Roster!Seeded(f, ts) \in Forms
<1>1. f.template \in Texts
  BY DEF Forms
<1>2. [f EXCEPT !.seeded = f.template, !.text = f.template] \in Forms
  BY <1>1 DEF Forms
<1> QED
  BY <1>2 DEF Roster!Seeded

LEMMA DialogSteps ==
  ASSUME RosterInv,
         \/ Roster!OpenForm \/ Roster!CloseForm \/ Roster!TemplateLoads
         \/ \E t \in Templates : Roster!PickTemplate(t)
         \/ \E text \in {Roster!Empty, Roster!Mine} : Roster!Type(text)
         \/ Roster!AskDelete \/ Roster!CancelDelete
  PROVE  RosterInv'
<1>1. form \in Forms /\ pendingDelete \in 0 .. Len(rows) /\ agents \in Seq(1 .. Len(rows))
      /\ Len(rows) \in Nat
  BY DEF RosterInv, WindowTyped, TableTyped
<1>2. form' \in Forms /\ pendingDelete' \in 0 .. Len(rows)
  <2>1. CASE Roster!OpenForm
    <3>1. form.no + 1 \in Nat
      BY <1>1 DEF Forms
    <3>2. [Roster!NoForm EXCEPT !.open = TRUE, !.no = form.no + 1, !.template = Default] \in Forms
      BY <3>1, FreshForm
    <3> QED
      BY <1>1, <2>1, <3>2, SeedFacts DEF Roster!OpenForm
  <2>2. CASE Roster!CloseForm
    <3>1. Roster!Closed \in Forms
      <4>1. form.no \in Nat
        BY <1>1 DEF Forms
      <4> QED
        BY <4>1, FreshForm DEF Roster!Closed
    <3> QED
      BY <1>1, <2>2, <3>1 DEF Roster!CloseForm
  <2>3. CASE Roster!TemplateLoads
    BY <1>1, <2>3, SeedFacts DEF Roster!TemplateLoads
  <2>4. ASSUME NEW t \in Templates, Roster!PickTemplate(t)
        PROVE  form' \in Forms /\ pendingDelete' \in 0 .. Len(rows)
    <3>1. [form EXCEPT !.template = t] \in Forms
      BY <1>1 DEF Forms, Texts
    <3> QED
      BY <1>1, <2>4, <3>1, SeedFacts DEF Roster!PickTemplate
  <2>5. ASSUME NEW text \in {Roster!Empty, Roster!Mine}, Roster!Type(text)
        PROVE  form' \in Forms /\ pendingDelete' \in 0 .. Len(rows)
    <3>1. [form EXCEPT !.text = text] \in Forms
      BY <1>1 DEF Forms, Texts
    <3> QED
      BY <1>1, <2>5, <3>1 DEF Roster!Type
  <2>6. CASE Roster!AskDelete
    BY <1>1, <2>6 DEF Roster!AskDelete, Roster!formVars
  <2>7. CASE Roster!CancelDelete
    BY <1>1, <2>7 DEF Roster!CancelDelete, Roster!formVars, Roster!NoAgent
  <2> QED
    BY <2>1, <2>2, <2>3, <2>4, <2>5, <2>6, <2>7
<1>3. UNCHANGED <<rows, folders, sessions, toHost, toGui, agents, selected, mounted, doomed,
                  strayed>>
  BY DEF Roster!OpenForm, Roster!CloseForm, Roster!TemplateLoads, Roster!PickTemplate,
         Roster!Type, Roster!AskDelete, Roster!CancelDelete, Roster!hostVars
<1> QED
  BY <1>2, <1>3, FormStep

LEMMA SubmitStep ==
  ASSUME RosterInv, NEW name \in Names, Roster!Submit(name)
  PROVE  RosterInv'
<1>1. UNCHANGED <<rows, folders, toGui, agents, selected, mounted, pendingDelete, doomed,
                  strayed>>
  BY DEF Roster!Submit, Roster!hostVars
<1>2. TableTyped' /\ FoldersOwn' /\ Roster!list' = Roster!list
  BY <1>1, HostRests
<1>3. ListTold'
  BY <1>1, <1>2, NothingTold DEF RosterInv
<1>4. form \in Forms /\ toHost \in Seq(Requests(Len(rows)))
  BY DEF RosterInv, WindowTyped, WiresTyped
<1> DEFINE m == [kind |-> "create", name |-> name, no |-> form.no, text |-> form.text,
                 template |-> form.template]
<1>5. m \in Requests(Len(rows)) /\ m.kind # "archive"
  BY <1>4 DEF Requests, Forms
<1>6. toHost' = Append(toHost, m)
  BY DEF Roster!Submit
<1> HIDE DEF m
<1>7. WiresTyped'
  BY <1>1, <1>4, <1>5, <1>6 DEF RosterInv, WiresTyped
<1>8. WindowTyped'
  <2>1. form' \in Forms
    BY <1>4 DEF Roster!Submit, Forms
  <2> QED
    BY <1>1, <2>1 DEF RosterInv, WindowTyped
<1>9. DoomedGo'
  <2>1. \A k \in 1 .. Len(toHost') :
          toHost'[k].kind = "archive" => k \in 1 .. Len(toHost) /\ toHost'[k] = toHost[k]
    BY <1>4, <1>5, <1>6
  <2> QED
    BY <1>1, <2>1 DEF RosterInv, DoomedGo
<1>10. SelectionKeeps'
  BY <1>1 DEF RosterInv, SelectionKeeps, Roster!Pane
<1> QED
  BY <1>2, <1>3, <1>7, <1>8, <1>9, <1>10 DEF RosterInv

(* What a message under way is, by its kind. *)
LEMMA ReplyFacts ==
  ASSUME NEW n \in Nat, NEW m \in Replies(n)
  PROVE  /\ m.kind = "list" => m.list \in Seq(1 .. n)
         /\ m.kind = "created" => m.id \in 1 .. n
  BY DEF Replies

LEMMA RequestFacts ==
  ASSUME NEW n \in Nat, NEW m \in Requests(n)
  PROVE  /\ m.kind = "create" => m.name \in Names /\ m.text \in Texts /\ m.template \in Texts
         /\ m.kind \in {"archive", "open"} => m.id \in 1 .. n
  BY DEF Requests

LEMMA NothingOut ==
  ASSUME NEW n
  PROVE  <<>> \in Seq(Requests(n)) /\ (\A k \in 1 .. Len(<<>>) : <<>>[k].kind # "archive")
<1>1. \A S : <<>> \in Seq(S)
  OBVIOUS
<1>2. \A k : k \notin 1 .. Len(<<>>)
  OBVIOUS
<1> QED
  BY <1>1, <1>2

LEMMA HearStep ==
  ASSUME RosterInv, Roster!Hear
  PROVE  RosterInv'
<1> DEFINE m == Head(toGui)
<1>1. /\ toGui # <<>> /\ toGui' = Tail(toGui)
      /\ UNCHANGED <<rows, folders, pendingDelete, doomed>>
      /\ Roster!ListArrives(m) \/ Roster!CreatedArrives(m) \/ Roster!FailedArrives(m)
  BY DEF Roster!Hear, Roster!hostVars
<1>2. TableTyped' /\ FoldersOwn' /\ Roster!list' = Roster!list
  BY <1>1, HostRests
<1>3. /\ Len(rows) \in Nat /\ agents \in Seq(1 .. Len(rows)) /\ selected \in 0 .. Len(rows)
      /\ toHost \in Seq(Requests(Len(rows))) /\ toGui \in Seq(Replies(Len(rows)))
      /\ doomed \subseteq 1 .. Len(rows) /\ form \in Forms /\ strayed \in BOOLEAN
      /\ strayed \/ selected \notin doomed
  BY DEF RosterInv, TableTyped, WiresTyped, WindowTyped, SelectionKeeps
<1>4. m \in Replies(Len(rows)) /\ toGui' \in Seq(Replies(Len(rows)))
  BY <1>1, <1>3
<1> HIDE DEF m
<1>5. CASE Roster!FailedArrives(m)
  <2>1. UNCHANGED <<toHost, agents, selected, mounted, strayed>> /\ m.kind = "failed"
    BY <1>5 DEF Roster!FailedArrives
  <2>2. form' \in Forms
    <3>1. [form EXCEPT !.busy = FALSE] \in Forms
      BY <1>3 DEF Forms
    <3> QED
      BY <1>3, <1>5, <3>1 DEF Roster!FailedArrives
  <2>3. WindowTyped' /\ WiresTyped'
    BY <1>1, <1>4, <2>1, <2>2 DEF RosterInv, WindowTyped, WiresTyped
  <2>4. ListTold'
    <3>1. agents' = IF m.kind = "list" THEN m.list ELSE agents
      BY <2>1
    <3> QED
      BY <1>1, <1>2, <3>1, ListHeard DEF RosterInv, m
  <2>5. DoomedGo' /\ SelectionKeeps'
    BY <1>1, <2>1 DEF RosterInv, DoomedGo, SelectionKeeps, Roster!Pane
  <2> QED
    BY <1>2, <2>3, <2>4, <2>5 DEF RosterInv
<1>6. ASSUME NEW sel \in 0 .. Len(rows), NEW l \in Seq(1 .. Len(rows)),
             Roster!Render(sel, l, mounted, <<>>), form' \in Forms,
             l = IF m.kind = "list" THEN m.list ELSE agents
      PROVE  RosterInv'
  <2>1. <<>> \in Seq(Requests(Len(rows)))
    BY NothingOut
  <2>2. selected' = selected /\ ~(mounted = Roster!NoAgent /\ mounted # Roster!NoAgent) =>
           strayed \/ selected \notin doomed'
    BY <1>1, <1>3
  <2>3. UNCHANGED rows /\ doomed' \subseteq 1 .. Len(rows)
    BY <1>1, <1>3
  <2>4. /\ agents' = l /\ agents' \in Seq(1 .. Len(rows')) /\ selected' \in 0 .. Len(rows')
        /\ strayed' \in BOOLEAN /\ SelectionKeeps'
        /\ toHost' \in Seq(Requests(Len(rows')))
        /\ \A k \in 1 .. Len(toHost') : toHost'[k].kind = "archive" =>
             \/ \E j \in 1 .. Len(toHost) : toHost[j] = toHost'[k]
             \/ \E j \in 1 .. Len(<<>>) : <<>>[j] = toHost'[k]
    BY <1>6, <2>1, <2>2, <2>3, RenderStep, ZenonT(60)
  <2>5. ListTold'
    BY <1>1, <1>2, <1>6, <2>4, ListHeard DEF RosterInv, m
  <2>6. DoomedGo'
    BY <1>1, <2>4, NothingOut DEF RosterInv, DoomedGo
  <2>7. WiresTyped' /\ WindowTyped'
    BY <1>1, <1>4, <1>6, <2>4 DEF RosterInv, WiresTyped, WindowTyped
  <2> QED
    BY <1>2, <2>4, <2>5, <2>6, <2>7 DEF RosterInv
<1>7. CASE Roster!ListArrives(m)
  <2>1. m.kind = "list" /\ m.list \in Seq(1 .. Len(rows)) /\ form' \in Forms
        /\ Roster!Render(selected, m.list, mounted, <<>>)
    BY <1>3, <1>4, <1>7, ReplyFacts DEF Roster!ListArrives
  <2> QED
    BY <1>3, <1>6, <2>1
<1>8. CASE Roster!CreatedArrives(m)
  <2>1. m.kind = "created" /\ m.id \in 0 .. Len(rows)
        /\ Roster!Render(m.id, agents, mounted, <<>>)
    BY <1>3, <1>4, <1>8, ReplyFacts DEF Roster!CreatedArrives
  <2>2. form' \in Forms
    <3>1. form.no \in Nat
      BY <1>3 DEF Forms
    <3> QED
      BY <1>8, <3>1, FreshForm DEF Roster!CreatedArrives, Roster!Closed
  <2> QED
    BY <1>3, <1>6, <2>1, <2>2
<1> QED
  BY <1>1, <1>5, <1>7, <1>8

(* The list of the sidebar and what is said of it rest while something is selected or
   given up. *)
LEMMA PickStep ==
  ASSUME RosterInv, NEW sel \in 0 .. Len(rows), NEW was,
         NEW out \in Seq(Requests(Len(rows))),
         Roster!Render(sel, agents, was, out),
         UNCHANGED <<rows, folders, toGui, form>>,
         pendingDelete' \in 0 .. Len(rows), doomed \subseteq doomed',
         doomed' \subseteq 1 .. Len(rows),
         \A j \in 1 .. Len(out) : out[j].kind = "archive" => out[j].id \in doomed',
         selected' = selected /\ ~(was = Roster!NoAgent /\ mounted # Roster!NoAgent) =>
           strayed \/ selected \notin doomed'
  PROVE  RosterInv'
<1>1. TableTyped' /\ FoldersOwn' /\ Roster!list' = Roster!list
  BY HostRests
<1>2. agents \in Seq(1 .. Len(rows))
  BY DEF RosterInv, WindowTyped
<1>3. /\ agents' = agents /\ agents' \in Seq(1 .. Len(rows')) /\ selected' \in 0 .. Len(rows')
      /\ strayed' \in BOOLEAN /\ SelectionKeeps'
      /\ toHost' \in Seq(Requests(Len(rows')))
      /\ \A k \in 1 .. Len(toHost') : toHost'[k].kind = "archive" =>
           \/ \E j \in 1 .. Len(toHost) : toHost[j] = toHost'[k]
           \/ \E j \in 1 .. Len(out) : out[j] = toHost'[k]
  BY <1>2, RenderStep
<1>4. ListTold'
  BY <1>1, <1>3, NothingTold DEF RosterInv
<1>5. DoomedGo'
  BY <1>3 DEF RosterInv, DoomedGo
<1>6. WiresTyped' /\ WindowTyped'
  BY <1>3 DEF RosterInv, WiresTyped, WindowTyped
<1> QED
  BY <1>1, <1>3, <1>4, <1>5, <1>6 DEF RosterInv

LEMMA SelectStep ==
  ASSUME RosterInv, NEW i \in 1 .. Len(rows), Roster!Select(i)
  PROVE  RosterInv'
<1>1. /\ i # selected /\ Roster!Render(i, agents, mounted, <<>>)
      /\ UNCHANGED <<rows, folders, toGui, form, pendingDelete, doomed>>
  BY DEF Roster!Select, Roster!hostVars, Roster!formVars
<1>2. /\ pendingDelete \in 0 .. Len(rows) /\ doomed \subseteq 1 .. Len(rows)
      /\ strayed \/ selected \notin doomed
  BY DEF RosterInv, WindowTyped, SelectionKeeps
<1>3. i \in 0 .. Len(rows) /\ <<>> \in Seq(Requests(Len(rows)))
      /\ \A j \in 1 .. Len(<<>>) : <<>>[j].kind # "archive"
  BY NothingOut
<1> QED
  BY <1>1, <1>2, <1>3, PickStep

LEMMA ConfirmStep ==
  ASSUME RosterInv, Roster!ConfirmDelete
  PROVE  RosterInv'
<1> USE DEF Roster!NoAgent
<1> DEFINE sel == Roster!SelectionWithout(pendingDelete)
           was == IF sel = 0 THEN 0 ELSE mounted
           ask == [kind |-> "archive", id |-> pendingDelete]
<1>1. /\ pendingDelete # 0 /\ doomed' = doomed \cup {pendingDelete} /\ pendingDelete' = 0
      /\ Roster!Render(sel, agents, was, <<ask>>)
      /\ UNCHANGED <<rows, folders, toGui, form>>
  BY DEF Roster!ConfirmDelete, Roster!hostVars, Roster!formVars
<1>2. /\ pendingDelete \in 1 .. Len(rows) /\ doomed \subseteq 1 .. Len(rows)
      /\ selected \in 0 .. Len(rows) /\ Len(rows) \in Nat
      /\ strayed \/ selected \notin doomed
      /\ mounted = Roster!Pane(selected, agents) /\ (selected = 0 => agents = <<>>)
      /\ agents \in Seq(1 .. Len(rows))
  BY <1>1 DEF RosterInv, WindowTyped, TableTyped, SelectionKeeps
<1>3. sel \in 0 .. Len(rows)
  BY <1>2 DEF Roster!SelectionWithout
<1>4. /\ <<ask>> \in Seq(Requests(Len(rows)))
      /\ \A j \in 1 .. Len(<<ask>>) : <<ask>>[j].kind = "archive" => <<ask>>[j].id \in doomed'
  <2>1. ask \in Requests(Len(rows))
    BY <1>2 DEF Requests
  <2>2. ask.id \in doomed'
    BY <1>1
  <2> HIDE DEF ask
  <2> QED
    BY <2>1, <2>2
<1>5. selected' = selected /\ ~(was = 0 /\ mounted # 0) => strayed \/ selected \notin doomed'
  <2>1. CASE pendingDelete # selected
    BY <1>1, <1>2, <2>1
  <2>2. CASE pendingDelete = selected
    <3>1. sel = 0 /\ was = 0
      BY <2>2 DEF Roster!SelectionWithout
    <3>2. selected' = Roster!AutoSelect(0, agents)
      BY <1>1, <3>1 DEF Roster!Render
    <3>3. CASE agents = <<>>
      BY <1>1, <2>2, <3>2, <3>3 DEF Roster!AutoSelect
    <3>4. CASE agents # <<>>
      <4>1. selected' = agents[1] /\ 1 \in DOMAIN agents
        BY <1>2, <3>2, <3>4 DEF Roster!AutoSelect
      <4>2. selected' = selected => mounted = selected
        BY <1>2, <4>1 DEF Roster!Pane
      <4> QED
        BY <1>1, <2>2, <3>1, <4>2
    <3> QED
      BY <3>3, <3>4
  <2> QED
    BY <2>1, <2>2
<1>6. pendingDelete' \in 0 .. Len(rows) /\ doomed \subseteq doomed' /\ doomed' \subseteq 1 .. Len(rows)
  BY <1>1, <1>2
<1> HIDE DEF sel, was, ask
<1> QED
  BY <1>1, <1>3, <1>4, <1>5, <1>6, PickStep

LEMMA ServeStep ==
  ASSUME RosterInv, Roster!Serve
  PROVE  RosterInv'
<1> DEFINE m == Head(toHost)
           n == Len(rows)
<1>1. /\ toHost # <<>> /\ toHost' = Tail(toHost)
      /\ UNCHANGED <<agents, selected, mounted, form, pendingDelete, doomed, strayed>>
      /\ Roster!Create(m) \/ Roster!Archive(m) \/ Roster!OpenOrAttach(m)
  BY DEF Roster!Serve, Roster!formVars
<1>2. /\ n \in Nat /\ rows \in Seq(AgentRows) /\ n <= MaxAgents /\ MaxAgents \in Nat
      /\ toHost \in Seq(Requests(n)) /\ toGui \in Seq(Replies(n))
      /\ WiresTyped /\ WindowTyped /\ FoldersOwn /\ DoomedGo /\ ListTold
  BY RosterAssumption DEF RosterInv, TableTyped, WiresTyped, Roster!RosterAssumption
<1>3. /\ m \in Requests(n) /\ toHost' \in Seq(Requests(n)) /\ m = toHost[1]
      /\ 1 \in 1 .. Len(toHost)
      /\ \A k \in 1 .. Len(toHost') : k + 1 \in 1 .. Len(toHost) /\ toHost'[k] = toHost[k + 1]
  BY <1>1, <1>2
<1>4. m.kind = "archive" => m.id \in doomed
  BY <1>2, <1>3 DEF DoomedGo
<1>5. \A k \in 1 .. Len(toHost') : toHost'[k].kind = "archive" => toHost'[k].id \in doomed'
  BY <1>1, <1>2, <1>3 DEF DoomedGo
<1>6. SelectionKeeps'
  BY <1>1 DEF RosterInv, SelectionKeeps, Roster!Pane
<1> HIDE DEF m
<1>7. ASSUME Len(rows') \in n .. MaxAgents, rows' \in Seq(AgentRows),
             toGui' \in Seq(Replies(Len(rows'))), FoldersOwn', ListTold',
             \A i \in 1 .. Len(rows') : ~rows'[i].live => i \in doomed
      PROVE  RosterInv'
  <2> DEFINE len == Len(rows')
  <2>1. len \in Nat /\ n \in 0 .. len
    BY <1>2, <1>7
  <2>2. /\ toHost' \in Seq(Requests(len)) /\ agents' \in Seq(1 .. len)
    BY <1>1, <1>2, <1>3, <2>1, WiresWiden DEF WindowTyped
  <2>3. WiresTyped'
    BY <1>7, <2>2 DEF WiresTyped
  <2>4. WindowTyped'
    BY <1>1, <1>2, <2>1, <2>2 DEF WindowTyped
  <2>5. TableTyped' /\ DoomedGo'
    BY <1>1, <1>2, <1>5, <1>7, <2>1 DEF TableTyped, DoomedGo
  <2> QED
    BY <1>6, <1>7, <2>3, <2>4, <2>5 DEF RosterInv
<1>8. CASE Roster!OpenOrAttach(m)
  <2>1. UNCHANGED <<rows, folders, toGui>>
    BY <1>8 DEF Roster!OpenOrAttach
  <2>2. TableTyped' /\ FoldersOwn' /\ Roster!list' = Roster!list
    BY <2>1, HostRests
  <2>3. ListTold'
    BY <1>1, <1>2, <2>1, <2>2, NothingTold
  <2> QED
    BY <1>2, <1>7, <2>1, <2>2, <2>3 DEF DoomedGo
<1>9. CASE Roster!Archive(m)
  <2> DEFINE push == [kind |-> "list", list |-> Roster!list']
  <2>1. /\ m.kind = "archive" /\ rows' = [rows EXCEPT ![m.id].live = FALSE]
        /\ UNCHANGED folders /\ toGui' = Append(toGui, push)
    BY <1>9 DEF Roster!Archive
  <2>2. m.id \in 1 .. n /\ m.id \in doomed
    BY <1>2, <1>3, <1>4, <2>1, RequestFacts
  <2>3. /\ rows' \in Seq(AgentRows) /\ Len(rows') = n
        /\ \A i \in 1 .. n : /\ rows'[i].slug = rows[i].slug /\ rows'[i].meant = rows[i].meant
                             /\ i # m.id => rows'[i].live = rows[i].live
    <3>1. \A r \in AgentRows : /\ [r EXCEPT !.live = FALSE] \in AgentRows
                               /\ [r EXCEPT !.live = FALSE].slug = r.slug
                               /\ [r EXCEPT !.live = FALSE].meant = r.meant
      BY DEF AgentRows
    <3>2. rows[m.id] \in AgentRows
      BY <1>2, <2>2
    <3> DEFINE r1 == [rows[m.id] EXCEPT !.live = FALSE]
    <3>3. r1 \in AgentRows /\ r1.slug = rows[m.id].slug /\ r1.meant = rows[m.id].meant
      BY <3>1, <3>2
    <3>4. rows' = [rows EXCEPT ![m.id] = r1]
      BY <2>1
    <3> HIDE DEF r1
    <3> QED
      BY <1>2, <2>2, <3>3, <3>4
  <2>4. FoldersOwn'
    BY <1>2, <2>1, <2>3 DEF FoldersOwn
  <2>5. ListTold'
    BY <1>2, <2>1, ListSaid, push.kind = "list", push.list = Roster!list',
       [kind |-> "created"].kind = "created"
  <2>6. push \in Replies(n)
    <3>1. Lives(rows') \in SUBSET (1 .. n)
      BY <2>3 DEF Lives
    <3>2. Roster!list' \in Seq(1 .. n)
      BY <1>2, <3>1, ListOrderedNext, OrderedFacts
    <3> QED
      BY <3>2 DEF Replies
  <2>7. toGui' \in Seq(Replies(Len(rows')))
    BY <1>2, <2>1, <2>3, <2>6
  <2>8. \A i \in 1 .. Len(rows') : ~rows'[i].live => i \in doomed
    BY <1>2, <2>2, <2>3 DEF DoomedGo
  <2> QED
    BY <1>2, <1>7, <2>3, <2>4, <2>5, <2>7, <2>8
<1>10. ASSUME Roster!Create(m) PROVE RosterInv'
  <2> DEFINE slug == Roster!SlugFor(m.name)
             text == Roster!Specialty(m.text, m.template)
  <2>1. /\ m.kind = "create" /\ n < MaxAgents
        /\ Roster!Created(m, slug) \/ Roster!CreationFails(m, slug)
    BY <1>10 DEF Roster!Create
  <2>2. m.name \in Names /\ m.text \in Texts /\ m.template \in Texts
    BY <1>2, <1>3, <2>1, RequestFacts
  <2>3. slug \in Slugs /\ slug \notin Roster!Taken
    BY <1>2, <2>1, <2>2, FreeSlug
  <2>4. \A i \in 1 .. n : rows[i].slug # slug
    BY <1>2, <2>3 DEF Roster!Taken, Roster!Known
  <2>5. text \in Texts
    BY <2>2 DEF Roster!Specialty
  <2> HIDE DEF slug, text
  <2>6. ASSUME NEW t, NEW p, folders' = Roster!Scaffolded(slug, t, p)
        PROVE  /\ slug \in DOMAIN folders' /\ folders'[slug].text = t
               /\ \A i \in 1 .. n : rows[i].slug \in DOMAIN folders'
                                    /\ folders'[rows[i].slug].text = rows[i].meant
    BY <1>2, <2>4, <2>6 DEF Roster!Scaffolded, FoldersOwn
  <2>7. CASE Roster!CreationFails(m, slug)
    <3> DEFINE failed1 == [kind |-> "failed", no |-> m.no]
    <3>1. UNCHANGED rows /\ toGui' = Append(toGui, failed1)
      BY <2>7 DEF Roster!CreationFails
    <3>2. FoldersOwn'
      <4>1. CASE UNCHANGED folders
        BY <1>2, <3>1, <4>1 DEF FoldersOwn
      <4>2. ASSUME NEW t, folders' = Roster!Scaffolded(slug, t, m.template)
            PROVE  FoldersOwn'
        BY <1>2, <2>6, <3>1, <4>2 DEF FoldersOwn
      <4> QED
        BY <2>7, <4>1, <4>2 DEF Roster!CreationFails
    <3>3. Roster!list' = Roster!list
      BY <3>1, ListOrdered, ListOrderedNext, Zenon
    <3>4. failed1 \in Replies(n)
      <4>1. m.no \in Nat
        BY <1>3, <2>1 DEF Requests
      <4> QED
        BY <4>1 DEF Replies
    <3>5. ListTold'
      BY <1>1, <1>2, <3>1, <3>3, NothingTold, failed1.kind # "list"
    <3>6. toGui' \in Seq(Replies(Len(rows')))
      BY <1>2, <3>1, <3>4
    <3> QED
      BY <1>2, <1>7, <3>1, <3>2, <3>5, <3>6 DEF DoomedGo
  <2>8. CASE Roster!Created(m, slug)
    <3> DEFINE row1 == [slug |-> slug, live |-> TRUE, meant |-> text]
               push == [kind |-> "list", list |-> Roster!list']
               reply == [kind |-> "created", id |-> Len(rows')]
    <3>1. /\ folders' = Roster!Scaffolded(slug, text, m.template)
          /\ rows' = Append(rows, row1)
          /\ toGui' = toGui \o <<push, reply>> \/ toGui' = toGui \o <<reply, push>>
      BY <2>8 DEF Roster!Created, text
    <3>2. row1 \in AgentRows /\ row1.slug = slug /\ row1.live = TRUE /\ row1.meant = text
      BY <2>3, <2>5 DEF AgentRows
    <3> HIDE DEF row1
    <3>3. /\ rows' \in Seq(AgentRows) /\ Len(rows') = n + 1 /\ rows'[n + 1] = row1
          /\ \A i \in 1 .. n : rows'[i] = rows[i]
      BY <1>2, <3>1, <3>2
    <3>4. FoldersOwn'
      <4>1. ASSUME NEW i \in 1 .. n + 1
            PROVE  /\ \A j \in 1 .. n + 1 : i # j => rows'[i].slug # rows'[j].slug
                   /\ rows'[i].slug \in DOMAIN folders'
                   /\ folders'[rows'[i].slug].text = rows'[i].meant
        <5>1. CASE i = n + 1
          <6>1. \A j \in 1 .. n + 1 : i # j => j \in 1 .. n
            BY <1>2, <5>1
          <6> QED
            BY <2>4, <2>6, <3>1, <3>2, <3>3, <5>1, <6>1
        <5>2. CASE i \in 1 .. n
          <6>1. \A j \in 1 .. n : i # j => rows[i].slug # rows[j].slug
            BY <1>2, <5>2 DEF FoldersOwn
          <6>2. \A j \in 1 .. n + 1 : j = n + 1 \/ j \in 1 .. n
            BY <1>2
          <6> QED
            BY <2>4, <2>6, <3>1, <3>2, <3>3, <5>2, <6>1, <6>2
        <5> QED
          BY <1>2, <5>1, <5>2
      <4> QED
        BY <3>3, <4>1 DEF FoldersOwn
    <3>5. ListTold'
      BY <1>2, <3>1, ListSaid, push.kind = "list", push.list = Roster!list',
         reply.kind = "created"
    <3>6. push \in Replies(n + 1) /\ reply \in Replies(n + 1)
      <4>1. Lives(rows') \in SUBSET (1 .. n + 1) /\ n + 1 \in Nat
        BY <1>2, <3>3 DEF Lives
      <4>2. Roster!list' \in Seq(1 .. n + 1)
        BY <4>1, ListOrderedNext, OrderedFacts
      <4>3. Len(rows') \in 1 .. n + 1
        BY <1>2, <3>3
      <4> QED
        BY <4>2, <4>3 DEF Replies
    <3>7. toGui' \in Seq(Replies(Len(rows')))
      <4>1. toGui \in Seq(Replies(n + 1))
        BY <1>2, WiresWiden, n + 1 \in Nat, n \in 0 .. n + 1
      <4>2. \A S : \A a, b \in S : \A s \in Seq(S) : s \o <<a, b>> \in Seq(S)
        OBVIOUS
      <4> HIDE DEF push, reply
      <4> QED
        BY <3>1, <3>3, <3>6, <4>1, <4>2
    <3>8. \A i \in 1 .. Len(rows') : ~rows'[i].live => i \in doomed
      BY <1>2, <3>2, <3>3 DEF DoomedGo
    <3> QED
      BY <1>2, <1>7, <2>1, <3>3, <3>4, <3>5, <3>7, <3>8
  <2> QED
    BY <2>1, <2>7, <2>8
<1> QED
  BY <1>1, <1>8, <1>9, <1>10

-----------------------------------------------------------------------------
(* No folder is shared and none loses its text; only doomed agents are archived; the last
   list said is the table's; nothing selected goes unless it shows
   (agents/registry.ts, AgentSidebar.tsx). *)
THEOREM RosterInductive == Roster!Spec => []RosterInv
<1>1. RosterInv /\ [Roster!Next]_(Roster!vars) => RosterInv'
  <2> SUFFICES ASSUME RosterInv, [Roster!Next]_(Roster!vars) PROVE RosterInv'
    OBVIOUS
  <2>1. form \in Forms /\ pendingDelete \in 0 .. Len(rows) /\ rows \in Seq(AgentRows)
        /\ agents \in Seq(1 .. Len(rows))
    BY DEF RosterInv, WindowTyped, TableTyped
  <2>2. ASSUME UNCHANGED <<rows, folders, toHost, toGui, agents, selected, mounted, form,
                           pendingDelete, doomed, strayed>>
        PROVE  RosterInv'
    <3>1. TableTyped' /\ FoldersOwn' /\ Roster!list' = Roster!list
      BY <2>2, HostRests
    <3>2. ListTold'
      BY <2>2, <3>1, NothingTold DEF RosterInv
    <3>3. WiresTyped' /\ WindowTyped' /\ DoomedGo'
      BY <2>2 DEF RosterInv, WiresTyped, WindowTyped, DoomedGo
    <3>4. SelectionKeeps'
      BY <2>2 DEF RosterInv, SelectionKeeps, Roster!Pane
    <3> QED
      BY <3>1, <3>2, <3>3, <3>4 DEF RosterInv
  <2>3. CASE UNCHANGED Roster!vars
    BY <2>2, <2>3 DEF Roster!vars, Roster!hostVars, Roster!formVars
  <2>4. ASSUME NEW i \in Roster!Known, Roster!SessionEnds(i) PROVE RosterInv'
    BY <2>2, <2>4 DEF Roster!SessionEnds, Roster!formVars
  <2>5. ASSUME NEW name \in Names, Roster!Submit(name) PROVE RosterInv'
    BY <2>5, SubmitStep
  <2>6. ASSUME Roster!SelectRow \/ Roster!SelectInTray PROVE RosterInv'
    <3>1. \E i \in 1 .. Len(rows) : Roster!Select(i)
      <4>1. CASE Roster!SelectRow
        <5>1. PICK k \in DOMAIN agents : Roster!Select(agents[k])
          BY <4>1 DEF Roster!SelectRow
        <5>2. agents[k] \in 1 .. Len(rows)
          BY <2>1, <5>1
        <5> QED
          BY <5>1, <5>2
      <4>2. CASE Roster!SelectInTray
        BY <2>1, <4>2 DEF Roster!SelectInTray, Roster!Known
      <4> QED
        BY <2>6, <4>1, <4>2
    <3> QED
      BY <3>1, SelectStep
  <2>7. ASSUME \/ Roster!OpenForm \/ Roster!CloseForm \/ Roster!TemplateLoads
               \/ \E t \in Templates : Roster!PickTemplate(t)
               \/ \E text \in {Roster!Empty, Roster!Mine} : Roster!Type(text)
               \/ Roster!AskDelete \/ Roster!CancelDelete
        PROVE  RosterInv'
    BY <2>7, DialogSteps
  <2> QED
    BY <2>3, <2>4, <2>5, <2>6, <2>7, ServeStep, HearStep, ConfirmStep DEF Roster!Next
<1> QED
  BY <1>1, RosterStarts, PTL DEF Roster!Spec

(* No two agents share a folder, none loses the instructions it was made with, and once
   nothing is under way the renderer shows the agents there are and has one of them
   selected, unless the selection fell on one that goes. *)
THEOREM RosterLives == Roster!Spec => [](Roster!FoldersApart /\ Roster!SelectionLives)
<1>1. RosterInv => Roster!FoldersApart /\ Roster!SelectionLives
  <2> SUFFICES ASSUME RosterInv PROVE Roster!FoldersApart /\ Roster!SelectionLives
    OBVIOUS
  <2>1. rows \in Seq(AgentRows) /\ Roster!Known = 1 .. Len(rows)
    BY DEF RosterInv, TableTyped, Roster!Known
  <2>2. Roster!FoldersApart
    BY <2>1 DEF RosterInv, FoldersOwn, Roster!FoldersApart
  <2>3. ASSUME toHost = <<>>, toGui = <<>>
        PROVE  /\ agents = Roster!list
               /\ strayed \/ selected \in Roster!Live
                          \/ (selected = Roster!NoAgent /\ Roster!Live = {})
    <3>1. agents = Roster!list
      BY <2>3 DEF RosterInv, ListTold
    <3>2. CASE selected = Roster!NoAgent
      <4>1. Ordered(Lives(rows)) = <<>>
        BY <3>1, <3>2, ListOrdered DEF RosterInv, SelectionKeeps
      <4>2. Lives(rows) \in SUBSET (1 .. Len(rows)) /\ Len(rows) \in Nat
        BY <2>1 DEF Lives
      <4> QED
        BY <3>1, <3>2, <4>1, <4>2, OrderedFacts, ListOrdered
    <3>3. CASE selected # Roster!NoAgent /\ ~strayed
      <4>1. selected \in 1 .. Len(rows) /\ selected \notin doomed
        BY <3>3 DEF RosterInv, SelectionKeeps, WindowTyped, Roster!NoAgent
      <4>2. rows[selected].live
        BY <4>1 DEF RosterInv, DoomedGo
      <4> QED
        BY <2>1, <3>1, <4>1, <4>2 DEF Roster!Live
    <3> QED
      BY <3>1, <3>2, <3>3
  <2> QED
    BY <2>2, <2>3 DEF Roster!SelectionLives
<1> QED
  BY <1>1, RosterInductive, PTL
-----------------------------------------------------------------------------
(* A behaviour of the composition is one of every part: a part only takes steps of its
   own, and rests while another one takes its turn. *)
THEOREM DeskPartsAsSpecified ==
  MCSpec => Spec /\ Desk!Spec /\ Roster!Spec /\ Sleep!Spec /\ Tele!Spec /\ Schema!Spec
<1>1. MCInit => Init /\ Desk!Init /\ Roster!Init /\ Sleep!Init /\ Tele!Init /\ Schema!Init
  BY DEF MCInit
<1> DEFINE Steps == [Next]_vars /\ [Desk!Next]_(Desk!vars) /\ [Roster!Next]_(Roster!vars)
                    /\ [Sleep!Next]_(Sleep!vars) /\ [Tele!Next]_(Tele!vars)
                    /\ [Schema!Next]_(Schema!vars)
           All == <<part, vars, deskVars, rosterVars, sleepVars, teleVars, schemaVars>>
<1>2. [MCNext]_All => Steps
  <2>1. UNCHANGED deskVars => UNCHANGED Desk!vars
    BY DEF deskVars, Desk!vars, Desk!hostVars
  <2>2. UNCHANGED rosterVars => UNCHANGED Roster!vars
    BY DEF rosterVars, Roster!vars, Roster!hostVars, Roster!formVars
  <2>3. UNCHANGED sleepVars => UNCHANGED Sleep!vars
    BY DEF sleepVars, Sleep!vars
  <2>4. UNCHANGED teleVars => UNCHANGED Tele!vars
    BY DEF teleVars, Tele!vars, Tele!hostVars, Tele!formVars
  <2>5. UNCHANGED schemaVars => UNCHANGED Schema!vars
    BY DEF schemaVars, Schema!vars
  <2> SUFFICES ASSUME [MCNext]_All PROVE Steps
    OBVIOUS
  <2>10. CASE Next /\ UNCHANGED <<deskVars, rosterVars, sleepVars, teleVars, schemaVars>>
    BY <2>1, <2>2, <2>3, <2>4, <2>5, <2>10
  <2>11. CASE Desk!Next /\ UNCHANGED <<vars, rosterVars, sleepVars, teleVars, schemaVars>>
    BY <2>2, <2>3, <2>4, <2>5, <2>11
  <2>12. CASE Roster!Next /\ UNCHANGED <<vars, deskVars, sleepVars, teleVars, schemaVars>>
    BY <2>1, <2>3, <2>4, <2>5, <2>12
  <2>13. CASE Sleep!Next /\ UNCHANGED <<vars, deskVars, rosterVars, teleVars, schemaVars>>
    BY <2>1, <2>2, <2>4, <2>5, <2>13
  <2>14. CASE Tele!Next /\ UNCHANGED <<vars, deskVars, rosterVars, sleepVars, schemaVars>>
    BY <2>1, <2>2, <2>3, <2>5, <2>14
  <2>15. CASE Schema!Next /\ UNCHANGED <<vars, deskVars, rosterVars, sleepVars, teleVars>>
    BY <2>1, <2>2, <2>3, <2>4, <2>15
  <2>16. CASE UNCHANGED All
    BY <2>1, <2>2, <2>3, <2>4, <2>5, <2>16
  <2>17. \/ Next /\ UNCHANGED <<deskVars, rosterVars, sleepVars, teleVars, schemaVars>>
         \/ Desk!Next /\ UNCHANGED <<vars, rosterVars, sleepVars, teleVars, schemaVars>>
         \/ Roster!Next /\ UNCHANGED <<vars, deskVars, sleepVars, teleVars, schemaVars>>
         \/ Sleep!Next /\ UNCHANGED <<vars, deskVars, rosterVars, teleVars, schemaVars>>
         \/ Tele!Next /\ UNCHANGED <<vars, deskVars, rosterVars, sleepVars, schemaVars>>
         \/ Schema!Next /\ UNCHANGED <<vars, deskVars, rosterVars, sleepVars, teleVars>>
         \/ UNCHANGED All
    BY DEF MCNext
  <2> HIDE DEF Steps, All
  <2> QED
    BY <2>10, <2>11, <2>12, <2>13, <2>14, <2>15, <2>16, <2>17, Zenon
<1> HIDE DEF All
<1>3. MCSpec => MCInit /\ [][MCNext]_All
  BY DEF MCSpec, All
<1> QED
  BY <1>1, <1>2, <1>3, PTL DEF Spec, Desk!Spec, Roster!Spec, Sleep!Spec, Tele!Spec, Schema!Spec

(* In the composition as well: an assertion is held for each headless run and for nothing
   else (wake/sleep-guard.ts). *)
THEOREM MachineAwake == MCSpec => []HeldForTheRun
<1>1. Sleep!HeldForTheRun => HeldForTheRun
  BY DEF HeldForTheRun
<1> QED
  BY <1>1, DeskPartsAsSpecified, AwakeForTheRuns, PTL

(* In the composition as well: a boot that succeeds has the schema of its build, and the
   way back (db/index.ts). *)
THEOREM BootsConverge == MCSpec => []SchemaSound
<1>1. Schema!SchemaSound => SchemaSound
  BY DEF SchemaSound
<1> QED
  BY <1>1, DeskPartsAsSpecified, SchemasConverge, PTL

(* In the composition as well: nothing leaves the machine that the user did not mean to
   send, and nothing is stored twice (analytics/index.ts, feedback/index.ts). *)
THEOREM NothingUnasked == MCSpec => []TelemetrySound
<1>1. Tele!TelemetrySound => TelemetrySound
  BY DEF TelemetrySound
<1> QED
  BY <1>1, DeskPartsAsSpecified, OnlyWhatWasMeant, PTL

(* In the composition as well: no two agents share a folder, and list and selection follow
   the host's agents (agents/registry.ts, AgentSidebar.tsx). *)
THEOREM AgentsApart == MCSpec => []RosterSound
<1>1. Roster!FoldersApart /\ Roster!SelectionLives => RosterSound
  BY DEF RosterSound
<1> QED
  BY <1>1, DeskPartsAsSpecified, RosterLives, PTL

(* In the composition as well: statuses are what the facts say, and the tray catches up
   with the host (status/index.ts, tray/index.ts). *)
THEOREM ScreensFollow == MCSpec => []ScreensTellTheDesk
<1>1. Desk!StatusIsWinner /\ Desk!TrayCatchesUp => ScreensTellTheDesk
  BY DEF ScreensTellTheDesk
<1> QED
  BY <1>1, DeskPartsAsSpecified, ScreensTellTheHost, PTL

(* In the composition as well: the host's timers and monitors follow the rows, and each
   occurrence is served at most once (scheduler/index.ts). *)
THEOREM TimersFollow == MCSpec => []HostFollowsRows /\ FiresExactlyOnce
  BY DeskPartsAsSpecified, HostFollows, OccurrenceServedOnce, PTL
=============================================================================
