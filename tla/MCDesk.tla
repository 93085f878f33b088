------------------------------ MODULE MCDesk ------------------------------
(***************************************************************************)
(* Six parts of the host and the renderer that share no state, checked by  *)
(* one run: each behaviour takes the steps of one of them while the others *)
(* rest as they start.                                                     *)
(***************************************************************************)
EXTENDS CronScheduler

CONSTANTS Agents, None, MaxCards, RecentMax, MaxEvents,             \* AgentDesk
          Names, Templates, Default, MaxAgents, MaxForms, MaxQueued, \* AgentRoster
          Writers, MaxHolds,                                        \* SleepGuard
          MaxEdits, MaxSends, MaxHosts,                             \* Telemetry
          Newest, Builds, Tables, Since, Columns,                   \* SchemaUpgrade
          MaxWrites, MaxBoots, MaxRestores

VARIABLES
  part,
  hostUp, gone, status, arb, sess, timers, cards, ring, noted, relay, sent, tray,
  rows, folders, sessions, toHost, toGui, agents, selected, mounted, form, loaded,
    pendingDelete, doomed, strayed,
  guard, bound, made, lapsed,
  settings, client, enabled, seen, draft, edits, ids, stops, sends, waiting, outbox, stored,
    captured,
  db, step, build, fresh, backups, writes, boots, restores, first, spoilt

\* One name, slugified.
const_Names == {<<"x">>}

\* The builds 2 to 4; one table as old as the file, one that came with version 3.
const_Since == [agents |-> 0, wakes |-> 3]
const_Columns == {<<"agents", 2>>, <<"agents", 3>>, <<"agents", 4>>, <<"wakes", 4>>}

Desk == INSTANCE AgentDesk
Roster == INSTANCE AgentRoster
Sleep == INSTANCE SleepGuard
Tele == INSTANCE Telemetry
Schema == INSTANCE SchemaUpgrade

ASSUME DeskAssumption == Desk!DeskAssumption
ASSUME RosterAssumption == Roster!RosterAssumption
ASSUME TeleAssumption == Tele!TelemetryAssumption
ASSUME SchemaAssumption == Schema!UpgradeAssumption

deskVars == <<hostUp, gone, status, arb, sess, timers, cards, ring, noted, relay, sent, tray>>
rosterVars == <<rows, folders, sessions, toHost, toGui, agents, selected, mounted, form,
                loaded, pendingDelete, doomed, strayed>>
sleepVars == <<guard, bound, made, lapsed>>
teleVars == <<settings, client, enabled, seen, draft, edits, ids, stops, sends, waiting, outbox,
              stored, captured>>
schemaVars == <<db, step, build, fresh, backups, writes, boots, restores, first, spoilt>>

MCInit ==
  /\ part \in {"cron", "desk", "roster", "sleep", "telemetry", "schema"}
  /\ Init /\ (part # "cron" => ~paused)
  /\ Desk!Init /\ Roster!Init /\ Sleep!Init /\ Tele!Init /\ Schema!Init
  /\ part # "schema" => db.tables = Schema!NoTables
  /\ part # "telemetry" => settings = [telemetry |-> TRUE, other |-> TRUE]

MCNext ==
  \/ /\ part = "cron" /\ Next
     /\ UNCHANGED <<part, deskVars, rosterVars, sleepVars, teleVars, schemaVars>>
  \/ /\ part = "desk" /\ Desk!Next
     /\ UNCHANGED <<part, vars, rosterVars, sleepVars, teleVars, schemaVars>>
  \/ /\ part = "roster" /\ Roster!Next
     /\ UNCHANGED <<part, vars, deskVars, sleepVars, teleVars, schemaVars>>
  \/ /\ part = "sleep" /\ Sleep!Next
     /\ UNCHANGED <<part, vars, deskVars, rosterVars, teleVars, schemaVars>>
  \/ /\ part = "telemetry" /\ Tele!Next
     /\ UNCHANGED <<part, vars, deskVars, rosterVars, sleepVars, schemaVars>>
  \/ /\ part = "schema" /\ Schema!Next
     /\ UNCHANGED <<part, vars, deskVars, rosterVars, sleepVars, teleVars>>

MCSpec ==
  MCInit /\ [][MCNext]_<<part, vars, deskVars, rosterVars, sleepVars, teleVars, schemaVars>>

-----------------------------------------------------------------------------
\* AgentDesk: every status is what the highest of the independent facts says, and the
\* tray catches up with the host once nothing is under way.
ScreensTellTheDesk == part = "desk" => Desk!StatusIsWinner /\ Desk!TrayCatchesUp

\* AgentRoster: no two agents share a folder, none loses its instructions, and list and
\* selection of the renderer follow the host's agents.
RosterSound == part = "roster" => Roster!FoldersApart /\ Roster!SelectionLives

\* AgentRoster: no PTY of a deleted agent is left (routers/agents.ts).
DeletedHasNoPty == Roster!DeletedHasNoPty

\* SleepGuard: an assertion is held for each headless run, and for nothing else.
HeldForTheRun == part = "sleep" => Sleep!HeldForTheRun

\* Telemetry: nothing without consent, nothing stored twice, nothing called sent that is not.
TelemetrySound == part = "telemetry" => Tele!TelemetrySound

\* SchemaUpgrade: a boot that succeeds has the schema of its build, and the way back.
SchemaSound == part = "schema" => Schema!SchemaSound
=============================================================================
