------------------------------- MODULE MCApp -------------------------------
(***************************************************************************)
(* The broker's session and the launcher, which share no state, checked by *)
(* one run: each behaviour takes the steps of one of them while the other  *)
(* rests as it starts.                                                     *)
(***************************************************************************)
EXTENDS BrokerSession

CONSTANT MaxSockets

VARIABLES
  part,
  platform, proc, win, dock, tray, quitting, updaterRelaunching, hostUp, hostAlive,
    terminating, setting, live, updateStatus, checking, installOnDownloaded, notified,
    booted, autoDownload, allowPrerelease, op, sockets, linked, present, goneTimer,
    realQuit, accepted, rolledBack

App == INSTANCE AppShell WITH status <- updateStatus

ASSUME LauncherAssumption == App!AppAssumption

appVars == <<platform, proc, win, dock, tray, quitting, updaterRelaunching, hostUp,
             hostAlive, terminating, setting, live, updateStatus, checking,
             installOnDownloaded, notified, booted, autoDownload, allowPrerelease, op,
             sockets, linked, present, goneTimer, realQuit, accepted, rolledBack>>

MCInit ==
  /\ part \in {"session", "app"}
  /\ Init /\ App!Init
  /\ part = "app" => ~tokens
  /\ part = "session" => platform = "darwin" /\ setting = App!DEFAULT_SETTINGS

MCNext ==
  \/ part = "session" /\ Next /\ UNCHANGED <<part, appVars>>
  \/ part = "app" /\ App!Next /\ UNCHANGED <<part, vars>>

MCSpec == MCInit /\ [][MCNext]_<<part, vars, appVars>> /\ Fairness /\ App!Fairness

-----------------------------------------------------------------------------
\* AppShell: a running launcher can be reached, left and updated as it says.
LauncherSound == App!LauncherSound

\* BrokerSession: every call for the broker's connection returns; AppShell: a real quit
\* ends the launcher.
NothingHangs == CallsReturn /\ App!QuitsEnd
=============================================================================
