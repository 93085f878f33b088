------------------------------ MODULE AppShell ------------------------------
(***************************************************************************)
(* The launcher: its window, dock icon and menu bar item, the quits it     *)
(* turns into retreats and those it must not (main/index.ts, tray.ts,      *)
(* window.ts), the updater that may relaunch it (updater.ts), the settings *)
(* the host pushes to both (shared/settings.ts, services/settings), and    *)
(* the host's own idea of whether anyone is watching (gui-presence.ts).    *)
(*                                                                         *)
(* Electron, electron-updater and the user are the environment: windows    *)
(* load and close, checks and downloads are answered or fail, and a quit   *)
(* closes the windows and ends the process unless before-quit prevents it. *)
(* The build is a packaged one.                                            *)
(*                                                                         *)
(* Definitions whose name ends in "Slip" are not part of the model: each   *)
(* is a plausible mistake in the definition that follows it.               *)
(***************************************************************************)
EXTENDS Naturals

CONSTANT MaxSockets  \* bound: renderer sockets the host has yet to see close

AppAssumption == MaxSockets \in Nat

VARIABLES
    platform,   \* darwin or another
    proc,       \* the launcher process
    win,        \* mainWindow
    dock, tray, \* the dock icon and the status item are shown
    quitting, updaterRelaunching,
    hostUp,     \* currentHost has a port (else ensureHost threw)
    hostAlive,  \* its process is there
    terminating,        \* quitCompletely awaits terminateHost
    setting, live,      \* showInMenuBar and updateChannel: in the host, pushed
    \* the updater
    status, checking, installOnDownloaded, notified, booted,
    autoDownload, allowPrerelease,
    op,         \* what electron-updater is doing
    \* the host's presence detector
    sockets,    \* renderer WebSockets it counts
    linked,     \* the window's own is one of them
    present, goneTimer,
    \* observations, read by the properties only
    realQuit,   \* someone asked the launcher to exit
    accepted,   \* the user accepted the update and nothing has failed since
    rolledBack  \* a relaunch failed after the user asked for a complete quit

shell == <<proc, win, dock, tray, quitting>>
hosts == <<platform, hostUp, hostAlive, terminating>>
settings == <<setting, live>>
updater == <<status, checking, installOnDownloaded, notified, booted, autoDownload,
             allowPrerelease, op, updaterRelaunching, accepted, rolledBack>>
presence == <<sockets, linked, present, goneTimer>>
vars == <<shell, hosts, settings, updater, presence, realQuit>>

Channels == {"stable", "beta"}
AppSettings == [menu : BOOLEAN, channel : Channels]
DEFAULT_SETTINGS == [menu |-> TRUE, channel |-> "stable"]

TypeOK ==
    /\ platform \in {"darwin", "other"}
    /\ proc \in {"starting", "up", "closing", "gone"}
    /\ win \in {"none", "loading", "focused", "blurred"}
    /\ {dock, tray, quitting, updaterRelaunching, hostUp, hostAlive, terminating,
        checking, installOnDownloaded, notified, booted, autoDownload, linked,
        present, goneTimer, realQuit, accepted, rolledBack} \subseteq BOOLEAN
    /\ {setting, live} \subseteq AppSettings /\ allowPrerelease \in BOOLEAN
    /\ status \in {"idle", "checking", "available", "downloading", "downloaded",
                   "up-to-date", "error"}
    /\ op \in {"none", "check", "download", "relaunch"}
    /\ sockets \in 0..MaxSockets

Init ==
    /\ platform \in {"darwin", "other"}
    /\ proc = "starting" /\ win = "none" /\ dock = (platform = "darwin") /\ tray = FALSE
    /\ quitting = FALSE /\ updaterRelaunching = FALSE
    /\ hostUp = FALSE /\ hostAlive = FALSE /\ terminating = FALSE
    /\ setting \in AppSettings /\ live = DEFAULT_SETTINGS
    /\ status = "idle" /\ checking = FALSE /\ installOnDownloaded = FALSE
    /\ notified = FALSE /\ booted = FALSE /\ autoDownload = TRUE
    /\ allowPrerelease = FALSE /\ op = "none"
    /\ sockets = 0 /\ linked = FALSE /\ present = FALSE /\ goneTimer = FALSE
    /\ realQuit = FALSE /\ accepted = FALSE /\ rolledBack = FALSE

Mounted == win \in {"focused", "blurred"}

----------------------------------------------------------------------------
(* The menu bar item *)

menuBarEnabled(s) == platform = "darwin" /\ s.menu /\ hostUp

applyMenuBarSlip(s) ==
    /\ tray' = menuBarEnabled(s)
    /\ UNCHANGED dock

(* Turning the item off brings the dock icon back. *)
applyMenuBar(s) ==
    /\ tray' = menuBarEnabled(s)
    /\ dock' = IF menuBarEnabled(s) THEN dock ELSE platform = "darwin"

(* window-all-closed: no dock icon beside a status item; elsewhere the app quits
   with its last window. *)
windowAllClosed ==
    IF platform # "darwin" THEN proc' = "closing" /\ UNCHANGED dock
    ELSE dock' = (dock /\ ~tray) /\ UNCHANGED proc

----------------------------------------------------------------------------
(* The window *)

(* focusMainWindow: the dock icon comes back, a closed window is created again. *)
focusMainWindow ==
    /\ dock' = (platform = "darwin")
    /\ win' = IF proc = "starting" THEN win
              ELSE IF win = "none" THEN "loading"
              ELSE IF win = "loading" THEN win ELSE "focused"
    /\ UNCHANGED <<proc, tray, quitting>>

(* A second launch, a click on the tray, on a notification or on the dock icon. *)
Reopen ==
    /\ proc \in {"starting", "up"}
    /\ focusMainWindow
    /\ UNCHANGED <<hosts, settings, updater, presence, realQuit>>

WindowReady ==
    /\ proc = "up" /\ win = "loading"
    /\ win' = "focused"
    /\ UNCHANGED <<proc, dock, tray, quitting, hosts, settings, updater, presence, realQuit>>

FocusOrBlur ==
    /\ proc = "up" /\ Mounted
    /\ win' = IF win = "focused" THEN "blurred" ELSE "focused"
    /\ UNCHANGED <<proc, dock, tray, quitting, hosts, settings, updater, presence, realQuit>>

CloseWindow ==
    /\ proc = "up" /\ win # "none"
    /\ win' = "none" /\ linked' = FALSE
    /\ windowAllClosed
    /\ UNCHANGED <<tray, quitting, hosts, settings, updater, sockets, present, goneTimer,
                   realQuit>>

----------------------------------------------------------------------------
(* Quitting *)

(* before-quit, for a quit nobody marked as real: the windows are closed and the
   process stays, but only beside a status item. *)
BeforeQuit ==
    IF tray /\ ~quitting
    THEN /\ win' = "none" /\ linked' = FALSE
         /\ IF win = "none" THEN UNCHANGED <<proc, dock>> ELSE windowAllClosed
    ELSE proc' = "closing" /\ UNCHANGED <<win, linked, dock>>

CmdQ ==
    /\ proc \in {"starting", "up"} /\ (dock \/ win # "none")
    /\ BeforeQuit
    /\ UNCHANGED <<tray, quitting, hosts, settings, updater, sockets, present, goneTimer,
                   realQuit>>

(* The tray's Quit, an OS shutdown, a signal.  app.quit() runs before-quit at
   once, with quitting set. *)
quitForReal ==
    /\ proc \in {"starting", "up"}
    /\ quitting' = TRUE /\ realQuit' = TRUE
    /\ proc' = "closing"
    /\ UNCHANGED <<win, dock, tray, hosts, settings, updater, presence>>

quitCompletelySlip ==
    /\ proc = "up" /\ (tray \/ Mounted) /\ ~terminating
    /\ terminating' = TRUE /\ realQuit' = TRUE
    /\ UNCHANGED <<proc, win, dock, tray, quitting, platform, hostUp, hostAlive, settings,
                   updater, presence>>

(* "Quit OpenTrade Completely", in the tray or in Settings. *)
quitCompletely ==
    /\ proc = "up" /\ (tray \/ Mounted) /\ ~terminating
    /\ quitting' = TRUE /\ realQuit' = TRUE
    /\ terminating' = TRUE
    /\ UNCHANGED <<proc, win, dock, tray, platform, hostUp, hostAlive, settings, updater,
                   presence>>

(* The host is gone, with its sockets and its timers. *)
HostEnds ==
    /\ hostAlive' = FALSE
    /\ sockets' = 0 /\ linked' = FALSE /\ present' = FALSE /\ goneTimer' = FALSE

TerminatedSlip ==
    /\ proc = "up" /\ terminating /\ hostAlive
    /\ terminating' = FALSE
    /\ HostEnds
    /\ quitting' = TRUE /\ proc' = "closing"
    /\ UNCHANGED <<win, dock, tray, platform, hostUp, settings, updater, realQuit>>

(* Its host has exited, or was not there: the launcher quits. *)
Terminated ==
    /\ proc = "up" /\ terminating
    /\ terminating' = FALSE
    /\ HostEnds
    /\ quitting' = TRUE /\ proc' = "closing"
    /\ UNCHANGED <<win, dock, tray, platform, hostUp, settings, updater, realQuit>>

HostDies ==
    /\ hostAlive
    /\ HostEnds
    /\ UNCHANGED <<shell, platform, hostUp, terminating, settings, updater, realQuit>>

(* The windows are closed, the relay with them. *)
Exit ==
    /\ proc = "closing"
    /\ proc' = "gone" /\ win' = "none" /\ linked' = FALSE /\ dock' = FALSE /\ tray' = FALSE
    /\ UNCHANGED <<quitting, hosts, settings, updater, sockets, present, goneTimer, realQuit>>

----------------------------------------------------------------------------
(* The updater *)

(* checkForUpdatesNow: nothing while it checks, downloads or has downloaded. *)
checkForUpdatesNow ==
    IF checking \/ status \in {"downloading", "downloaded"}
    THEN UNCHANGED <<checking, status, op>>
    ELSE checking' = TRUE /\ status' = "checking" /\ op' = "check"

setUpdateChannelSlip(c) ==
    /\ booted' = TRUE /\ allowPrerelease' = (c = "beta")
    /\ IF booted /\ allowPrerelease = (c = "beta") THEN UNCHANGED <<checking, status, op>>
       ELSE checkForUpdatesNow
    /\ UNCHANGED <<installOnDownloaded, notified, autoDownload, updaterRelaunching, accepted,
                   rolledBack>>

(* The first push wires the events, which turns the library's own downloads off,
   and runs the boot check; a later one checks when the channel flipped. *)
setUpdateChannel(c) ==
    /\ autoDownload' = FALSE
    /\ booted' = TRUE /\ allowPrerelease' = (c = "beta")
    /\ IF booted /\ allowPrerelease = (c = "beta") THEN UNCHANGED <<checking, status, op>>
       ELSE checkForUpdatesNow
    /\ UNCHANGED <<installOnDownloaded, notified, updaterRelaunching, accepted, rolledBack>>

(* The button in Settings, or the timer of four hours. *)
Check ==
    /\ proc = "up" /\ (booted \/ Mounted)
    /\ autoDownload' = FALSE        \* initAutoUpdate
    /\ checkForUpdatesNow
    /\ UNCHANGED <<shell, hosts, settings, installOnDownloaded, notified, booted,
                   allowPrerelease, updaterRelaunching, accepted, rolledBack, presence, realQuit>>

(* update-available: a banner once for a version that was really shown, none
   while the window is focused or the toggle is off. *)
Available ==
    /\ proc = "up" /\ op = "check"
    /\ checking' = FALSE /\ status' = "available"
    /\ op' = IF autoDownload THEN "download" ELSE "none"
    /\ notified' \in IF notified \/ win = "focused" THEN {notified} ELSE BOOLEAN
    /\ UNCHANGED <<shell, hosts, settings, installOnDownloaded, booted, autoDownload,
                   allowPrerelease, updaterRelaunching, accepted, rolledBack, presence, realQuit>>

NotAvailable ==
    /\ proc = "up" /\ op = "check"
    /\ checking' = FALSE /\ status' = "up-to-date" /\ op' = "none"
    /\ UNCHANGED <<shell, hosts, settings, installOnDownloaded, notified, booted,
                   autoDownload, allowPrerelease, updaterRelaunching, accepted, rolledBack, presence,
                   realQuit>>

(* installNow: the button of an available update, or of one downloaded. *)
installNow ==
    /\ proc = "up" /\ Mounted /\ status \in {"available", "downloaded"}
    /\ accepted' = TRUE
    /\ IF status = "downloaded"
       THEN /\ updaterRelaunching' = TRUE /\ quitting' = TRUE /\ op' = "relaunch"
            /\ UNCHANGED <<status, installOnDownloaded>>
       ELSE /\ installOnDownloaded' = TRUE /\ status' = "downloading" /\ op' = "download"
            /\ UNCHANGED <<updaterRelaunching, quitting>>
    /\ UNCHANGED <<proc, win, dock, tray, hosts, settings, checking, notified, booted,
                   autoDownload, allowPrerelease, rolledBack, presence, realQuit>>

(* update-downloaded: relaunch into it if that is what the user asked for. *)
Downloaded ==
    /\ proc = "up" /\ op = "download"
    /\ status' = "downloaded" /\ installOnDownloaded' = FALSE
    /\ IF installOnDownloaded
       THEN updaterRelaunching' = TRUE /\ quitting' = TRUE /\ op' = "relaunch"
       ELSE op' = "none" /\ UNCHANGED <<updaterRelaunching, quitting>>
    /\ UNCHANGED <<proc, win, dock, tray, hosts, settings, checking, notified, booted,
                   autoDownload, allowPrerelease, accepted, rolledBack, presence, realQuit>>

UpdaterErrorSlip ==
    /\ proc = "up" /\ op # "none"
    /\ checking' = FALSE /\ installOnDownloaded' = FALSE /\ status' = "error" /\ op' = "none"
    /\ updaterRelaunching' = FALSE /\ quitting' = FALSE
    /\ accepted' = FALSE /\ rolledBack' = (rolledBack \/ (updaterRelaunching /\ realQuit))
    /\ UNCHANGED <<proc, win, dock, tray, hosts, settings, notified, booted, autoDownload,
                   allowPrerelease, presence, realQuit>>

(* error, and the launcher's onError: a relaunch that failed is no quit any more. *)
UpdaterError ==
    /\ proc = "up" /\ op # "none"
    /\ checking' = FALSE /\ installOnDownloaded' = FALSE /\ status' = "error" /\ op' = "none"
    /\ IF updaterRelaunching
       THEN updaterRelaunching' = FALSE /\ quitting' = FALSE
       ELSE UNCHANGED <<updaterRelaunching, quitting>>
    /\ accepted' = FALSE /\ rolledBack' = (rolledBack \/ (updaterRelaunching /\ realQuit))
    /\ UNCHANGED <<proc, win, dock, tray, hosts, settings, notified, booted, autoDownload,
                   allowPrerelease, presence, realQuit>>

(* quitAndInstall closes the windows, then quits. *)
Relaunches ==
    /\ proc = "up" /\ op = "relaunch"
    /\ BeforeQuit
    /\ UNCHANGED <<tray, quitting, hosts, settings, updater, sockets, present, goneTimer,
                   realQuit>>

----------------------------------------------------------------------------
(* Boot, and the settings the host pushes *)

(* main: the window opens with whatever host there is, dead or not.  Without one
   nothing will ever push the settings: the updater starts on the build's own
   channel. *)
main ==
    /\ proc = "starting"
    /\ proc' = "up" /\ win' = "loading"
    /\ hostUp' \in BOOLEAN /\ hostAlive' = hostUp'
    /\ IF hostUp'
       THEN UNCHANGED updater
       ELSE \E c \in Channels : setUpdateChannel(c)
    /\ UNCHANGED <<dock, tray, quitting, platform, terminating, settings, presence, realQuit>>

(* The host's settings, written by the Settings screen. *)
ChangeSettings ==
    /\ proc = "up" /\ Mounted /\ hostAlive
    /\ \E s \in AppSettings : s # setting /\ setting' = s
    /\ UNCHANGED <<shell, hosts, live, updater, presence, realQuit>>

(* settings.onChanged, on every (re)connection and change. *)
SettingsPush ==
    /\ proc = "up" /\ hostUp /\ hostAlive
    /\ live' = setting
    /\ applyMenuBar(setting)
    /\ setUpdateChannel(setting.channel)
    /\ UNCHANGED <<proc, win, quitting, hosts, setting, presence, realQuit>>

----------------------------------------------------------------------------
(* GuiPresence *)

addSlip ==
    /\ Mounted /\ hostAlive /\ ~linked /\ sockets < MaxSockets
    /\ linked' = TRUE
    /\ sockets' = IF goneTimer THEN sockets ELSE sockets + 1
    /\ goneTimer' = FALSE /\ present' = TRUE
    /\ UNCHANGED <<shell, hosts, settings, updater, realQuit>>

(* A renderer's socket, never the relay's, is counted. *)
add ==
    /\ Mounted /\ hostAlive /\ ~linked /\ sockets < MaxSockets
    /\ linked' = TRUE /\ sockets' = sockets + 1
    /\ goneTimer' = FALSE /\ present' = TRUE
    /\ UNCHANGED <<shell, hosts, settings, updater, realQuit>>

(* The renderer reloads, or loses its connection: the host will see it close. *)
Reload ==
    /\ Mounted /\ linked /\ linked' = FALSE
    /\ UNCHANGED <<shell, hosts, settings, updater, sockets, present, goneTimer, realQuit>>

removeSlip ==
    /\ \/ sockets > (IF linked THEN 1 ELSE 0)
       \/ goneTimer
    /\ sockets' = sockets - 1
    /\ goneTimer' = (goneTimer \/ sockets' = 0)
    /\ UNCHANGED <<shell, hosts, settings, updater, linked, present, realQuit>>

(* A close of a socket that was counted: the last one starts the grace. *)
remove ==
    /\ sockets > (IF linked THEN 1 ELSE 0)
    /\ sockets' = sockets - 1
    /\ goneTimer' = (goneTimer \/ sockets' = 0)
    /\ UNCHANGED <<shell, hosts, settings, updater, linked, present, realQuit>>

(* The grace of six seconds is over: gui:gone. *)
GraceEnds ==
    /\ goneTimer
    /\ goneTimer' = FALSE
    /\ present' = (present /\ sockets > 0)
    /\ UNCHANGED <<shell, hosts, settings, updater, sockets, linked, realQuit>>

----------------------------------------------------------------------------
Next ==
    \/ main \/ Reopen \/ WindowReady \/ FocusOrBlur \/ CloseWindow \/ CmdQ
    \/ quitForReal \/ quitCompletely \/ Terminated \/ HostDies \/ Exit
    \/ Check \/ Available \/ NotAvailable \/ installNow \/ Downloaded \/ UpdaterError
    \/ Relaunches \/ ChangeSettings \/ SettingsPush
    \/ add \/ Reload \/ remove \/ GraceEnds

Spec == Init /\ [][Next]_vars

(* terminateHost is bounded (seven seconds), and Electron ends a quit it started. *)
Fairness == WF_vars(Terminated) /\ WF_vars(Exit)
FairSpec == Spec /\ Fairness

----------------------------------------------------------------------------
(* A running launcher can be reached: it has a window, a dock icon or a status
   item, whichever of window-all-closed, the retreat of before-quit, a settings
   push that turns the item off and the reopening of the window came last
   (index.ts:178, :335, :352). *)
Reachable == proc = "up" => win # "none" \/ dock \/ tray

(* quitting lifts the retreat: it is set exactly while someone asked for a real
   quit or the updater is about to relaunch, so a real quit is never turned into
   a retreat and a failed relaunch gives Cmd-Q its retreat back (index.ts:284).
   Exception: a relaunch that fails while quitCompletely waits for the host rolls
   its flag back too, although :151 sets it before the await for that wait. *)
QuitsAreMeant ==
    proc = "up" /\ ~rolledBack => (quitting <=> realQuit \/ updaterRelaunching)

(* Nothing is downloaded or installed that the user did not accept since the last
   failure, whichever way the first check comes about; and the flags that make
   checkForUpdatesNow a no-op never outlive what they stand for, so no order of
   answers, errors, clicks and pushes wedges the updater (updater.ts:154). *)
NothingUnasked ==
    /\ op \in {"download", "relaunch"} => accepted
    /\ op = "check" <=> checking
    /\ status \in {"checking", "downloading"} => op # "none"

(* The host believes someone is watching only while a renderer is connected or
   the grace is running, which ends it: gui:gone, which takes the PTYs down, is
   never missed and never comes while a renderer is connected (gui-presence.ts). *)
PresenceSound ==
    /\ present /\ sockets = 0 => goneTimer
    /\ ~present => sockets = 0

(* A running launcher can be reached, quits when it is meant to, updates when it
   is asked to, and its host knows whether anyone watches. *)
LauncherSound ==
    TypeOK /\ Reachable /\ QuitsAreMeant /\ NothingUnasked /\ PresenceSound

(* A real quit ends the launcher, whatever the updater, the host and the user do
   meanwhile. *)
QuitsEnd == realQuit ~> proc = "gone"

=============================================================================
