--------------------------- MODULE TerminalSessions ---------------------------
(***************************************************************************)
(* The interactive sessions of one agent: TerminalService (openOrAttach,   *)
(* spawn, the exit handler with its automatic respawn, restart, kill and   *)
(* the teardown when the GUI goes away), the TerminalManager's processes   *)
(* and the wake writer they report to.                                     *)
(*                                                                         *)
(* A PTY is numbered in the order of spawning.  A PTY that was sent        *)
(* SIGTERM is no longer in the store, but its exit is reported when it     *)
(* comes, under the agent's id and not under the PTY's.                    *)
(*                                                                         *)
(* spawn awaits the harness's preparation: nothing for claude, whose spawn *)
(* is one step; the app-server's bring-up for codex, whose spawn is a      *)
(* start and a settling.  The writer is reduced to its state: a fire or an *)
(* exit of its own may start, end or break a headless run at any time.     *)
(*                                                                         *)
(* Definitions marked "Slip" are wrong variants of the definition that     *)
(* follows them: no action uses them; they show what the properties catch. *)
(***************************************************************************)
EXTENDS Naturals, Sequences

CONSTANTS
  Harnesses,  \* "claude" or "codex"
  MaxPtys     \* how many PTYs are ever spawned (bounds the model)

ASSUME HarnessesAssumption == Harnesses \subseteq {"claude", "codex"}
ASSUME MaxPtysAssumption == MaxPtys \in Nat

WriterState == {"OFFLINE", "INTERACTIVE", "HEADLESS", "BROKEN"}
UserIntent == {"auto", "resume"}
Intent == UserIntent \cup {"fresh"}
UserSpawn == {"open", "restart", "revive"}
By == UserSpawn \cup {"respawn"}
Phase == {"live", "signalled", "exited", "late"}
Pty == [phase: Phase, by: By]
Launch == [continued: BOOLEAN, recent: BOOLEAN]
Spawn == [by: By, intent: Intent, known: BOOLEAN]
NoSpawn == [by |-> "nobody"]
NoLaunch == [continued |-> FALSE, recent |-> FALSE]
NoPty == 0

VARIABLES
  harness,    \* the agent's CLI, fixed at its creation
  gui,        \* GuiPresence.present
  guiGone,    \* TerminalService.guiGone
  archived,   \* the agent is archived
  known,      \* lastSessionId # null
  started,    \* the first-run marker exists
  ptys,       \* every PTY process spawned so far
  current,    \* the session in the TerminalManager's store
  launch,     \* launches.get(agent)
  opening,    \* the spawn in TerminalService.opening
  restarting, \* restart's spawn in flight; it is not in `opening'
  wstate,     \* the writer's state, which is also the executionState
  kickoffs    \* how many times a kickoff was handed to a session

agentVars == <<harness, archived, known, started, kickoffs>>
guiVars == <<gui, guiGone>>
ptyVars == <<ptys, current, launch>>
spawnVars == <<opening, restarting>>
vars == <<agentVars, guiVars, ptyVars, spawnVars, wstate>>

-----------------------------------------------------------------------------
(* TerminalManager                                                           *)

Running(ps) == {i \in DOMAIN ps : ps[i].phase \in {"live", "signalled"}}

\* isLive: the store has a session that did not exit.
IsLive(ps, cur) == cur \in Running(ps)

\* Slip: the store is overwritten while its session is live.
OpenedAgain(ps, cur, by) == [ptys |-> Append(ps, [phase |-> "live", by |-> by]),
                             current |-> Len(ps) + 1]

\* open: a no-op if a session is live.
Opened(ps, cur, by) ==
  IF IsLive(ps, cur) THEN [ptys |-> ps, current |-> cur]
  ELSE [ptys |-> Append(ps, [phase |-> "live", by |-> by]),
        current |-> Len(ps) + 1]

\* close: signal the session and forget it.
Closed(ps, cur) ==
  IF IsLive(ps, cur) THEN [ps EXCEPT ![cur].phase = "signalled"] ELSE ps

\* The exit is "late" if a successor of the PTY was spawned by then; that is
\* recorded for the properties, no code looks at it.
Exited(i) ==
  [ptys EXCEPT ![i].phase = IF i < Len(ptys) THEN "late" ELSE "exited"]

-----------------------------------------------------------------------------
(* The writer as the terminal sees it                                        *)

OnInteractiveUp == IF wstate = "HEADLESS" THEN "HEADLESS" ELSE "INTERACTIVE"

\* Going offline drains the queue, which may start a headless run.
OnInteractiveDown ==
  wstate' \in IF wstate = "INTERACTIVE" THEN {"OFFLINE", "HEADLESS"} ELSE {wstate}

-----------------------------------------------------------------------------
(* spawn                                                                     *)

Resumable(s) ==
  CASE s.intent = "fresh" -> FALSE
    [] s.intent = "resume" -> s.known
    [] s.intent = "auto" -> s.known /\ (started \/ harness = "codex")

Kickoff(s) == s.intent = "auto" /\ ~Resumable(s)

\* Slip: the first-run marker is not written.
RegisteredUnmarked(s) ==
  /\ UNCHANGED started
  /\ known' = (known \/ (harness = "claude" /\ ~Resumable(s)))

\* The registry part of a session-starting launch; claude mints its id here.
Registered(s) ==
  /\ started' = (started \/ Kickoff(s))
  /\ known' = (known \/ (harness = "claude" /\ ~Resumable(s)))

\* Slip: a fresh launch is tracked like a resumed one.
LaunchOfAny(s) == [continued |-> TRUE, recent |-> TRUE]

LaunchOf(s) == [continued |-> Resumable(s), recent |-> TRUE]

\* Slip: a respawn that lands without a GUI is kept.
SelfKillsNever(s) == FALSE

\* A respawn that lands while the GUI is gone kills what it brought up.
SelfKills(s) == s.by = "respawn" /\ guiGone

\* spawn from the end of the preparation on, over processes ps and store cur.
Launched(s, ps, cur) ==
  LET o == Opened(ps, cur, s.by) IN
  /\ Len(o.ptys) <= MaxPtys
  /\ Registered(s)
  /\ kickoffs' = IF Kickoff(s) /\ o.ptys # ps THEN kickoffs + 1 ELSE kickoffs
  /\ wstate' = OnInteractiveUp
  /\ IF SelfKills(s)
     THEN /\ ptys' = Closed(o.ptys, o.current)
          /\ current' = NoPty
          /\ launch' = NoLaunch
     ELSE /\ ptys' = o.ptys
          /\ current' = o.current
          /\ launch' = LaunchOf(s)

\* Slip: a respawn that fails is only logged.
FailedQuietly(s) ==
  /\ \/ UNCHANGED <<started, known>>
     \/ Registered(s)
  /\ UNCHANGED <<kickoffs, wstate>>

\* The preparation or the process creation threw, before or after the registry
\* part.  Only a respawn reports it to the writer.
Failed(s) ==
  /\ \/ UNCHANGED <<started, known>>
     \/ Registered(s)
  /\ IF s.by = "respawn" THEN OnInteractiveDown ELSE UNCHANGED wstate
  /\ UNCHANGED kickoffs

\* Either way, over processes ps, store cur and the tracked launch l.
Settles(s, ps, cur, l) ==
  \/ Launched(s, ps, cur)
  \/ Failed(s) /\ ptys' = ps /\ current' = cur /\ launch' = l

-----------------------------------------------------------------------------
Init ==
  /\ harness \in Harnesses
  /\ gui \in BOOLEAN /\ guiGone = FALSE
  /\ archived = FALSE
  /\ known \in BOOLEAN /\ started \in BOOLEAN
  /\ ptys = <<>> /\ current = NoPty /\ launch = NoLaunch
  /\ opening = NoSpawn /\ restarting = FALSE
  /\ wstate \in {"OFFLINE", "BROKEN"}
  /\ kickoffs = 0

\* Slip: a headless run does not keep an interactive session away.
MayAttachBesideRun == wstate # "BROKEN"

MayAttach == wstate \notin {"HEADLESS", "BROKEN"}

\* A user's spawn; one asked for after the agent was archived is marked for the
\* properties, no code tells it apart.
ByUser(kind) == IF archived THEN "revive" ELSE kind

\* openOrAttach that gets as far as spawning; it comes from an open GUI, whose
\* request may be handled after the agent was archived (AgentRoster shows how).
OpenOrAttach(intent) ==
  /\ gui
  /\ MayAttach
  /\ ~IsLive(ptys, current)
  /\ opening = NoSpawn
  /\ guiGone' = FALSE
  /\ LET s == [by |-> ByUser("open"), intent |-> intent, known |-> known] IN
     \/ /\ harness = "claude"
        /\ Settles(s, ptys, current, launch)
        /\ UNCHANGED opening
     \/ /\ harness = "codex"
        /\ opening' = s
        /\ UNCHANGED <<ptyVars, known, started, kickoffs, wstate>>
  /\ UNCHANGED <<harness, archived, gui, restarting>>

\* openOrAttach that finds a live session, joins the spawn in flight or, with
\* intent `attach', finds nothing: it only clears the teardown guard.
Attach ==
  /\ gui /\ guiGone
  /\ MayAttach
  /\ guiGone' = FALSE
  /\ UNCHANGED <<agentVars, gui, ptyVars, spawnVars, wstate>>

\* Codex: the open's or the respawn's preparation settled.
OpeningSettles ==
  /\ opening # NoSpawn
  /\ opening' = NoSpawn
  /\ Settles(opening, ptys, current, launch)
  /\ UNCHANGED <<harness, archived, guiVars, restarting>>

\* maybeRespawnFresh's conditions.
MayRespawn ==
  /\ launch.continued /\ launch.recent
  /\ opening = NoSpawn
  /\ ~archived

\* A PTY exits, killed or not.  The handler cannot tell which PTY it was.
PtyExits(i) ==
  /\ i \in Running(ptys)
  /\ LET s == [by |-> "respawn", intent |-> "fresh", known |-> known] IN
     \/ /\ ~MayRespawn
        /\ ptys' = Exited(i)
        /\ OnInteractiveDown
        /\ UNCHANGED <<current, launch, opening, known, started, kickoffs>>
     \/ /\ MayRespawn /\ harness = "claude"
        /\ Settles(s, Exited(i), current, launch)
        /\ UNCHANGED opening
     \/ /\ MayRespawn /\ harness = "codex"
        /\ ptys' = Exited(i)
        /\ opening' = s
        /\ UNCHANGED <<current, launch, known, started, kickoffs, wstate>>
  /\ UNCHANGED <<harness, archived, guiVars, restarting>>

\* restart, offered for a broken agent.  It leaves the teardown guard alone.
Restart ==
  /\ gui /\ ~restarting
  /\ wstate = "BROKEN"
  /\ LET s == [by |-> ByUser("restart"), intent |-> "fresh", known |-> known]
         ps == Closed(ptys, current) IN
     \/ /\ harness = "claude"
        /\ Settles(s, ps, NoPty, NoLaunch)
        /\ UNCHANGED restarting
     \/ /\ harness = "codex"
        /\ ptys' = ps /\ current' = NoPty /\ launch' = NoLaunch
        /\ restarting' = TRUE
        /\ UNCHANGED <<known, started, kickoffs, wstate>>
  /\ UNCHANGED <<harness, archived, guiVars, opening>>

\* Codex: the restart's preparation settled.
RestartSettles ==
  /\ restarting
  /\ restarting' = FALSE
  /\ Settles([by |-> "restart", intent |-> "fresh", known |-> known],
             ptys, current, launch)
  /\ UNCHANGED <<harness, archived, guiVars, opening>>

\* Codex: adoptInteractiveSession found the thread the session created.
Adopted ==
  /\ harness = "codex" /\ ptys # <<>> /\ ~known
  /\ known' = TRUE
  /\ UNCHANGED <<harness, archived, started, kickoffs, guiVars, ptyVars, spawnVars,
                 wstate>>

\* killForTeardown and kill
Killed ==
  /\ ptys' = Closed(ptys, current)
  /\ current' = NoPty
  /\ launch' = NoLaunch

\* The terminal.kill procedure.
Kill ==
  /\ current # NoPty
  /\ Killed
  /\ UNCHANGED <<agentVars, guiVars, spawnVars, wstate>>

\* Slip: the agent is retired with its session up.
ArchiveWithoutKill ==
  /\ ~archived
  /\ archived' = TRUE
  /\ UNCHANGED <<harness, known, started, kickoffs, guiVars, ptyVars, spawnVars,
                 wstate>>

\* agents.archive: kill the PTY, stop the writer (its run, if any, is signalled
\* and exits later) and retire the agent.
Archive ==
  /\ ~archived
  /\ archived' = TRUE
  /\ Killed
  /\ UNCHANGED <<harness, known, started, kickoffs, guiVars, spawnVars, wstate>>

\* gui:gone, teardownOnGuiGone: every session in the store is killed.
GuiGone ==
  /\ gui
  /\ gui' = FALSE /\ guiGone' = TRUE
  /\ \/ current # NoPty /\ Killed
     \/ current = NoPty /\ UNCHANGED ptyVars
  /\ UNCHANGED <<agentVars, spawnVars, wstate>>

\* gui:present
GuiPresent ==
  /\ ~gui
  /\ gui' = TRUE
  /\ UNCHANGED <<guiGone, agentVars, ptyVars, spawnVars, wstate>>

\* RESPAWN_GUARD_MS after a launch.
GuardLapses ==
  /\ launch.recent
  /\ launch' = [launch EXCEPT !.recent = FALSE]
  /\ UNCHANGED <<agentVars, guiVars, ptys, current, spawnVars, wstate>>

\* A wake fires while no session is up; the first run of an agent mints its id.
Fire ==
  /\ ~archived
  /\ wstate = "OFFLINE"
  /\ wstate' = "HEADLESS"
  /\ known' = TRUE
  /\ UNCHANGED <<harness, archived, started, kickoffs, guiVars, ptyVars, spawnVars>>

\* The writer's run ends: the next wake runs, nothing is queued, or it is broken.
HeadlessExited ==
  /\ wstate = "HEADLESS"
  /\ wstate' \in {"OFFLINE", "BROKEN"}
  /\ UNCHANGED <<agentVars, guiVars, ptyVars, spawnVars>>

Next ==
  \/ \E intent \in UserIntent : OpenOrAttach(intent)
  \/ Attach
  \/ OpeningSettles
  \/ \E i \in DOMAIN ptys : PtyExits(i)
  \/ Restart
  \/ RestartSettles
  \/ Adopted
  \/ Kill
  \/ Archive
  \/ GuiGone
  \/ GuiPresent
  \/ GuardLapses
  \/ Fire
  \/ HeadlessExited

Spec == Init /\ [][Next]_vars
-----------------------------------------------------------------------------
(* Invariants                                                                *)

Live == {i \in DOMAIN ptys : ptys[i].phase = "live"}

\* The state is well typed (TerminalService's fields).
TypeOK ==
  /\ harness \in Harnesses
  /\ gui \in BOOLEAN /\ guiGone \in BOOLEAN /\ archived \in BOOLEAN
  /\ known \in BOOLEAN /\ started \in BOOLEAN
  /\ ptys \in Seq(Pty) /\ Len(ptys) <= MaxPtys
  /\ current \in {NoPty} \cup DOMAIN ptys
  /\ launch \in Launch
  /\ opening \in Spawn \cup {NoSpawn}
  /\ restarting \in BOOLEAN
  /\ wstate \in WriterState
  /\ kickoffs \in Nat

\* No process is lost: every PTY that was not told to exit is the session in the
\* store, so that a kill, a restart or a teardown reaches it ("never
\* double-spawn"), whatever the opens, restarts and respawns in flight.
NoStrayPty == \A i \in Live : i = current

\* The writer never waits for a session that is not there: while it is
\* INTERACTIVE some PTY's exit is still to be reported, or an automatic respawn
\* will report its success or failure ("so nothing is stranded").
InteractiveIsBacked ==
  wstate = "INTERACTIVE" => Running(ptys) # {} \/ opening.by = "respawn"

\* A claude session that is up is the agent's only writer -- no headless run
\* starts beside it and the writer is not broken or offline -- as long as no PTY
\* was replaced before its exit was reported.
SingleWriter ==
  harness = "claude" /\ (\A i \in DOMAIN ptys : ptys[i].phase # "late")
    => (Live # {} => wstate = "INTERACTIVE")

\* The writer, the store and the processes agree on whether a session is up and on
\* which, whatever opens, restarts, respawns and exits overlap.
WriterKnowsSessions == TypeOK /\ NoStrayPty /\ InteractiveIsBacked /\ SingleWriter

\* The kickoff of a claude agent is delivered at most once.
KickoffOnce == harness = "claude" => kickoffs <= 1

\* Two automatic respawns never follow each other without a session that a user
\* opened or restarted in between ("a harness that exits on launch can't
\* ping-pong between our respawn and the reattach").
RespawnsDoNotChain ==
  \A i \in DOMAIN ptys \ {1} :
    ~(ptys[i].by = "respawn" /\ ptys[i - 1].by = "respawn")

\* Nothing is launched again that was launched before.
LaunchedOnce == KickoffOnce /\ RespawnsDoNotChain

\* Without a GUI no session is left running, not even one whose respawn was in
\* flight when the GUI went away; only a user's own spawn that was being prepared
\* (codex) may still land.
NoPtyOutsideGui ==
  ~gui => \A i \in Live : harness = "codex" /\ ptys[i].by \in UserSpawn

\* An archived agent keeps no session but one that was asked for afterwards; a
\* codex spawn that was already being prepared may still land.
ArchivedHasNoPty ==
  archived => \A i \in Live : harness = "codex" \/ ptys[i].by = "revive"

\* No session outlives what it was opened for, the GUI or its agent.
NoLeftoverPty == NoPtyOutsideGui /\ ArchivedHasNoPty

\* Sessions start and stay only for a reason.
SessionsJustified == LaunchedOnce /\ NoLeftoverPty

-----------------------------------------------------------------------------
(* Liveness.  A PTY that was sent SIGTERM exits and a preparation settles;    *)
(* nothing is assumed of users or of a session ending by itself.              *)

SignalledExits(i) == i \in DOMAIN ptys /\ ptys[i].phase = "signalled" /\ PtyExits(i)

Fairness ==
  /\ \A i \in 1 .. MaxPtys : WF_vars(SignalledExits(i))
  /\ WF_vars(OpeningSettles)
  /\ WF_vars(RestartSettles)

LiveSpec == Spec /\ Fairness

\* Once the GUI is gone and its sessions are torn down, the writer leaves
\* INTERACTIVE, which is what hands queued wakes to the headless transport ("so
\* autonomy continues outside the GUI with nothing stranded").
AutonomyResumes ==
  (~gui /\ Live = {} /\ opening.by \notin UserSpawn /\ ~restarting)
    ~> (gui \/ wstate # "INTERACTIVE")
=============================================================================
