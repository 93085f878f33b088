--------------------------- MODULE SpawnRecovery ---------------------------
(***************************************************************************)
(* One claude agent's headless children over several lives of the host:    *)
(* the child spawned for a wake, the marker file that names it, what a     *)
(* crash or a shutdown leaves behind and what the next host's boot makes   *)
(* of it (wake/headless-strategy.ts, wake/spawn-marker.ts and, of the wake *)
(* coordinator, the queue it drains through them).                         *)
(*                                                                         *)
(* Runs stand for their processes: a run's number is its child's pid.      *)
(* Stop and the run-time limit only end a run sooner (WakeWriter has       *)
(* them); codex, whose marker names a server, is CodexServer's subject.    *)
(*                                                                         *)
(* Definitions marked "Slip" are mistaken variants of the definition that  *)
(* follows them; no action uses them.                                      *)
(***************************************************************************)
EXTENDS Naturals, FiniteSets

CONSTANTS
  MAX_RESUME_FAILS,  \* failed resumes in a row that break an agent
  MaxQueue,          \* bound: wakes queued at once
  MaxRuns,           \* bound: children spawned
  MaxHosts           \* bound: hosts started

(* What the constants must satisfy: the limit of the code is 3. *)
RecoveryAssumption ==
  MAX_RESUME_FAILS \in Nat \ {0} /\ {MaxQueue, MaxRuns, MaxHosts} \subseteq Nat

Runs == 1 .. MaxRuns
None == 0
Torn == MaxRuns + 1    \* a marker file cut short while it was written

VARIABLES
  life,       \* "down", "booting", "up", "closing" (shut down, still flushing telemetry)
  hosts,      \* hosts started
  state, queue, resumeFails,   \* in the host's memory: the agent's writer
  child,      \* the run the writer waits for, or None
  resuming,   \* that run resumes a session instead of beginning it
  writing,    \* the child is spawned and its marker is not written yet
  marker,     \* on disk: the run in the marker file, Torn or None
  last,       \* on disk: lastSessionId, or None
  minted,     \* sessions minted
  spawned,    \* children spawned
  alive,      \* runs whose process lives
  session,    \* the session of each run
  tui,        \* the session of the interactive PTY, or None
  signalled,  \* runs a boot sent SIGTERM to
  unknown,    \* history: children that the next host knows nothing of
  unmarked,   \* history: runs whose marker could not be written
  cut,        \* history: a host died with a child running
  late        \* history: runs started after shutdown had stopped the children

writerVars == <<state, queue, resumeFails, child, resuming, writing>>
vars == <<life, hosts, writerVars, marker, last, minted, spawned, alive, session, tui,
          signalled, unknown, unmarked, cut, late>>

ghosts == <<signalled, unknown, unmarked, cut>>

TypeOK ==
  /\ life \in {"down", "booting", "up", "closing"} /\ hosts \in 0 .. MaxHosts
  /\ state \in {"OFFLINE", "HEADLESS_RUNNING", "INTERACTIVE_RUNNING", "BROKEN"}
  /\ queue \in 0 .. MaxQueue /\ resumeFails \in 0 .. MAX_RESUME_FAILS
  /\ child \in Runs \cup {None} /\ {resuming, writing} \subseteq BOOLEAN
  /\ marker \in Runs \cup {None, Torn}
  /\ spawned \in 0 .. MaxRuns /\ {last, tui} \subseteq 0 .. minted
  /\ {signalled, unknown, unmarked, late, alive} \subseteq SUBSET Runs
  /\ session \in [Runs -> 0 .. minted] /\ cut \in BOOLEAN

Idle ==
  /\ state' = "OFFLINE" /\ queue' = 0 /\ resumeFails' = 0
  /\ child' = None /\ resuming' = FALSE /\ writing' = FALSE

Init ==
  /\ life = "down" /\ hosts = 0
  /\ state = "OFFLINE" /\ queue = 0 /\ resumeFails = 0
  /\ child = None /\ resuming = FALSE /\ writing = FALSE
  /\ marker = None /\ last = None /\ minted = 0
  /\ spawned = 0 /\ alive = {} /\ session = [r \in Runs |-> None]
  /\ tui = None /\ signalled = {} /\ unknown = {} /\ unmarked = {} /\ cut = FALSE /\ late = {}

\* One JavaScript thread: between the spawn and its marker nothing else happens.
Serves == life \in {"up", "closing"} /\ ~writing

\* An agent with no session id gets a new one before anything starts.
Session == IF last = None THEN minted + 1 ELSE last
Keep(sid) == last' = sid /\ minted' = IF sid > minted THEN sid ELSE minted

\* The writer at rest, with these processes left.
Rests(to, procs) ==
  /\ state' = to /\ queue' = 0 /\ child' = None /\ resuming' = FALSE /\ writing' = FALSE
  /\ alive' = procs
  /\ UNCHANGED <<last, minted, spawned, session, late>>

(***************************************************************************)
(* run: the queue's head becomes a child.  The id is minted and stored     *)
(* before the spawn; a spawn that fails has no pid and gets no marker.     *)
(***************************************************************************)
run(procs) ==
  /\ spawned < MaxRuns
  /\ Keep(Session)
  /\ spawned' = spawned + 1
  /\ child' = spawned + 1
  /\ resuming' = (last # None)
  /\ session' = [session EXCEPT ![spawned + 1] = Session]
  /\ \E starts \in BOOLEAN :
       /\ alive' = IF starts THEN procs \cup {spawned + 1} ELSE procs
       /\ writing' = starts
  /\ state' = "HEADLESS_RUNNING"
  /\ late' = IF life = "closing" THEN late \cup {spawned + 1} ELSE late

\* drain: offline, the next wake in the queue runs; shutdown does not empty the queue.
drain(waiting, procs) ==
  \/ waiting = 0 /\ Rests("OFFLINE", procs)
  \/ waiting > 0 /\ queue' = waiting /\ run(procs)

Enqueue ==
  /\ life = "up" /\ ~writing
  /\ state # "BROKEN" /\ queue < MaxQueue
  /\ \/ state = "OFFLINE" /\ drain(queue + 1, alive)
     \/ /\ state # "OFFLINE"
        /\ queue' = queue + 1
        /\ UNCHANGED <<state, child, resuming, writing, last, minted, spawned, session, alive, late>>
  /\ UNCHANGED <<life, hosts, resumeFails, marker, tui, ghosts>>

\* writeSpawnMarker: the run goes on if the file cannot be written.
WriteMarker(written) ==
  /\ life \in {"up", "closing"} /\ writing
  /\ marker' = IF written THEN child ELSE marker
  /\ unmarked' = IF written THEN unmarked ELSE unmarked \cup {child}
  /\ writing' = FALSE
  /\ UNCHANGED <<life, hosts, state, queue, resumeFails, child, resuming, last, minted, spawned,
                 alive, session, tui, signalled, unknown, cut, late>>

\* The child emits "error" instead of starting: settle("spawnFail").
SpawnFails ==
  /\ Serves /\ child # None /\ child \notin alive
  /\ Rests("BROKEN", alive)
  /\ marker' = None
  /\ UNCHANGED <<life, hosts, resumeFails, tui, ghosts>>

(***************************************************************************)
(* The child exits: settle clears its marker, and the writer drops the     *)
(* wake.  Early: a nonzero exit within RESUME_FAIL_MS, which counts        *)
(* against a run that resumed its session and is a success for one that    *)
(* began it.                                                               *)
(***************************************************************************)
Exits(early) ==
  /\ Serves /\ child \in alive
  /\ LET fails == IF early /\ resuming THEN resumeFails + 1 ELSE 0
     IN  /\ resumeFails' = fails
         /\ IF fails = MAX_RESUME_FAILS THEN Rests("BROKEN", alive \ {child})
            ELSE drain(queue - 1, alive \ {child})
  /\ marker' = None
  /\ UNCHANGED <<life, hosts, tui, ghosts>>

\* A process no host waits for any more ends.
OrphanEnds(r) ==
  /\ r \in alive
  /\ r # child \/ life \in {"down", "booting"}
  /\ alive' = alive \ {r}
  /\ UNCHANGED <<life, hosts, writerVars, marker, last, minted, spawned, session, tui, ghosts,
                 late>>

(***************************************************************************)
(* The interactive session: Open resumes the stored id, Restart of a       *)
(* broken agent mints another (TerminalSessions has the rest).             *)
(***************************************************************************)
Interactive(sid) ==
  /\ Keep(sid) /\ tui' = sid
  /\ state' = "INTERACTIVE_RUNNING" /\ resumeFails' = 0
  /\ UNCHANGED <<life, hosts, queue, child, resuming, writing, marker, spawned, alive, session,
                 ghosts, late>>

Open == life = "up" /\ ~writing /\ state = "OFFLINE" /\ Interactive(Session)

Restart == life = "up" /\ ~writing /\ state = "BROKEN" /\ Interactive(minted + 1)

\* onInteractiveDown: wakes the session did not take run headless.
TuiEnds ==
  /\ Serves /\ tui # None
  /\ tui' = None
  /\ drain(queue, alive)
  /\ UNCHANGED <<life, hosts, resumeFails, marker, ghosts>>

\* The session takes the queue's head.
TuiServes ==
  /\ life = "up" /\ tui # None /\ queue > 0
  /\ queue' = queue - 1
  /\ UNCHANGED <<life, hosts, state, resumeFails, child, resuming, writing, marker, last, minted,
                 spawned, alive, session, tui, ghosts, late>>

-----------------------------------------------------------------------------
(* The host's life.  Its memory goes with it, and the PTY; children stay.  *)

\* Condemned children outlive the host that broke their agent: "broken" was in memory.
Forgotten == signalled \cap alive

Gone ==
  /\ life' = "down" /\ Idle /\ tui' = None
  /\ UNCHANGED <<hosts, last, minted, spawned, alive, session, signalled, unmarked, late>>

Crash ==
  /\ life \in {"booting", "up", "closing"}
  /\ Gone
  /\ marker' \in IF writing THEN {marker, Torn} ELSE {marker}
  /\ cut' = (cut \/ child \in alive)
  /\ unknown' = unknown \cup Forgotten \cup (IF marker # child THEN {child} \cap alive ELSE {})

\* stopAll: the child is signalled and its marker cleared; then telemetry is flushed.
Shutdown ==
  /\ life = "up" /\ ~writing
  /\ life' = "closing"
  /\ marker' = IF child # None THEN None ELSE marker
  /\ unknown' = unknown \cup Forgotten \cup ({child} \cap alive)
  /\ UNCHANGED <<hosts, writerVars, last, minted, spawned, alive, session, tui, signalled,
                 unmarked, cut, late>>

Exit ==
  /\ life = "closing" /\ ~writing
  /\ Gone
  /\ unknown' = unknown \cup Forgotten \cup (IF marker # child THEN {child} \cap alive ELSE {})
  /\ UNCHANGED <<marker, cut>>

BootStarts ==
  /\ life = "down" /\ hosts < MaxHosts
  /\ life' = "booting" /\ hosts' = hosts + 1
  /\ UNCHANGED <<writerVars, marker, last, minted, spawned, alive, session, tui, ghosts, late>>

\* Slip: an orphan that was signalled needs no Restart, as for codex.
reconcileSpawnMarkersSlip ==
  /\ life = "booting"
  /\ life' = "up"
  /\ signalled' = IF marker \in alive THEN signalled \cup {marker} ELSE signalled
  /\ marker' = None
  /\ UNCHANGED <<hosts, writerVars, last, minted, spawned, alive, session, tui, unknown,
                 unmarked, cut, late>>

(***************************************************************************)
(* reconcileSpawnMarkers: the survivor is signalled and the agent broken;  *)
(* a torn marker is dropped.  A crash in the middle is like one before it. *)
(***************************************************************************)
reconcileSpawnMarkers ==
  /\ life = "booting"
  /\ life' = "up"
  /\ signalled' = IF marker \in alive THEN signalled \cup {marker} ELSE signalled
  /\ state' = IF marker \in Runs THEN "BROKEN" ELSE state
  /\ marker' = None
  /\ UNCHANGED <<hosts, queue, resumeFails, child, resuming, writing, last, minted, spawned,
                 alive, session, tui, unknown, unmarked, cut, late>>

Next ==
  \/ Enqueue \/ SpawnFails \/ Open \/ Restart \/ TuiEnds \/ TuiServes
  \/ \E ok \in BOOLEAN : WriteMarker(ok) \/ Exits(ok)
  \/ \E r \in Runs : OrphanEnds(r)
  \/ Crash \/ Shutdown \/ Exit \/ BootStarts \/ reconcileSpawnMarkers

Spec == Init /\ [][Next]_vars

-----------------------------------------------------------------------------
\* The sessions that live processes write: of the runs no host lost, and the PTY's.
Writers == {<<"run", r>> : r \in alive \ unknown} \cup {<<"tui", 0>> : t \in {tui} \ {None}}
SessionOf(w) == IF w[1] = "run" THEN session[w[2]] ELSE tui

(***************************************************************************)
(* No transcript has two writers over any number of hosts ("so we never    *)
(* spawn a second writer on its session", host/index.ts:94-95), whatever   *)
(* becomes of the SIGTERM, except for a child that no host can know of:    *)
(* one whose marker was not there when the host died, one stopped by a     *)
(* shutdown and still ending, and an orphan that also outlives the host    *)
(* that broke its agent.                                                   *)
(***************************************************************************)
OneWriter == \A v, w \in Writers : SessionOf(v) = SessionOf(w) => v = w

(***************************************************************************)
(* "A marker file exists exactly while a headless child is live"           *)
(* (spawn-marker.ts:10-11) while the host is up and could write it.        *)
(***************************************************************************)
MarkerNamesTheChild ==
  life = "up" /\ ~writing =>
    IF child \in alive \ unmarked THEN marker = child ELSE marker = None

(***************************************************************************)
(* A marker found with no host running is left by a crash, as the boot     *)
(* takes it (spawn-marker.ts:15-17), or by a wake still queued at          *)
(* shutdown: the exits that shutdown itself causes run it.                 *)
(***************************************************************************)
BlameIsDue == life = "down" /\ marker # None => cut \/ marker \in late

\* The three together: crash recovery is sound.
RecoverySound == TypeOK /\ OneWriter /\ MarkerNamesTheChild /\ BlameIsDue
=============================================================================
