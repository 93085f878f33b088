---------------------------- MODULE CodexServer ----------------------------
(***************************************************************************)
(* The app-server of one codex agent and the turns run on it:              *)
(* CodexAppServerManager and CodexClient (harness/codex-app-server.ts),    *)
(* CodexHeadlessStrategy (scheduler/wake/codex-strategy.ts), the launch    *)
(* and adoption of a codex session (harness/codex.ts) and the interactive  *)
(* push (harness/codex-gate.ts).                                           *)
(*                                                                         *)
(* Three callers share the server.  "wake" is the headless run of a wake,  *)
(* the only one with an abort signal (the user's Stop, the kill timer);    *)
(* "push" is a turn without one (an interactive push, a kickoff); "tui" is *)
(* a launch followed by its adoption (or verification) loop.  Every await  *)
(* is a stage of its caller.  The engine behind the socket is external: it *)
(* answers, refuses, dies, and may fail to notify.                         *)
(*                                                                         *)
(* Definitions whose name ends in "Slip" are not part of the model: each   *)
(* is a plausible mistake in the definition that follows it.               *)
(***************************************************************************)
EXTENDS Naturals, FiniteSets

CONSTANTS
    MAX_FAST_CRASHES,   \* fast exits in a row that open the breaker
    MaxChildren,        \* bounds: server processes spawned,
    MaxWakes,           \*   headless runs,
    MaxUserTurns,       \*   pushes, and turns the user starts in the TUI,
    MaxHosts            \*   hosts that follow a crash or a shutdown

ASSUME BoundsAssumption ==
    /\ MAX_FAST_CRASHES \in Nat \ {0} /\ MaxChildren \in Nat \ {0}
    /\ {MaxWakes, MaxUserTurns, MaxHosts} \subseteq Nat

Children == 1..MaxChildren
Callers == {"wake", "push", "tui"}

VARIABLES
    child,      \* each server process; "dead" until its exit event is handled
    killed,     \* processes sent SIGTERM
    entry,      \* servers.get(agentId), 0 when there is none
    bringUp,    \* the process the promise in `ensuring' waits for, or 0
    socket,     \* the process listening at the control socket, or 0
    fastCrashes, cooled,    \* the breaker, and whether its cooldown has passed
    stopping,   \* stopAll ran
    archived,   \* the agent is archived
    stage,      \* per caller: where it awaits
    goal,       \* per caller: where it goes once its ensureServer resolves
    conn,       \* per caller: the process its client is connected to
    aborted,    \* the wake's AbortController has fired
    acked,      \* turn/start of the wake was acknowledged
    turn,       \* per process: whose turn is active on the thread
    outcome,    \* per caller: what became of the turn it started
    thread,     \* the agent has a lastSessionId
    rollout,    \* its thread has a rollout: a turn was started on it
    marker,     \* the pid in the agent's spawn marker, or 0
    wakes, userTurns, hosts,    \* how often the bounded events happened
    \* observations, read by the properties only
    orphans,    \* processes an earlier host left behind
    displaced,  \* processes whose entry another process's exit deleted
    last        \* how the last wake settled

servers == <<child, killed, entry, bringUp, socket>>
breaker == <<fastCrashes, cooled>>
client == <<stage, goal, conn>>
signal == <<aborted, acked>>
threads == <<thread, rollout>>
engine == <<turn, outcome, threads>>
bounds == <<wakes, userTurns, hosts>>
seen == <<orphans, displaced, last>>
vars == <<servers, breaker, stopping, archived, client, signal, engine, marker,
          bounds, seen>>

Live == {c \in Children : child[c] \in {"starting", "up"}}
OnClient == {"resume", "parked", "start", "first", "subscribe", "race", "blind"}

TypeOK ==
    /\ child \in [Children -> {"none", "starting", "up", "dead", "gone"}]
    /\ {killed, orphans, displaced} \subseteq SUBSET Children
    /\ {entry, bringUp, socket, marker} \subseteq Children \cup {0}
    /\ fastCrashes \in 0..MaxChildren
    /\ {cooled, stopping, archived, aborted, acked, thread, rollout} \subseteq BOOLEAN
    /\ stage \in [Callers -> OnClient \cup
         {"idle", "server", "bare", "prepared", "create", "poll"}]
    /\ goal \in [Callers -> {"none", "bare", "prepared", "create", "resume", "launch", "poll"}]
    /\ conn \in [Callers -> Children \cup {0}]
    /\ turn \in [Children -> {"none", "user", "stray", "wake", "push"}]
    /\ outcome \in [Callers -> {"none", "active", "completed", "failed",
                                "unlisted", "interrupted", "lost"}]
    /\ \A r \in Callers : stage[r] = "server" => bringUp # 0
    /\ \A r \in Callers : stage[r] \in OnClient \ {"resume"} => conn[r] # 0
    /\ entry # 0 => child[entry] \in {"starting", "up", "dead"}

Init ==
    /\ child = [c \in Children |-> "none"] /\ killed = {}
    /\ entry = 0 /\ bringUp = 0 /\ socket = 0
    /\ fastCrashes = 0 /\ cooled = FALSE
    /\ stopping = FALSE /\ archived = FALSE
    /\ stage = [r \in Callers |-> "idle"]
    /\ goal = [r \in Callers |-> "none"]
    /\ conn = [r \in Callers |-> 0]
    /\ aborted = FALSE /\ acked = FALSE
    /\ turn = [c \in Children |-> "none"]
    /\ outcome = [r \in Callers |-> "none"]
    /\ thread = FALSE /\ rollout = FALSE
    /\ marker = 0
    /\ wakes = 0 /\ userTurns = 0 /\ hosts = 0
    /\ orphans = {} /\ displaced = {}
    /\ last = "none"

----------------------------------------------------------------------------
(* How a caller ends *)

(* The wake settles: `settle' of the strategy. *)
settle(reason) ==
    /\ last' = reason
    /\ marker' = 0
    /\ aborted' = FALSE /\ acked' = FALSE

(* The client of r is closed and the call returns or rejects.  A turn of r that
   is still active goes on without it. *)
Ends(r, reason) ==
    /\ stage' = [stage EXCEPT ![r] = "idle"]
    /\ goal' = [goal EXCEPT ![r] = "none"]
    /\ conn' = [conn EXCEPT ![r] = 0]
    /\ turn' = [c \in Children |-> IF turn[c] = r THEN "stray" ELSE turn[c]]
    /\ outcome' = [outcome EXCEPT ![r] = "none"]
    /\ IF r = "wake" THEN settle(reason) ELSE UNCHANGED <<last, marker, signal>>

(* A turn outcome reaches the strategy: interrupted before the acknowledgement
   is a failure, as is a failed turn. *)
ReasonSlip(how) == IF how = "failed" THEN "resumeFail" ELSE "ok"

Reason(how) ==
    IF how = "failed" \/ (how = "interrupted" /\ ~acked) THEN "resumeFail" ELSE "ok"

----------------------------------------------------------------------------
(* ensureServer *)

BreakerOpen == ~cooled /\ fastCrashes >= MAX_FAST_CRASHES
Spare == {c \in Children : child[c] = "none"}

(* ensureServerInner up to its first await: the new process is in the map
   before it listens, and the path of its socket is free. *)
spawnServer ==
    LET c == CHOOSE x \in Spare : \A y \in Spare : x <= y IN
    /\ child' = [child EXCEPT ![c] = "starting"]
    /\ entry' = c /\ bringUp' = c /\ socket' = 0
    /\ fastCrashes' = IF cooled THEN 0 ELSE fastCrashes
    /\ UNCHANGED <<killed, cooled>>

(* Where a caller goes on; a launched TUI is followed by its adoption loop. *)
After(next) == IF next = "launch" THEN "poll" ELSE next

(* A bring-up nobody shares: a second one may start beside it. *)
ensureServerSlip(r, next) ==
    \/ /\ entry # 0 /\ child[entry] = "up"
       /\ stage' = [stage EXCEPT ![r] = After(next)]
       /\ conn' = [conn EXCEPT ![r] = IF next = "resume" THEN socket ELSE 0]
       /\ UNCHANGED <<servers, breaker, goal, turn, outcome, last>>
    \/ /\ entry = 0 \/ child[entry] # "up"
       /\ ~stopping /\ ~BreakerOpen /\ Spare # {}
       /\ spawnServer
       /\ stage' = [stage EXCEPT ![r] = "server"]
       /\ goal' = [goal EXCEPT ![r] = next]
       /\ UNCHANGED <<conn, turn, outcome, last>>

(* A caller that finds a server process returns at once, listening or not; one
   that finds a bring-up shares it; else it spawns, or is refused. *)
ensureServer(r, next) ==
    \/ /\ entry # 0
       /\ stage' = [stage EXCEPT ![r] = After(next)]
       /\ conn' = [conn EXCEPT ![r] = IF next = "resume" THEN socket ELSE 0]
       /\ UNCHANGED <<servers, breaker, goal, turn, outcome, last>>
    \/ /\ entry = 0 /\ bringUp # 0
       /\ stage' = [stage EXCEPT ![r] = "server"]
       /\ goal' = [goal EXCEPT ![r] = next]
       /\ UNCHANGED <<servers, breaker, conn, turn, outcome, last>>
    \/ /\ entry = 0 /\ bringUp = 0
       /\ ~stopping /\ ~BreakerOpen /\ Spare # {}
       /\ spawnServer
       /\ stage' = [stage EXCEPT ![r] = "server"]
       /\ goal' = [goal EXCEPT ![r] = next]
       /\ UNCHANGED <<conn, turn, outcome, last>>

Refused ==
    /\ entry = 0 /\ bringUp = 0
    /\ stopping \/ BreakerOpen \/ Spare = {}

(* The socket answered a handshake (the path is what is probed, not the
   process) and trustHooks, best effort, is through: every sharer goes on. *)
BringUpReady ==
    /\ bringUp # 0 /\ socket # 0
    /\ bringUp' = 0
    /\ stage' = [r \in Callers |->
         IF stage[r] = "server" THEN After(goal[r]) ELSE stage[r]]
    /\ goal' = [r \in Callers |-> IF stage[r] = "server" THEN "none" ELSE goal[r]]
    /\ conn' = [r \in Callers |->
         IF stage[r] = "server" /\ goal[r] = "resume" THEN socket ELSE conn[r]]
    /\ UNCHANGED <<child, killed, entry, socket, breaker, stopping, archived,
                   signal, engine, marker, bounds, seen>>

BringUpTimesOutSlip ==
    /\ bringUp # 0 /\ socket = 0
    /\ bringUp' = 0
    /\ IF stage["wake"] = "server" THEN settle("spawnFail")
       ELSE UNCHANGED <<last, marker, signal>>
    /\ UNCHANGED <<child, killed, entry, socket, breaker, stopping, archived, client,
                   engine, bounds, orphans, displaced>>

(* Fifteen seconds without a handshake.  The process stays in the map. *)
BringUpTimesOut ==
    /\ bringUp # 0 /\ socket = 0
    /\ bringUp' = 0
    /\ stage' = [r \in Callers |-> IF stage[r] # "server" THEN stage[r]
                    ELSE IF goal[r] = "poll" THEN "poll" ELSE "idle"]
    /\ goal' = [r \in Callers |-> IF stage[r] = "server" THEN "none" ELSE goal[r]]
    /\ IF stage["wake"] = "server" THEN settle("spawnFail")
       ELSE UNCHANGED <<last, marker, signal>>
    /\ UNCHANGED <<child, killed, entry, socket, breaker, stopping, archived, conn,
                   engine, bounds, orphans, displaced>>

stopServerSlip ==
    /\ fastCrashes' = 0 /\ cooled' = FALSE
    /\ entry' = 0
    /\ UNCHANGED <<child, killed, bringUp, socket>>

(* stopServer clears the breaker and forgets the process it signals. *)
stopServer ==
    /\ fastCrashes' = 0 /\ cooled' = FALSE
    /\ killed' = killed \cup ({entry} \ {0})
    /\ entry' = 0
    /\ UNCHANGED <<child, bringUp, socket>>

(* bus "agent:archived" *)
Archive ==
    /\ ~archived /\ ~stopping
    /\ archived' = TRUE
    /\ stopServer
    /\ UNCHANGED <<stopping, client, signal, engine, marker, bounds, seen>>

(* Host shutdown: CodexHeadlessStrategy.stopAll, an abort like the user's, then the
   manager's stopAll. *)
Shutdown ==
    /\ ~stopping /\ hosts < MaxHosts
    /\ stopping' = TRUE
    /\ IF entry # 0 THEN stopServer ELSE UNCHANGED <<servers, breaker>>
    /\ IF stage["wake"] = "parked" /\ ~aborted
       THEN Ends("wake", Reason("interrupted"))
       ELSE /\ aborted' = (aborted \/ stage["wake"] # "idle")
            /\ marker' = 0
            /\ UNCHANGED <<client, acked, turn, outcome, last>>
    /\ UNCHANGED <<archived, threads, bounds, orphans, displaced>>

(* The exit event.  It deletes the agent's entry whichever process that names,
   and counts an exit within five seconds of the start as a fast crash. *)
ExitSeen(c) ==
    /\ child[c] = "dead"
    /\ child' = [child EXCEPT ![c] = "gone"]
    /\ entry' = 0
    /\ displaced' = displaced \cup ({entry} \ {0, c})
    /\ IF stopping THEN UNCHANGED breaker
       ELSE /\ cooled' = FALSE
            /\ fastCrashes' \in {fastCrashes + 1, 0}
    /\ UNCHANGED <<killed, bringUp, socket, stopping, archived, client, signal,
                   engine, marker, bounds, orphans, last>>

(* The child process could not be spawned at all: its error event. *)
SpawnError(c) ==
    /\ child[c] = "starting" /\ c \notin orphans
    /\ child' = [child EXCEPT ![c] = "gone"]
    /\ entry' = 0
    /\ displaced' = displaced \cup ({entry} \ {0, c})
    /\ UNCHANGED <<killed, bringUp, socket, breaker, stopping, archived, client,
                   signal, engine, marker, bounds, orphans, last>>

----------------------------------------------------------------------------
(* The engine: processes, the socket, the turns *)

Listens(c) ==
    /\ child[c] = "starting" /\ socket = 0
    /\ child' = [child EXCEPT ![c] = "up"]
    /\ socket' = c
    /\ UNCHANGED <<killed, entry, bringUp, breaker, stopping, archived, client,
                   signal, engine, marker, bounds, seen>>

(* A process dies: of SIGTERM, of a fault, of a socket path already taken.  Its
   connections break and its turn is lost.  Only the host that spawned it sees
   the exit. *)
Dies(c) ==
    /\ c \in Live
    /\ child' = [child EXCEPT ![c] = IF c \in orphans THEN "gone" ELSE "dead"]
    /\ socket' = IF socket = c THEN 0 ELSE socket
    /\ outcome' = [r \in Callers |->
         IF conn[r] = c /\ outcome[r] = "active" THEN "lost" ELSE outcome[r]]
    /\ turn' = [turn EXCEPT ![c] = "none"]
    /\ UNCHANGED <<killed, entry, bringUp, breaker, stopping, archived, client,
                   signal, threads, marker, bounds, seen>>

OnServer(r) == conn[r] # 0 /\ child[conn[r]] = "up"

(* The user starts a turn in the TUI attached to the process. *)
UserTurn(c) ==
    /\ child[c] = "up" /\ turn[c] = "none" /\ thread /\ userTurns < MaxUserTurns
    /\ turn' = [turn EXCEPT ![c] = "user"]
    /\ rollout' = TRUE
    /\ userTurns' = userTurns + 1
    /\ UNCHANGED <<servers, breaker, stopping, archived, client, signal, outcome,
                   thread, marker, wakes, hosts, seen>>

(* Thirty seconds without a crash. *)
CoolsDown ==
    /\ fastCrashes > 0 /\ ~cooled
    /\ cooled' = TRUE
    /\ UNCHANGED <<servers, fastCrashes, stopping, archived, client, signal, engine,
                   marker, bounds, seen>>

(* How the turn of r may end: "unlisted" is a failed one of which thread/read keeps
   no record.  How others' turns end makes no difference to anyone. *)
Ended(r) ==
    IF r = "wake" THEN {"completed", "failed", "unlisted", "interrupted"} ELSE {"completed"}

(* A turn ends.  Callers parked behind it that hear of it go on: turn/start is next, unless the
   wake was aborted meanwhile. *)
TurnEnds(c, how) ==
    LET parked == {r \in Callers : stage[r] = "parked" /\ conn[r] = c} IN
    /\ child[c] = "up" /\ turn[c] # "none"
    /\ turn' = [turn EXCEPT ![c] = "none"]
    /\ outcome' = [r \in Callers |-> IF turn[c] = r THEN how ELSE outcome[r]]
    /\ \E heard \in SUBSET parked :
         IF "wake" \in heard /\ aborted
         THEN /\ stage' = [r \in Callers |-> IF r = "wake" THEN "idle"
                              ELSE IF r \in heard THEN "start" ELSE stage[r]]
              /\ conn' = [conn EXCEPT !["wake"] = 0]
              /\ settle(Reason("interrupted"))
         ELSE /\ stage' = [r \in Callers |-> IF r \in heard THEN "start" ELSE stage[r]]
              /\ UNCHANGED <<conn, last, marker, signal>>
    /\ UNCHANGED <<servers, breaker, stopping, archived, goal, threads,
                   bounds, orphans, displaced>>

(* A turn that was active when its thread was replaced ends. *)
FormerTurnEnds(r, how) ==
    /\ outcome[r] = "active" /\ OnServer(r) /\ turn[conn[r]] # r
    /\ outcome' = [outcome EXCEPT ![r] = how]
    /\ UNCHANGED <<servers, breaker, stopping, archived, client, signal, turn, threads,
                   marker, bounds, seen>>

----------------------------------------------------------------------------
(* The wake run, up to its turn *)

(* CodexHeadlessStrategy.run: an archived agent settles at once (no change). *)
Run ==
    /\ stage["wake"] = "idle" /\ ~archived /\ ~stopping /\ wakes < MaxWakes
    /\ wakes' = wakes + 1
    /\ \/ /\ ensureServer("wake", IF thread THEN "prepared" ELSE "bare")
          /\ UNCHANGED <<signal, marker>>
       \/ /\ Refused /\ settle("spawnFail")
          /\ UNCHANGED <<servers, breaker, client, turn, outcome>>
    /\ UNCHANGED <<stopping, archived, threads, userTurns, hosts, orphans, displaced>>

(* The server is up, as far as ensureServer tells: create a thread, if the agent
   had none when the run began, or write the marker and begin the turn; either way
   through ensureServer once more. *)
Prepared ==
    /\ stage["wake"] \in {"bare", "prepared"}
    /\ \/ /\ ensureServer("wake", IF stage["wake"] = "bare" THEN "create" ELSE "resume")
          /\ marker' = IF stage["wake"] = "prepared" /\ entry # 0 THEN entry ELSE marker
          /\ UNCHANGED signal
       \/ /\ Refused /\ Ends("wake", "spawnFail")
          /\ UNCHANGED <<servers, breaker>>
    /\ UNCHANGED <<stopping, archived, threads, bounds, orphans, displaced>>

(* createThread: connect and thread/start; the id is persisted, over one adopted
   since.  A turn still active then is one of the thread before. *)
ThreadCreated ==
    /\ stage["wake"] = "create"
    /\ \/ /\ socket # 0
          /\ thread' = TRUE /\ rollout' = FALSE
          /\ stage' = [stage EXCEPT !["wake"] = "prepared"]
          /\ UNCHANGED <<goal, conn, turn, outcome, last, marker, signal>>
       \/ /\ Ends("wake", "resumeFail")
          /\ UNCHANGED threads
    /\ UNCHANGED <<servers, breaker, stopping, archived, bounds,
                   orphans, displaced>>

----------------------------------------------------------------------------
(* runTurn *)

(* A push or a kickoff. *)
Push ==
    /\ stage["push"] = "idle" /\ thread /\ ~archived /\ userTurns < MaxUserTurns
    /\ userTurns' = userTurns + 1
    /\ ensureServer("push", "resume")
    /\ UNCHANGED <<stopping, archived, signal, threads, marker, wakes, hosts,
                   orphans, displaced>>

(* Connected to the process that listened when the connect began, and
   thread/resume answered: wait behind an active turn, else look at the signal,
   else ask for the turn.  A thread without a rollout cannot be resumed, and its
   status is not known; the turn is asked for without a subscription. *)
ResumeAnswers(r) ==
    /\ stage[r] = "resume" /\ OnServer(r)
    /\ \/ /\ rollout /\ turn[conn[r]] # "none"
          /\ stage' = [stage EXCEPT ![r] = "parked"]
          /\ UNCHANGED <<goal, conn, turn, outcome, last, marker, signal>>
       \/ /\ rollout => turn[conn[r]] = "none"
          /\ IF r = "wake" /\ aborted
             THEN Ends(r, Reason("interrupted"))
             ELSE /\ stage' = [stage EXCEPT ![r] = IF rollout THEN "start" ELSE "first"]
                  /\ UNCHANGED <<goal, conn, turn, outcome, last, marker, signal>>
       \/ Ends(r, "resumeFail")
    /\ UNCHANGED <<servers, breaker, stopping, archived, threads, bounds,
                   orphans, displaced>>

(* turn/start: acknowledged once the thread is free, or refused.  The first turn
   of a thread creates its rollout and finds it free; it is subscribed to next.
   (For a push, of which nobody reads more than the acknowledgement, the
   subscription is part of the race.) *)
StartAnswers(r) ==
    /\ stage[r] \in {"start", "first"} /\ OnServer(r)
    /\ \/ /\ turn[conn[r]] = "none" \/ (stage[r] = "first" /\ ~rollout)
          /\ turn' = [turn EXCEPT ![conn[r]] = r]
          /\ outcome' = [outcome EXCEPT ![r] = "active"]
          /\ rollout' = (rollout \/ stage[r] = "first")
          /\ acked' = (acked \/ r = "wake")
          /\ stage' = [stage EXCEPT ![r] =
               IF @ = "first" /\ r = "wake" THEN "subscribe" ELSE "race"]
          /\ UNCHANGED <<goal, conn, last, marker, aborted>>
       \/ Ends(r, "resumeFail") /\ UNCHANGED rollout
    /\ UNCHANGED <<servers, breaker, stopping, archived, thread,
                   bounds, orphans, displaced>>

(* The second thread/resume has an answer, an error or a closed connection, all of
   which are swallowed.  What follows listens for a close that has been: only the
   poll will notice, and not tell. *)
Subscribed ==
    /\ stage["wake"] = "subscribe"
    /\ stage' = [stage EXCEPT !["wake"] = IF OnServer("wake") THEN "race" ELSE "blind"]
    /\ UNCHANGED <<servers, breaker, stopping, archived, goal, conn, signal, engine,
                   marker, bounds, seen>>

(* The race: the notification, or the poll of thread/read, tells of the end.  The
   poll takes a turn that is not listed, on an idle thread, for completed. *)
OutcomeLearnt(r) ==
    /\ stage[r] = "race"
    /\ \/ /\ outcome[r] \in {"completed", "failed", "interrupted"}
          /\ Ends(r, Reason(outcome[r]))
       \/ outcome[r] = "unlisted" /\ Ends(r, Reason("failed"))
       \/ /\ outcome[r] = "unlisted" /\ turn[conn[r]] = "none"
          /\ Ends(r, Reason("completed"))
    /\ UNCHANGED <<servers, breaker, stopping, archived, threads, bounds,
                   orphans, displaced>>

(* The poll finds the client closed and takes the race for settled. *)
PollSeesClosed ==
    /\ stage["wake"] = "blind"
    /\ Ends("wake", Reason("completed"))
    /\ UNCHANGED <<servers, breaker, stopping, archived, threads, bounds,
                   orphans, displaced>>

PollSeesAbortSlip ==
    /\ stage["wake"] = "race" /\ aborted /\ outcome["wake"] # "active"
    /\ Ends("wake", Reason("interrupted"))
    /\ UNCHANGED <<servers, breaker, stopping, archived, threads, bounds,
                   orphans, displaced>>

(* The poll looks at the signal first. *)
PollSeesAbort ==
    /\ stage["wake"] \in {"race", "blind"} /\ aborted
    /\ Ends("wake", Reason("interrupted"))
    /\ UNCHANGED <<servers, breaker, stopping, archived, threads, bounds,
                   orphans, displaced>>

(* Nobody listened, or the connection closes: every request and waiter of its client
   rejects, and all but one of them end the call. *)
ConnectionCloses(r) ==
    /\ stage[r] \in OnClient \ {"subscribe", "blind"} /\ ~OnServer(r)
    /\ Ends(r, "resumeFail")
    /\ UNCHANGED <<servers, breaker, stopping, archived, threads, bounds,
                   orphans, displaced>>

(* Stop, or the coordinator's kill timer: the signal is heard by a wait behind
   another turn and by the race, at every other await it only is set. *)
Abort ==
    /\ stage["wake"] # "idle" /\ ~aborted
    /\ IF stage["wake"] = "parked"
       THEN Ends("wake", Reason("interrupted"))
       ELSE /\ aborted' = TRUE
            /\ UNCHANGED <<client, turn, outcome, last, marker, acked>>
    /\ UNCHANGED <<servers, breaker, stopping, archived, threads, bounds,
                   orphans, displaced>>

----------------------------------------------------------------------------
(* A launched TUI *)

(* prepareInteractive; when it fails the launch fails (no change). *)
Launch ==
    /\ stage["tui"] = "idle" /\ ~archived
    /\ ensureServer("tui", "launch")
    /\ UNCHANGED <<stopping, archived, signal, threads, marker, bounds,
                   orphans, displaced>>

(* The adoption loop, once a second: loadedThreads finds a new thread, which is
   persisted (its kickoff is a Push), or nothing, or fails; after thirty tries
   the loop gives up.  (A turn the user starts before the adoption counts as one
   after it; the thread of a fresh restart counts as the one it replaces.) *)
AdoptionPoll ==
    /\ stage["tui"] = "poll"
    /\ \/ /\ entry = 0
          /\ ensureServer("tui", "poll")
          /\ UNCHANGED threads
       \/ /\ entry # 0 /\ socket # 0
          /\ thread' = TRUE
          /\ stage' = [stage EXCEPT !["tui"] = "idle"]
          /\ UNCHANGED <<rollout, servers, breaker, goal, conn, turn, outcome, last>>
       \/ /\ stage' = [stage EXCEPT !["tui"] = "idle"]
          /\ UNCHANGED <<servers, breaker, goal, conn, turn, outcome, last, threads>>
    /\ UNCHANGED <<stopping, archived, signal, marker, bounds, orphans, displaced>>

----------------------------------------------------------------------------
(* The host ends, by a crash or after Shutdown, and the next one boots: it signals
   the process a surviving marker names; what still lives is none of its own. *)
NextHost ==
    /\ hosts < MaxHosts
    /\ hosts' = hosts + 1
    /\ child' = [c \in Children |-> IF child[c] = "none" THEN "none"
                    ELSE IF c \in Live THEN child[c] ELSE "gone"]
    /\ socket' = IF socket \in Live THEN socket ELSE 0
    /\ turn' = [c \in Children |-> IF c \notin Live THEN "none"
                    ELSE IF turn[c] \in {"wake", "push"} THEN "stray" ELSE turn[c]]
    /\ orphans' = Live
    /\ displaced' = {}
    /\ entry' = 0 /\ bringUp' = 0 /\ marker' = 0
    /\ fastCrashes' = 0 /\ cooled' = FALSE
    /\ stopping' = FALSE
    /\ stage' = [r \in Callers |-> "idle"]
    /\ goal' = [r \in Callers |-> "none"]
    /\ conn' = [r \in Callers |-> 0]
    /\ outcome' = [r \in Callers |-> "none"]
    /\ aborted' = FALSE /\ acked' = FALSE
    /\ killed' = killed \cup ({marker} \ {0})
    /\ UNCHANGED <<archived, threads, wakes, userTurns, last>>

Answers(r) ==
    \/ ResumeAnswers(r) \/ StartAnswers(r) \/ OutcomeLearnt(r)
    \/ ConnectionCloses(r)

Next ==
    \/ Run \/ Prepared \/ ThreadCreated \/ Subscribed \/ PollSeesClosed
    \/ PollSeesAbort \/ Abort
    \/ Push \/ Launch \/ AdoptionPoll
    \/ BringUpReady \/ BringUpTimesOut \/ Archive \/ Shutdown \/ NextHost \/ CoolsDown
    \/ \E c \in Children :
         \/ ExitSeen(c) \/ SpawnError(c) \/ Listens(c) \/ Dies(c) \/ UserTurn(c)
         \/ \E how \in Ended(turn[c]) : TurnEnds(c, how)
    \/ \E r \in Callers : Answers(r) \/ \E how \in Ended(r) : FormerTurnEnds(r, how)

(* The code's own continuations run, requests are answered (or their connection
   breaks), the bring-up has its deadline, the poll its interval, and the
   coordinator's kill timer fires.  Turns of the user need not end. *)
Fairness ==
    /\ WF_vars(Prepared) /\ WF_vars(ThreadCreated)
    /\ WF_vars(BringUpReady \/ BringUpTimesOut)
    /\ WF_vars(Subscribed) /\ WF_vars(PollSeesClosed)
    /\ WF_vars(PollSeesAbort) /\ WF_vars(Abort)
    /\ WF_vars(Answers("wake"))

Spec == Init /\ [][Next]_vars /\ Fairness

----------------------------------------------------------------------------
(* Properties *)

(* Every live server process is the one the manager tracks, or was signalled,
   or was left behind by an earlier host, or had its entry deleted by the
   late exit of a process stopped before it (codex-app-server.ts:178-179): in no
   other way do two engines serve one CODEX_HOME.  While a wake is on its
   server, the marker (codex-strategy.ts:70-76) names that very process, unless
   the server it found had died before the marker was written. *)
ServersAccounted ==
    /\ TypeOK
    /\ Live \subseteq ({entry} \cup killed \cup orphans \cup displaced)
    /\ \A c \in displaced : \E d \in killed : d < c
    /\ stage["wake"] \in OnClient /\ OnServer("wake") =>
         \/ marker = conn["wake"]
         \/ stopping \/ conn["wake"] \in killed \cup orphans \cup displaced
         \/ marker = 0

(* What a wake reports is what happened: "ok" only for a turn the engine
   acknowledged and that ended, unless the run was aborted; a failed turn, or an
   interrupt before the acknowledgement, is never "ok"; and an aborted run
   leaves a turn running only if it was told to stop, or if the abort fell
   between turn/start and the registration of its listener
   (codex-app-server.ts:351-369).  In two cases the code reports "ok" for a turn that
   failed or was lost, and they are excepted: the connection closed during the
   second thread/resume, whose rejection is swallowed (:361-364), so that the poll
   finds a closed client and answers "completed" (:400); and the poll found an idle
   thread without a record of the turn (:413) before the notification came. *)
OutcomeSound ==
    [][ stage["wake"] # "idle" /\ stage'["wake"] = "idle" /\ hosts' = hosts =>
        /\ last' = "ok" =>
             /\ acked
             /\ \/ outcome["wake"] \in {"completed", "interrupted"} \/ aborted
                \/ stage["wake"] = "blind"
                \/ outcome["wake"] = "unlisted"
        /\ last' = "spawnFail" => ~acked
        /\ outcome["wake"] = "active" /\ OnServer("wake") => aborted ]_vars

(* Every headless run settles, by its turn, its connection or the kill timer
   (codex-strategy.ts:44-112); the one exception is a run aborted before it
   came to wait behind another turn, whose abort listener never fires
   (codex-app-server.ts:345-347, 559-566). *)
Deaf == stage["wake"] = "parked" /\ aborted
WakesSettle == stage["wake"] # "idle" ~> stage["wake"] = "idle" \/ Deaf

=============================================================================
