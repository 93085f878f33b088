---------------------------- MODULE TerminalView ----------------------------
(***************************************************************************)
(* What the terminal pane shows: the renderer's one controller             *)
(* (lib/terminal/session-controller.ts) switching between agents, the      *)
(* socket of the agent shown (ws-transport.ts, pty-daemon/ws-server.ts),   *)
(* the batching of its output (output-batcher.ts) and the sessions with    *)
(* their ring of recent output (session-store.ts).  Which sessions may run *)
(* is TerminalSessions' subject; of the host's openOrAttach only what the  *)
(* pane depends on is kept: the intent, the coalescing of spawns and the   *)
(* automatic respawn.                                                      *)
(*                                                                         *)
(* Output comes in chunks [sid, n], the n-th of session sid; capacities    *)
(* count chunks.  The screen is a sequence of pieces, what one socket      *)
(* after the other wrote since the last reset of the terminal.             *)
(*                                                                         *)
(* Definitions named ...Slip are mistaken variants of the definition they  *)
(* precede; no specification uses them.                                    *)
(***************************************************************************)
EXTENDS Naturals, Sequences, FiniteSets, SequencesExt

CONSTANTS
  Agents, None,
  RingCap,      \* chunks a session keeps for replay (1 MiB)
  MaxBuffered,  \* unsent chunks above which a socket is given up (8 MiB)
  MaxAttempts,  \* MAX_RECONNECT_ATTEMPTS
  MaxClicks, MaxDrops, MaxSessions, MaxOutput  \* bounds of the model

Sessions == [sid : Nat, made : Nat, low : Nat, exited : BOOLEAN, continued : BOOLEAN,
             by : {"view", "left_view", "respawn"}]

Items == [sid : Nat \cup {None}, n : Nat]   \* chunks, and the banner

Frames == [t : {"hello", "exit"}]
          \cup [t : {"output"}, data : Seq(Items)]
          \cup [t : {"close"}, code : {"exited", "not_found", "slow_consumer"}]

Sockets == [sid : Nat \cup {None}, pending : Seq(Items), wire : Seq(Frames), open : BOOLEAN]

ASSUME ViewAssumption ==
  /\ IsFiniteSet(Agents)
  /\ RingCap \in Nat \ {0} /\ MaxAttempts \in Nat
  /\ None \notin Agents \cup Nat \cup Sessions \cup Sockets

VARIABLES
  store,      \* the host's sessions: [sid, made, low, exited, continued, by] or None
  opening,    \* the spawn in flight per agent: "no", "view", "left_view" or "respawn"
  news,       \* terminal:respawned events on their way to the pane
  shown,      \* currentAgentId
  phase,      \* where the connect of the current epoch is
  intent,     \* and its intent
  stale,      \* openOrAttach calls of earlier epochs the host has yet to serve
  attempts,   \* reconnectAttempts
  socket,     \* [sid, pending, wire, open] or None
  screen,     \* the pieces on the screen
  liveness,   \* what the pane says of the agent shown
  clicks,     \* selections and Resumes so far (a bound)
  born, output, \* sessions and chunks so far
  lost        \* connections lost so far, broken or given up

hostVars == <<store, opening, news, born, output>>
viewVars == <<shown, phase, intent, stale, attempts, screen, liveness, clicks>>
vars == <<hostVars, viewVars, socket, lost>>

-----------------------------------------------------------------------------
(***************************************************************************)
(* The host: sessions, their rings and the sink of the attached socket.    *)
(***************************************************************************)
IsLive(a) == store[a] # None /\ ~store[a].exited

Session(sid, continued, by) ==
  [sid |-> sid, made |-> 0, low |-> 0, exited |-> FALSE, continued |-> continued, by |-> by]

\* One more chunk; the oldest leaves a full ring.
appendOutput(s) ==
  [s EXCEPT !.made = @ + 1, !.low = IF s.made + 1 - @ > RingCap THEN @ + 1 ELSE @]

snapshot(s) == [i \in 1..(s.made - s.low) |-> [sid |-> s.sid, n |-> s.low + i]]

Banner == [sid |-> None, n |-> 0]   \* [session ended -- Resume to continue]

Frame(t) == [t |-> t]
Out(chunks) == [t |-> "output", data |-> chunks]
Close(code) == [t |-> "close", code |-> code]

Chunks(wire) ==
  FlattenSeq([i \in DOMAIN wire |-> IF wire[i].t = "output" THEN wire[i].data ELSE <<>>])

closed(k, code) ==
  [sid |-> k.sid, pending |-> <<>>, wire |-> Append(k.wire, Close(code)), open |-> FALSE]

\* The batch stays pending when it was sent.
flushSlip(k) ==
  IF k.pending = <<>> \/ ~k.open THEN k
  ELSE IF Len(Chunks(k.wire)) > MaxBuffered THEN closed(k, "slow_consumer")
  ELSE [k EXCEPT !.wire = Append(@, Out(k.pending))]

flush(k) ==
  IF k.pending = <<>> \/ ~k.open THEN k
  ELSE IF Len(Chunks(k.wire)) > MaxBuffered THEN closed(k, "slow_consumer")
  ELSE [k EXCEPT !.wire = Append(@, Out(k.pending)), !.pending = <<>>]

\* The exit frame follows the last batch, unless flushing it gave the socket up.
sinkExit(k) ==
  LET flushed == flush(k)
  IN  IF flushed.open
      THEN closed([flushed EXCEPT !.wire = Append(@, Frame("exit"))], "exited")
      ELSE flushed

\* onConnection: the greeting, the snapshot and the subscription in one step.
onConnection(s) ==
  LET k == [sid |-> s.sid, pending |-> snapshot(s), wire |-> <<Frame("hello")>>, open |-> TRUE]
  IN  IF s.exited THEN sinkExit(k) ELSE k

notFound == closed([sid |-> None, pending |-> <<>>, wire |-> <<>>, open |-> TRUE], "not_found")

Attached(a) == socket # None /\ store[a] # None /\ socket.sid = store[a].sid

-----------------------------------------------------------------------------
Init ==
  /\ store = [a \in Agents |-> None]
  /\ opening = [a \in Agents |-> "no"]
  /\ news = {} /\ stale = {}
  /\ shown = None /\ phase = "idle" /\ intent = "auto" /\ attempts = 0
  /\ socket = None /\ screen = <<>>
  /\ liveness = "connecting"
  /\ clicks = 0 /\ born = 0 /\ output = 0 /\ lost = 0

(***************************************************************************)
(* The controller.                                                         *)
(***************************************************************************)
\* A call the host has not served is not withdrawn when its view is left.
Abandoned == IF phase = "asking" THEN stale \cup {[agent |-> shown, intent |-> intent]} ELSE stale

startSession(a, i) ==
  /\ shown' = a /\ intent' = i
  /\ attempts' = 0
  /\ phase' = "asking"
  /\ stale' = Abandoned
  /\ socket' = None
  /\ screen' = <<>>
  /\ liveness' = "connecting"

\* The user selects another agent (or the first one).
attach(a) ==
  /\ clicks < MaxClicks /\ shown # a
  /\ clicks' = clicks + 1
  /\ startSession(a, "auto")
  /\ UNCHANGED <<hostVars, lost>>

\* The Resume button, offered on a dead session.
resume ==
  /\ clicks < MaxClicks /\ shown # None
  /\ liveness = "dead"
  /\ clicks' = clicks + 1
  /\ startSession(shown, "resume")
  /\ UNCHANGED <<hostVars, lost>>

reconnectSlip(a) ==
  /\ a \in news
  /\ news' = news \ {a}
  /\ IF shown = a THEN startSession(a, "resume")
     ELSE UNCHANGED <<shown, phase, intent, stale, attempts, screen, liveness, socket>>
  /\ UNCHANGED <<store, opening, born, output, clicks, lost>>

\* A respawn is announced: reattach if that agent is shown, without launching.
reconnect(a) ==
  /\ a \in news
  /\ news' = news \ {a}
  /\ IF shown = a THEN startSession(a, "attach")
     ELSE UNCHANGED <<shown, phase, intent, stale, attempts, screen, liveness, socket>>
  /\ UNCHANGED <<store, opening, born, output, clicks, lost>>

detach ==
  /\ clicks < MaxClicks /\ shown # None
  /\ clicks' = clicks + 1
  /\ shown' = None /\ phase' = "idle"
  /\ stale' = Abandoned
  /\ socket' = None
  /\ UNCHANGED <<hostVars, intent, attempts, screen, liveness, lost>>

scheduleReconnect ==
  IF attempts >= MaxAttempts
  THEN /\ phase' = "over"
       /\ liveness' = "dead"
       /\ UNCHANGED attempts
  ELSE /\ phase' = "waiting"
       /\ attempts' = attempts + 1
       /\ liveness' = "connecting"

\* Retries carry the original intent.
RetryFires ==
  /\ phase = "waiting"
  /\ phase' = "asking"
  /\ UNCHANGED <<hostVars, shown, intent, stale, attempts, screen, liveness, clicks, socket, lost>>

(***************************************************************************)
(* openOrAttach: a live session is enough; attach launches nothing; other  *)
(* intents await the spawn in flight or start one, unless the agent is     *)
(* broken or a headless run holds it: then the pane goes on without one.   *)
(***************************************************************************)
\* The agent may be held while it has no session and none is coming (one writer at a
\* time; that a codex preparation overlaps a run is TerminalSessions' subject).
MayRefuse(a) == ~IsLive(a) /\ opening[a] = "no"

openOrAttach(a, i, held) ==
  IF IsLive(a) THEN "endpoint"
  ELSE IF i = "attach" THEN "gone"
  ELSE IF held THEN "endpoint" ELSE "opening"

Launched(a, i, held, by) ==
  opening' = IF openOrAttach(a, i, held) = "opening" /\ opening[a] = "no"
             THEN [opening EXCEPT ![a] = by] ELSE opening

\* attach found nothing alive: the pane says so.
Served(next) ==
  IF next = "gone"
  THEN /\ phase' = "over"
       /\ liveness' = "dead"
       /\ screen' = Append(screen, <<Banner>>)
  ELSE phase' = next /\ UNCHANGED <<liveness, screen>>

HostAnswers(held) ==
  /\ phase = "asking"
  /\ held => MayRefuse(shown)
  /\ Served(openOrAttach(shown, intent, held))
  /\ Launched(shown, intent, held, "view")
  /\ UNCHANGED <<store, news, born, output, shown, intent, stale, attempts, clicks, socket, lost>>

\* Nobody reads the answer to a view that was left.
ServesStale(call, held) ==
  /\ call \in stale
  /\ held => MayRefuse(call.agent)
  /\ stale' = stale \ {call}
  /\ Launched(call.agent, call.intent, held, "left_view")
  /\ UNCHANGED <<store, news, born, output, shown, phase, intent, attempts, screen, liveness,
                 clicks, socket, lost>>

\* The endpoint is fetched and the socket opened; the first frames set out.
openSocket ==
  /\ phase = "endpoint"
  /\ phase' = "socket"
  /\ socket' = IF store[shown] = None THEN notFound ELSE onConnection(store[shown])
  /\ screen' = Append(screen, <<>>)
  /\ UNCHANGED <<hostVars, shown, intent, stale, attempts, liveness, clicks, lost>>

handleCloseSlip(code) ==
  IF code \in {"exited", "not_found"}
  THEN phase' = "over" /\ UNCHANGED <<attempts, liveness>>
  ELSE scheduleReconnect

\* After an exit the pane is dead already; a session that is not there is dead too.
handleClose(code) ==
  IF code = "exited" THEN phase' = "over" /\ UNCHANGED <<attempts, liveness>>
  ELSE IF code = "not_found"
       THEN /\ phase' = "over"
            /\ liveness' = "dead"
            /\ UNCHANGED attempts
  ELSE scheduleReconnect

Write(items) == screen' = [screen EXCEPT ![Len(screen)] = @ \o items]

Receive ==
  LET frame == Head(socket.wire)
  IN  /\ socket # None /\ socket.wire # <<>>
      /\ IF frame.t = "close" THEN socket' = None
         ELSE socket' = [socket EXCEPT !.wire = Tail(@)]
      /\ \/ /\ frame.t = "hello"
            /\ liveness' = "live"
            /\ attempts' = 0
            /\ UNCHANGED <<phase, screen, lost>>
         \/ /\ frame.t = "output"
            /\ Write(frame.data)
            /\ UNCHANGED <<phase, attempts, liveness, lost>>
         \/ /\ frame.t = "exit"
            /\ Write(<<Banner>>)
            /\ liveness' = "dead"
            /\ UNCHANGED <<phase, attempts, lost>>
         \/ /\ frame.t = "close"
            /\ handleClose(frame.code)
            /\ lost' = IF frame.code = "slow_consumer" THEN lost + 1 ELSE lost
            /\ UNCHANGED screen
      /\ UNCHANGED <<hostVars, shown, intent, stale, clicks>>

-----------------------------------------------------------------------------
(***************************************************************************)
(* What happens at the host.                                               *)
(***************************************************************************)
\* A spawn ends.  A failed open rejects who awaits it, a failed respawn does not;
\* the session that was to be replaced may be deleted by then.
Spawned(a, ok, continued) ==
  /\ opening[a] # "no"
  /\ opening' = [opening EXCEPT ![a] = "no"]
  /\ IF ok
     THEN /\ born < MaxSessions
          /\ born' = born + 1
          /\ store' = [store EXCEPT ![a] = Session(born + 1, continued, opening[a])]
          /\ news' = IF opening[a] = "respawn" THEN news \cup {a} ELSE news
     ELSE /\ store' \in {store, [store EXCEPT ![a] = None]}
          /\ UNCHANGED <<born, news>>
  /\ opening[a] = "respawn" \/ ~ok => ~continued
  /\ IF shown # a \/ phase # "opening" THEN UNCHANGED <<phase, attempts, liveness>>
     ELSE IF ok \/ opening[a] = "respawn"
          THEN phase' = "endpoint" /\ UNCHANGED <<attempts, liveness>>
     ELSE scheduleReconnect
  /\ UNCHANGED <<output, shown, intent, stale, screen, clicks, socket, lost>>

Produce(a) ==
  /\ IsLive(a) /\ output < MaxOutput
  /\ output' = output + 1
  /\ store' = [store EXCEPT ![a] = appendOutput(@)]
  /\ socket' = IF Attached(a) /\ socket.open
               THEN [socket EXCEPT !.pending =
                       Append(@, [sid |-> store[a].sid, n |-> store[a].made + 1])]
               ELSE socket
  /\ UNCHANGED <<opening, news, born, viewVars, lost>>

Flush ==
  /\ socket # None /\ socket.open /\ socket.pending # <<>>
  /\ socket' = flush(socket)
  /\ UNCHANGED <<hostVars, viewVars, lost>>

\* A resumed session that dies young is replaced, once, by a fresh one.
Exit(a, young) ==
  /\ IsLive(a)
  /\ young => store[a].continued
  /\ store' = [store EXCEPT ![a].exited = TRUE]
  /\ socket' = IF Attached(a) /\ socket.open THEN sinkExit(socket) ELSE socket
  /\ opening' = IF young /\ opening[a] = "no" THEN [opening EXCEPT ![a] = "respawn"] ELSE opening
  /\ UNCHANGED <<news, born, output, viewVars, lost>>

\* The connection breaks; the host may have died with it and be up again.
Drop(hostDied) ==
  /\ lost < MaxDrops
  /\ hostDied \/ socket # None
  /\ lost' = lost + 1
  /\ IF hostDied
     THEN /\ store' = [a \in Agents |-> None]
          /\ opening' = [a \in Agents |-> "no"]
          /\ news' = {} /\ stale' = {}
     ELSE UNCHANGED <<store, opening, news, stale>>
  /\ socket' = None
  /\ IF socket # None \/ phase \in {"asking", "opening", "endpoint"}
     THEN scheduleReconnect ELSE UNCHANGED <<phase, attempts, liveness>>
  /\ UNCHANGED <<born, output, shown, intent, screen, clicks>>

Next ==
  \/ \E a \in Agents :
       \/ attach(a) \/ reconnect(a) \/ Produce(a)
       \/ \E ok, continued \in BOOLEAN : Spawned(a, ok, continued)
       \/ \E young \in BOOLEAN : Exit(a, young)
  \/ resume \/ detach \/ RetryFires \/ openSocket \/ Receive \/ Flush
  \/ \E held \in BOOLEAN :
       HostAnswers(held) \/ \E call \in stale : ServesStale(call, held)
  \/ \E hostDied \in BOOLEAN : Drop(hostDied)

Spec == Init /\ [][Next]_vars

-----------------------------------------------------------------------------
(***************************************************************************)
(* Properties.                                                             *)
(***************************************************************************)
Contiguous(cs) ==
  \A i \in 1..(Len(cs) - 1) : cs[i + 1].sid = cs[i].sid /\ cs[i + 1].n = cs[i].n + 1

Ended(piece) == piece # <<>> /\ Last(piece) = Banner
Told(piece) == IF Ended(piece) THEN Front(piece) ELSE piece

\* What is on its way to the pane: what it shows of its last socket, the frames on the
\* wire, the batch.
Parts ==
  <<Told(Last(screen))>>
    \o [i \in DOMAIN socket.wire |-> IF socket.wire[i].t = "output" THEN socket.wire[i].data
                                     ELSE <<>>]
    \o <<socket.pending>>

Following(p) == [sid |-> Last(p).sid, n |-> Last(p).n + 1]

\* The concatenation of the parts is contiguous.
Unbroken(parts) ==
  /\ \A i \in DOMAIN parts : Contiguous(parts[i])
  /\ \A i, j \in DOMAIN parts :
       /\ i < j /\ parts[i] # <<>> /\ parts[j] # <<>>
       /\ \A k \in (i + 1) .. (j - 1) : parts[k] = <<>>
       => parts[j][1] = Following(parts[i])

\* Its first chunk and its last.
StartsBy(parts, n) ==
  \E i \in DOMAIN parts :
    parts[i] # <<>> /\ (\A k \in 1 .. (i - 1) : parts[k] = <<>>) /\ parts[i][1].n <= n

EndsWith(parts, chunk) ==
  \E i \in DOMAIN parts :
    parts[i] # <<>> /\ (\A k \in (i + 1) .. Len(parts) : parts[k] = <<>>) /\ Last(parts[i]) = chunk

(***************************************************************************)
(* The terminal shows what the session wrote: each socket's piece of the   *)
(* screen is an unbroken run of one session's output, nothing twice and    *)
(* nothing missing; together with what is on the wire and in the batch it  *)
(* reaches from at or before the ring's oldest chunk to the newest one; and*)
(* the pane says "session ended" only after the last of it.  A socket that *)
(* was given up and replaced is a piece of its own: the screen is not      *)
(* cleared for the replay, so what both cover stands there twice.          *)
(***************************************************************************)
ViewIsFaithful ==
  /\ \A i \in DOMAIN screen : Contiguous(Told(screen[i]))
  /\ shown # None /\ Attached(shown) =>
       LET s == store[shown]
       IN  /\ Unbroken(Parts)
           /\ socket.open /\ s.made > 0 =>
                StartsBy(Parts, s.low + 1) /\ EndsWith(Parts, [sid |-> s.sid, n |-> s.made])
  /\ shown # None /\ screen # <<>> /\ Ended(Last(screen)) /\ Told(Last(screen)) # <<>> =>
       LET last == Last(Told(Last(screen)))
       IN  store[shown] # None /\ store[shown].sid = last.sid =>
             store[shown].exited /\ store[shown].made = last.n

(***************************************************************************)
(* Launches do not feed on themselves: each selection and each Resume      *)
(* brings up at most one session and the fresh one that replaces a resumed *)
(* session that died young.  Only a broken connection, or a consumer that  *)
(* was too slow, lets the view's retry launch a session once more.         *)
(***************************************************************************)
LaunchesAreAsked == born <= 2 * (clicks + lost)

AtRest ==
  /\ shown # None /\ phase \in {"socket", "over"}
  /\ socket # None => socket.wire = <<>> /\ socket.pending = <<>>
  /\ shown \notin news /\ opening[shown] = "no"

\* An attach launches nothing: its session is a respawn's, or was asked for earlier.
LaunchedForAnother ==
  store[shown].by = "left_view" \/ (intent = "attach" /\ store[shown].by = "view")

(***************************************************************************)
(* A view comes to rest right: once nothing is under way for it, the pane  *)
(* says "live" over a socket that shows a live session to its last chunk,  *)
(* or "dead", and then the session is gone or the retries ran out.         *)
(* Excepted: a session launched by a call of a view that was left, which   *)
(* the host served late; nothing tells the pane of it.                     *)
(***************************************************************************)
RestsRight ==
  AtRest =>
    \/ liveness = "live" /\ socket # None /\ Attached(shown) /\ IsLive(shown)
    \/ liveness = "dead" /\ (IsLive(shown) => attempts = MaxAttempts \/ LaunchedForAnother)

(* The pane asks for what it shows, and shows what it got.                 *)
PaneHonest == LaunchesAreAsked /\ RestsRight
=============================================================================
