----------------------- MODULE TerminalSessionsProofs -----------------------
(***************************************************************************)
(* The interactive sessions for any number of PTYs: the writer, the store  *)
(* and the processes agree on the session, and none is started or left     *)
(* without a reason (terminal/index.ts, terminal/manager.ts).              *)
(*                                                                         *)
(* The argument turns on the last PTY spawned: it is the store's session   *)
(* or the store is empty, a killed one is forgotten with its launch, and a *)
(* launch that may be respawned is never a respawn itself.                 *)
(***************************************************************************)
EXTENDS TerminalSessions, TLAPS

LiveOf(ps) == {i \in DOMAIN ps : ps[i].phase = "live"}

(* What holds of the processes, the store and the tracked launch together, also in
   the middle of a step. *)
Sound(ps, cur, l) ==
  /\ ps \in Seq(Pty) /\ Len(ps) <= MaxPtys /\ l \in Launch
  /\ cur \in {NoPty, Len(ps)}
  /\ ps # <<>> /\ ps[Len(ps)].phase = "signalled" => l = NoLaunch /\ cur = NoPty
  /\ LiveOf(ps) \subseteq {cur}
  /\ \A i \in DOMAIN ps \ {1} : ~(ps[i].by = "respawn" /\ ps[i - 1].by = "respawn")
  /\ l.continued => ps # <<>> /\ ps[Len(ps)].by # "respawn"

(* Only codex's spawns take time to prepare. *)
CodexPrepares == harness = "claude" => opening = NoSpawn /\ ~restarting

(* A spawn in preparation: a respawn is fresh and replaces a user's session, and a
   user's will not find a respawned session up. *)
Prepared ==
  /\ opening.by = "respawn" => opening.intent = "fresh"
  /\ opening.by = "respawn" \/ (opening # NoSpawn /\ IsLive(ptys, current))
       => ptys # <<>> /\ ptys[Len(ptys)].by # "respawn"

(* The kickoff leaves its marks in the registry. *)
KickoffMarks == harness = "claude" => kickoffs = 0 \/ (kickoffs = 1 /\ known /\ started)

(* The teardown guard is up from the first teardown until a GUI asks for a session. *)
TeardownGuarded == ~gui => guiGone \/ (ptys = <<>> /\ opening = NoSpawn /\ ~restarting)

SInv ==
  /\ TypeOK
  /\ Sound(ptys, current, launch)
  /\ CodexPrepares /\ Prepared /\ KickoffMarks /\ TeardownGuarded
  /\ InteractiveIsBacked /\ SingleWriter
  /\ NoPtyOutsideGui /\ ArchivedHasNoPty

-----------------------------------------------------------------------------
(* The operators on the processes.                                           *)

(* An exit changes one phase and nothing else. *)
LEMMA ExitFacts ==
  ASSUME ptys \in Seq(Pty), NEW i \in DOMAIN ptys
  PROVE  /\ Exited(i) \in Seq(Pty) /\ Len(Exited(i)) = Len(ptys)
         /\ DOMAIN Exited(i) = DOMAIN ptys
         /\ \A j \in DOMAIN ptys : Exited(i)[j].by = ptys[j].by
                                   /\ (j # i => Exited(i)[j] = ptys[j])
         /\ Exited(i)[i].phase = IF i < Len(ptys) THEN "late" ELSE "exited"
<1> DEFINE p == IF i < Len(ptys) THEN "late" ELSE "exited"
<1>1. ptys[i] \in Pty
  OBVIOUS
<1>2. PICK v : v = [ptys[i] EXCEPT !.phase = p]
  OBVIOUS
<1>3. v \in Pty /\ v.by = ptys[i].by /\ v.phase = p
  BY <1>1, <1>2 DEF Pty, Phase
<1>4. Exited(i) = [ptys EXCEPT ![i] = v]
  BY <1>2 DEF Exited
<1> QED
  BY <1>3, <1>4

(* A close signals the session in the store; the same PTYs are running. *)
LEMMA CloseFacts ==
  ASSUME NEW ps \in Seq(Pty), NEW cur
  PROVE  /\ Closed(ps, cur) \in Seq(Pty) /\ Len(Closed(ps, cur)) = Len(ps)
         /\ DOMAIN Closed(ps, cur) = DOMAIN ps
         /\ \A j \in DOMAIN ps : Closed(ps, cur)[j].by = ps[j].by
                                 /\ (j # cur => Closed(ps, cur)[j] = ps[j])
         /\ IsLive(ps, cur) => Closed(ps, cur)[cur].phase = "signalled"
         /\ ~IsLive(ps, cur) => Closed(ps, cur) = ps
         /\ Running(Closed(ps, cur)) = Running(ps)
<1>1. CASE ~IsLive(ps, cur)
  BY <1>1 DEF Closed
<1>2. CASE IsLive(ps, cur)
  <2>1. cur \in DOMAIN ps /\ ps[cur] \in Pty /\ ps[cur].phase \in {"live", "signalled"}
    BY <1>2 DEF IsLive, Running
  <2>2. PICK v : v = [ps[cur] EXCEPT !.phase = "signalled"]
    OBVIOUS
  <2>3. v \in Pty /\ v.by = ps[cur].by /\ v.phase = "signalled"
    BY <2>1, <2>2 DEF Pty, Phase
  <2>4. Closed(ps, cur) = [ps EXCEPT ![cur] = v]
    BY <1>2, <2>2 DEF Closed
  <2>5. /\ Closed(ps, cur) \in Seq(Pty) /\ Len(Closed(ps, cur)) = Len(ps)
        /\ DOMAIN Closed(ps, cur) = DOMAIN ps /\ Closed(ps, cur)[cur] = v
        /\ \A j \in DOMAIN ps : j # cur => Closed(ps, cur)[j] = ps[j]
    BY <2>1, <2>3, <2>4
  <2>6. Running(Closed(ps, cur)) = Running(ps)
    BY <2>1, <2>3, <2>5 DEF Running
  <2> QED
    BY <1>2, <2>3, <2>5, <2>6
<1> QED
  BY <1>1, <1>2

(* An open appends a live session unless one runs. *)
LEMMA OpenFacts ==
  ASSUME NEW ps \in Seq(Pty), NEW cur, NEW by \in By, ~IsLive(ps, cur)
  PROVE  LET o == Opened(ps, cur, by) IN
         /\ o.ptys \in Seq(Pty) /\ Len(o.ptys) = Len(ps) + 1
         /\ DOMAIN o.ptys = DOMAIN ps \cup {Len(ps) + 1}
         /\ \A j \in DOMAIN ps : o.ptys[j] = ps[j]
         /\ o.ptys[Len(ps) + 1].phase = "live" /\ o.ptys[Len(ps) + 1].by = by
         /\ o.current = Len(ps) + 1
<1>1. PICK v : v = [phase |-> "live", by |-> by]
  OBVIOUS
<1>2. v \in Pty /\ v.phase = "live" /\ v.by = by
  BY <1>1 DEF Pty, Phase
<1>3. Opened(ps, cur, by).ptys = Append(ps, v) /\ Opened(ps, cur, by).current = Len(ps) + 1
  BY <1>1 DEF Opened
<1> QED
  BY <1>2, <1>3

(* An exit keeps the processes sound. *)
LEMMA ExitSound ==
  ASSUME Sound(ptys, current, launch), NEW i \in DOMAIN ptys
  PROVE  /\ Sound(Exited(i), current, launch)
         /\ LiveOf(Exited(i)) = LiveOf(ptys) \ {i}
<1>1. /\ Exited(i) \in Seq(Pty) /\ Len(Exited(i)) = Len(ptys)
      /\ DOMAIN Exited(i) = DOMAIN ptys
      /\ \A j \in DOMAIN ptys : Exited(i)[j].by = ptys[j].by
                                /\ (j # i => Exited(i)[j] = ptys[j])
      /\ Exited(i)[i].phase = IF i < Len(ptys) THEN "late" ELSE "exited"
  BY ExitFacts DEF Sound
<1>2. LiveOf(Exited(i)) = LiveOf(ptys) \ {i}
  BY <1>1 DEF LiveOf
<1>3. Exited(i) # <<>> /\ ptys # <<>> /\ Len(ptys) \in DOMAIN ptys
  BY <1>1 DEF Sound
<1>4. Exited(i)[Len(ptys)].phase = "signalled" => ptys[Len(ptys)].phase = "signalled"
  BY <1>1, <1>3
<1>5. \A j \in DOMAIN ptys \ {1} : j - 1 \in DOMAIN ptys
  BY DEF Sound
<1>6. \A j \in DOMAIN Exited(i) \ {1} :
        ~(Exited(i)[j].by = "respawn" /\ Exited(i)[j - 1].by = "respawn")
  BY <1>1, <1>5 DEF Sound
<1> QED
  BY <1>1, <1>2, <1>3, <1>4, <1>6 DEF Sound

(* A kill forgets the session and leaves nothing live. *)
LEMMA CloseSound ==
  ASSUME NEW ps, NEW cur, NEW l, Sound(ps, cur, l)
  PROVE  /\ Sound(Closed(ps, cur), NoPty, NoLaunch)
         /\ LiveOf(Closed(ps, cur)) = {}
<1>0. ps \in Seq(Pty)
  BY DEF Sound
<1>1. /\ Closed(ps, cur) \in Seq(Pty) /\ Len(Closed(ps, cur)) = Len(ps)
      /\ DOMAIN Closed(ps, cur) = DOMAIN ps
      /\ \A j \in DOMAIN ps : Closed(ps, cur)[j].by = ps[j].by
                              /\ (j # cur => Closed(ps, cur)[j] = ps[j])
      /\ IsLive(ps, cur) => Closed(ps, cur)[cur].phase = "signalled"
      /\ ~IsLive(ps, cur) => Closed(ps, cur) = ps
  BY <1>0, CloseFacts
<1>2. LiveOf(Closed(ps, cur)) = {}
  BY <1>1 DEF LiveOf, Sound, IsLive, Running
<1>3. \A j \in DOMAIN ps \ {1} : j - 1 \in DOMAIN ps
  BY <1>0
<1>4. \A j \in DOMAIN Closed(ps, cur) \ {1} :
        ~(Closed(ps, cur)[j].by = "respawn" /\ Closed(ps, cur)[j - 1].by = "respawn")
  BY <1>1, <1>3 DEF Sound
<1>5. NoLaunch \in Launch /\ ~NoLaunch.continued
  BY DEF NoLaunch, Launch
<1> QED
  BY <1>1, <1>2, <1>4, <1>5 DEF Sound

-----------------------------------------------------------------------------
(* A spawn, over the processes ps, the store cur and the launch l.           *)

(* What a spawn may rely on: a respawn is fresh and follows no respawn, and only a
   fresh spawn may find a respawned session up. *)
MaySettle(s, ps, cur) ==
  /\ s \in Spawn
  /\ s.by = "respawn" => s.intent = "fresh" /\ ps # <<>> /\ ps[Len(ps)].by # "respawn"
  /\ IsLive(ps, cur) => s.intent = "fresh" \/ ps[Len(ps)].by # "respawn"

(* A launch that is tracked as continued is not a fresh one. *)
LEMMA LaunchFacts ==
  ASSUME TypeOK, NEW s \in Spawn
  PROVE  /\ LaunchOf(s) \in Launch /\ Resumable(s) \in BOOLEAN
         /\ LaunchOf(s).continued => s.intent # "fresh"
         /\ Kickoff(s) => s.intent = "auto" /\ ~(s.known /\ started)
<1>1. s.intent \in Intent /\ s.known \in BOOLEAN /\ started \in BOOLEAN
  BY DEF Spawn, TypeOK
<1>2. Resumable(s) \in BOOLEAN /\ (s.intent = "fresh" => ~Resumable(s))
      /\ (s.intent = "auto" /\ ~Resumable(s) => ~(s.known /\ started))
  BY <1>1 DEF Resumable, Intent, UserIntent
<1> QED
  BY <1>2 DEF LaunchOf, Launch, Kickoff

(* The processes after a launch: the session that was live is kept, or a new one is
   appended, or a self-killing respawn leaves none live. *)
LEMMA LaunchSound ==
  ASSUME TypeOK, NEW s, NEW ps, NEW cur, NEW l, Sound(ps, cur, l), MaySettle(s, ps, cur),
         Launched(s, ps, cur)
  PROVE  /\ Sound(ptys', current', launch')
         /\ Running(ptys') # {} /\ Running(ps) \subseteq Running(ptys')
         /\ SelfKills(s) => LiveOf(ptys') = {}
         /\ ~SelfKills(s) =>
              \/ ptys' = ps /\ current' = cur /\ IsLive(ps, cur)
              \/ /\ LiveOf(ps) = {} /\ LiveOf(ptys') = {Len(ps) + 1}
                 /\ Len(ptys') = Len(ps) + 1 /\ ptys'[Len(ps) + 1].by = s.by
         /\ \A j \in DOMAIN ps : j \in DOMAIN ptys'
                                 /\ (ps[j].phase = "late" => ptys'[j].phase = "late")
<1> DEFINE o == Opened(ps, cur, s.by)
<1>0. ps \in Seq(Pty) /\ s \in Spawn /\ s.by \in By
  BY DEF Sound, MaySettle, Spawn
<1>1. /\ Sound(o.ptys, o.current, LaunchOf(s))
      /\ o.current \in Running(o.ptys) /\ Running(ps) \subseteq Running(o.ptys)
      /\ \A j \in DOMAIN ps : j \in DOMAIN o.ptys /\ o.ptys[j] = ps[j]
      /\ \/ o.ptys = ps /\ o.current = cur /\ IsLive(ps, cur)
         \/ /\ LiveOf(ps) = {} /\ LiveOf(o.ptys) = {Len(ps) + 1}
            /\ Len(o.ptys) = Len(ps) + 1 /\ o.ptys[Len(ps) + 1].by = s.by
  <2>1. CASE IsLive(ps, cur)
    <3>1. o.ptys = ps /\ o.current = cur
      BY <2>1 DEF Opened
    <3>2. cur = Len(ps) /\ ps # <<>> /\ ps[Len(ps)].phase # "signalled"
      BY <2>1 DEF Sound, IsLive, Running, NoPty
    <3>3. LaunchOf(s).continued => ps[Len(ps)].by # "respawn"
      BY <1>0, <2>1, LaunchFacts DEF MaySettle
    <3>4. Sound(ps, cur, LaunchOf(s))
      BY <1>0, <3>2, <3>3, LaunchFacts DEF Sound
    <3> HIDE DEF o
    <3> QED
      BY <2>1, <3>1, <3>4 DEF IsLive
  <2>2. CASE ~IsLive(ps, cur)
    <3>1. /\ o.ptys \in Seq(Pty) /\ Len(o.ptys) = Len(ps) + 1
          /\ DOMAIN o.ptys = DOMAIN ps \cup {Len(ps) + 1}
          /\ \A j \in DOMAIN ps : o.ptys[j] = ps[j]
          /\ o.ptys[Len(ps) + 1].phase = "live" /\ o.ptys[Len(ps) + 1].by = s.by
          /\ o.current = Len(ps) + 1
      BY <1>0, <2>2, OpenFacts
    <3>2. LiveOf(ps) = {}
      BY <2>2 DEF Sound, LiveOf, IsLive, Running
    <3>3. Len(o.ptys) <= MaxPtys
      BY DEF Launched
    <3> HIDE DEF o
    <3>4. LiveOf(o.ptys) = {Len(ps) + 1}
      BY <3>1, <3>2 DEF LiveOf
    <3>5. \A j \in DOMAIN o.ptys \ {1} :
            ~(o.ptys[j].by = "respawn" /\ o.ptys[j - 1].by = "respawn")
      <4> SUFFICES ASSUME NEW j \in DOMAIN o.ptys, j # 1
                   PROVE  ~(o.ptys[j].by = "respawn" /\ o.ptys[j - 1].by = "respawn")
        OBVIOUS
      <4>1. CASE j = Len(ps) + 1
        <5>1. Len(ps) \in DOMAIN ps /\ j - 1 = Len(ps) /\ ps # <<>>
          BY <1>0, <3>1, <4>1
        <5> QED
          BY <3>1, <4>1, <5>1 DEF MaySettle
      <4>2. CASE j # Len(ps) + 1
        <5>1. j \in DOMAIN ps /\ j - 1 \in DOMAIN ps
          BY <1>0, <3>1, <4>2
        <5> QED
          BY <3>1, <5>1 DEF Sound
      <4> QED
        BY <4>1, <4>2
    <3>6. LaunchOf(s).continued => s.by # "respawn"
      BY <1>0, LaunchFacts DEF MaySettle
    <3>7. o.ptys # <<>>
      BY <3>1
    <3>8. Sound(o.ptys, o.current, LaunchOf(s))
      BY <1>0, <3>1, <3>3, <3>4, <3>5, <3>6, <3>7, LaunchFacts DEF Sound
    <3>9. Running(ps) \subseteq Running(o.ptys) /\ o.current \in Running(o.ptys)
      BY <3>1 DEF Running
    <3> QED
      BY <3>1, <3>2, <3>4, <3>8, <3>9
  <2> QED
    BY <2>1, <2>2
<1>2. CASE SelfKills(s)
  <2>1. ptys' = Closed(o.ptys, o.current) /\ current' = NoPty /\ launch' = NoLaunch
    BY <1>2 DEF Launched
  <2> HIDE DEF o
  <2>2. o.ptys \in Seq(Pty)
    BY <1>1 DEF Sound
  <2>3. /\ DOMAIN ptys' = DOMAIN o.ptys /\ Running(ptys') = Running(o.ptys)
        /\ \A j \in DOMAIN o.ptys : j # o.current => ptys'[j] = o.ptys[j]
    BY <2>1, <2>2, CloseFacts
  <2>4. o.ptys[o.current].phase # "late"
    BY <1>1 DEF Running
  <2>5. Sound(ptys', current', launch') /\ LiveOf(ptys') = {}
    BY <1>1, <2>1, CloseSound
  <2> QED
    BY <1>1, <1>2, <2>3, <2>4, <2>5
<1>3. CASE ~SelfKills(s)
  <2>1. ptys' = o.ptys /\ current' = o.current /\ launch' = LaunchOf(s)
    BY <1>3 DEF Launched
  <2> HIDE DEF o
  <2> QED
    BY <1>1, <1>3, <2>1
<1> QED
  BY <1>2, <1>3

(* The registry after a spawn, failed or not: what was known stays known, and a
   kickoff is handed over at most once to claude. *)
LEMMA SettleMarks ==
  ASSUME TypeOK, KickoffMarks, NEW s \in Spawn, NEW ps, NEW cur, NEW l, Settles(s, ps, cur, l),
         UNCHANGED harness, harness = "claude" => s.known = known
  PROVE  /\ known' \in BOOLEAN /\ started' \in BOOLEAN /\ kickoffs' \in Nat
         /\ wstate' \in WriterState
         /\ KickoffMarks'
<1>0. /\ known \in BOOLEAN /\ started \in BOOLEAN /\ kickoffs \in Nat /\ wstate \in WriterState
      /\ Resumable(s) \in BOOLEAN /\ Kickoff(s) \in BOOLEAN
  BY LaunchFacts DEF TypeOK, Kickoff
<1>1. CASE Launched(s, ps, cur)
  <2>1. Registered(s) /\ kickoffs' \in {kickoffs, kickoffs + 1} /\ wstate' = OnInteractiveUp
        /\ (kickoffs' # kickoffs => Kickoff(s))
    BY <1>1 DEF Launched
  <2>2. /\ started' = (started \/ Kickoff(s))
        /\ known' = (known \/ (harness = "claude" /\ ~Resumable(s)))
    BY <2>1 DEF Registered
  <2>3. kickoffs' \in Nat
    BY <1>0, <2>1
  <2>4. known' \in BOOLEAN /\ started' \in BOOLEAN /\ wstate' \in WriterState
    BY <1>0, <2>1, <2>2 DEF OnInteractiveUp, WriterState
  <2>5. ASSUME harness = "claude"
        PROVE  kickoffs' = 0 \/ (kickoffs' = 1 /\ known' /\ started')
    <3>1. CASE kickoffs' = kickoffs
      BY <1>0, <2>2, <2>5, <3>1 DEF KickoffMarks
    <3>2. CASE Kickoff(s)
      <4>1. kickoffs = 0
        BY <2>5, <3>2, LaunchFacts DEF KickoffMarks
      <4>2. kickoffs' = 0 \/ kickoffs' = 1
        BY <2>1, <4>1
      <4>3. ~Resumable(s)
        BY <3>2 DEF Kickoff
      <4> QED
        BY <2>2, <2>5, <3>2, <4>2, <4>3
    <3> QED
      BY <2>1, <3>1, <3>2
  <2> QED
    BY <2>3, <2>4, <2>5 DEF KickoffMarks
<1>2. CASE Failed(s)
  <2>1. kickoffs' = kickoffs /\ wstate' \in WriterState
    BY <1>0, <1>2 DEF Failed, OnInteractiveDown, WriterState
  <2>2. \/ started' = started /\ known' = known
        \/ /\ started' = (started \/ Kickoff(s))
           /\ known' = (known \/ (harness = "claude" /\ ~Resumable(s)))
    BY <1>2 DEF Failed, Registered
  <2>3. /\ known' \in BOOLEAN /\ started' \in BOOLEAN
        /\ (known => known') /\ (started => started')
    BY <1>0, <2>2
  <2> QED
    BY <1>0, <2>1, <2>3 DEF KickoffMarks
<1> QED
  BY <1>1, <1>2 DEF Settles

(* The whole of a spawn's settling, over processes that lost nothing but what an
   exit or a kill took. *)
LEMMA SpawnSettles ==
  ASSUME SInv, NEW s, NEW ps, NEW cur, NEW l, Sound(ps, cur, l), MaySettle(s, ps, cur),
         Settles(s, ps, cur, l), UNCHANGED <<harness, archived, gui>>,
         harness = "claude" => s.known = known,
         \A j \in LiveOf(ps) : j \in Live /\ ps[j].by = ptys[j].by,
         wstate = "INTERACTIVE" /\ s.by # "respawn" =>
            Running(ps) # {} \/ opening'.by = "respawn",
         harness = "claude" /\ (\A j \in DOMAIN ps : ps[j].phase # "late") =>
            wstate # "HEADLESS" /\ (LiveOf(ps) # {} => wstate = "INTERACTIVE" /\ s.by # "respawn"),
         ~gui => (s.by = "respawn" => guiGone) /\ (s.by # "respawn" => harness = "codex"),
         archived => harness = "codex" \/ s.by = "revive",
         guiGone' \in BOOLEAN, opening' \in Spawn \cup {NoSpawn}, restarting' \in BOOLEAN
  PROVE  /\ TypeOK' /\ Sound(ptys', current', launch') /\ KickoffMarks'
         /\ InteractiveIsBacked' /\ SingleWriter'
         /\ NoPtyOutsideGui' /\ ArchivedHasNoPty'
<1>0. /\ TypeOK /\ KickoffMarks /\ s \in Spawn /\ s.by \in By
      /\ NoPtyOutsideGui /\ ArchivedHasNoPty
  BY DEF SInv, MaySettle, Spawn
<1>1. Sound(ptys', current', launch')
  BY <1>0, LaunchSound DEF Settles
<1>2. /\ known' \in BOOLEAN /\ started' \in BOOLEAN /\ kickoffs' \in Nat
      /\ wstate' \in WriterState
      /\ KickoffMarks'
  BY <1>0, SettleMarks
<1>3. TypeOK'
  <2>1. current' \in {NoPty} \cup DOMAIN ptys'
    BY <1>1 DEF Sound, NoPty
  <2> QED
    BY <1>0, <1>1, <1>2, <2>1 DEF TypeOK, Sound
<1>4. ASSUME Launched(s, ps, cur)
      PROVE  /\ InteractiveIsBacked' /\ SingleWriter'
             /\ NoPtyOutsideGui' /\ ArchivedHasNoPty'
  <2>0. /\ Running(ptys') # {} /\ Running(ps) \subseteq Running(ptys')
        /\ SelfKills(s) => LiveOf(ptys') = {}
        /\ ~SelfKills(s) =>
             \/ ptys' = ps /\ current' = cur /\ IsLive(ps, cur)
             \/ /\ LiveOf(ps) = {} /\ LiveOf(ptys') = {Len(ps) + 1}
                /\ Len(ptys') = Len(ps) + 1 /\ ptys'[Len(ps) + 1].by = s.by
        /\ \A j \in DOMAIN ps : j \in DOMAIN ptys'
                                /\ (ps[j].phase = "late" => ptys'[j].phase = "late")
    BY <1>0, <1>4, LaunchSound
  <2>1. InteractiveIsBacked'
    BY <2>0 DEF InteractiveIsBacked
  <2>2. SingleWriter'
    BY <1>4, <2>0 DEF SingleWriter, Launched, OnInteractiveUp
  <2>3. \A i \in LiveOf(ptys') :
          /\ ~SelfKills(s)
          /\ \/ i \in Live /\ ptys'[i].by = ptys[i].by
             \/ ptys'[i].by = s.by
    BY <2>0
  <2>4. Live' = LiveOf(ptys')
    BY DEF Live, LiveOf
  <2>5. NoPtyOutsideGui'
    BY <1>0, <2>3, <2>4 DEF NoPtyOutsideGui, SelfKills, By
  <2>6. ArchivedHasNoPty'
    BY <1>0, <2>3, <2>4 DEF ArchivedHasNoPty
  <2> QED
    BY <2>1, <2>2, <2>5, <2>6
<1>5. ASSUME Failed(s), ptys' = ps, current' = cur, launch' = l
      PROVE  /\ InteractiveIsBacked' /\ SingleWriter'
             /\ NoPtyOutsideGui' /\ ArchivedHasNoPty'
  <2>1. wstate' = "INTERACTIVE" => wstate = "INTERACTIVE" /\ s.by # "respawn"
    BY <1>5 DEF Failed, OnInteractiveDown
  <2>2. InteractiveIsBacked'
    BY <1>5, <2>1 DEF InteractiveIsBacked
  <2>3. Live' = LiveOf(ps)
    BY <1>5 DEF Live, LiveOf
  <2>4. s.by # "respawn" => wstate' = wstate
    BY <1>5 DEF Failed
  <2>5. SingleWriter'
    BY <1>5, <2>3, <2>4 DEF SingleWriter
  <2>6. NoPtyOutsideGui' /\ ArchivedHasNoPty'
    BY <1>0, <1>5, <2>3 DEF NoPtyOutsideGui, ArchivedHasNoPty
  <2> QED
    BY <2>2, <2>5, <2>6
<1> QED
  BY <1>1, <1>2, <1>3, <1>4, <1>5 DEF Settles

-----------------------------------------------------------------------------
(* The actions.                                                              *)

LEMMA InitSound == Init => SInv
<1> SUFFICES ASSUME Init PROVE SInv
  OBVIOUS
<1>1. ptys = <<>> /\ DOMAIN ptys = {} /\ current = NoPty /\ launch = NoLaunch
      /\ opening = NoSpawn /\ restarting = FALSE /\ kickoffs = 0 /\ guiGone = FALSE
      /\ archived = FALSE /\ wstate # "INTERACTIVE"
  BY DEF Init
<1>2. opening.by = "nobody" /\ ~IsLive(ptys, current)
  BY <1>1 DEF NoSpawn, IsLive, Running
<1>3. Sound(ptys, current, launch)
  BY <1>1, MaxPtysAssumption DEF Sound, LiveOf, NoLaunch, Launch, NoPty
<1>4. TypeOK
  <2>1. harness \in Harnesses /\ wstate \in WriterState
    BY DEF Init, WriterState
  <2>2. gui \in BOOLEAN /\ known \in BOOLEAN /\ started \in BOOLEAN
    BY DEF Init
  <2>3. ptys \in Seq(Pty) /\ Len(ptys) <= MaxPtys /\ launch \in Launch
    BY <1>3 DEF Sound
  <2> QED
    BY <1>1, <2>1, <2>2, <2>3 DEF TypeOK
<1>5. CodexPrepares /\ Prepared /\ KickoffMarks /\ TeardownGuarded
  BY <1>1, <1>2 DEF CodexPrepares, Prepared, KickoffMarks, TeardownGuarded
<1>6. InteractiveIsBacked /\ SingleWriter /\ NoPtyOutsideGui /\ ArchivedHasNoPty
  BY <1>1 DEF InteractiveIsBacked, SingleWriter, NoPtyOutsideGui, ArchivedHasNoPty, Live
<1> QED
  BY <1>3, <1>4, <1>5, <1>6 DEF SInv

(* A preparation is not nobody's. *)
LEMMA SpawnIsSomebodys ==
  /\ \A s \in Spawn : s # NoSpawn /\ s.by # "nobody"
  /\ NoSpawn.by = "nobody"
<1>1. \A s \in Spawn : s.by \in By
  BY DEF Spawn
<1> QED
  BY <1>1 DEF NoSpawn, By, UserSpawn

LEMMA OpenOrAttachStep ==
  ASSUME SInv, NEW intent \in UserIntent, OpenOrAttach(intent)
  PROVE  SInv'
<1>0. /\ TypeOK /\ Sound(ptys, current, launch) /\ gui /\ ~IsLive(ptys, current)
      /\ wstate \notin {"HEADLESS", "BROKEN"} /\ opening = NoSpawn /\ guiGone' = FALSE
      /\ UNCHANGED <<harness, archived, gui, restarting>>
  BY DEF SInv, OpenOrAttach, MayAttach
<1>1. PICK s : s = [by |-> ByUser("open"), intent |-> intent, known |-> known]
  OBVIOUS
<1>2. /\ s \in Spawn /\ s.by # "respawn" /\ s.known = known
      /\ archived => s.by = "revive"
  BY <1>0, <1>1 DEF Spawn, By, UserSpawn, ByUser, Intent, TypeOK
<1>3. LiveOf(ptys) = {} /\ Live = {}
  BY <1>0 DEF Sound, IsLive, Running, LiveOf, Live
<1>4. CASE harness = "claude" /\ Settles(s, ptys, current, launch) /\ UNCHANGED opening
  <2>1. MaySettle(s, ptys, current)
    BY <1>0, <1>2 DEF MaySettle
  <2>2. /\ guiGone' \in BOOLEAN /\ opening' \in Spawn \cup {NoSpawn} /\ restarting' \in BOOLEAN
        /\ opening' = NoSpawn /\ opening'.by = "nobody" /\ opening.by = "nobody"
    BY <1>0, <1>4, SpawnIsSomebodys DEF TypeOK
  <2>3. wstate = "INTERACTIVE" => Running(ptys) # {}
    BY <2>2 DEF SInv, InteractiveIsBacked
  <2>4. /\ TypeOK' /\ Sound(ptys', current', launch') /\ KickoffMarks'
        /\ InteractiveIsBacked' /\ SingleWriter'
        /\ NoPtyOutsideGui' /\ ArchivedHasNoPty'
    BY <1>0, <1>2, <1>3, <1>4, <2>1, <2>2, <2>3, SpawnSettles
  <2>5. CodexPrepares' /\ Prepared' /\ TeardownGuarded'
    BY <1>0, <1>4, <2>2 DEF SInv, CodexPrepares, Prepared, TeardownGuarded
  <2> QED
    BY <2>4, <2>5 DEF SInv
<1>5. CASE /\ harness = "codex" /\ opening' = s
           /\ UNCHANGED <<ptyVars, known, started, kickoffs, wstate>>
  <2>1. TypeOK'
    BY <1>0, <1>2, <1>5 DEF TypeOK, ptyVars
  <2>2. Prepared'
    BY <1>0, <1>2, <1>5 DEF Prepared, ptyVars
  <2>3. CodexPrepares' /\ TeardownGuarded' /\ KickoffMarks'
    BY <1>0, <1>5 DEF CodexPrepares, TeardownGuarded, KickoffMarks
  <2>4. InteractiveIsBacked'
    BY <1>0, <1>5, SpawnIsSomebodys DEF SInv, InteractiveIsBacked, ptyVars
  <2>5. SingleWriter' /\ NoPtyOutsideGui' /\ ArchivedHasNoPty'
    BY <1>0, <1>5 DEF SInv, SingleWriter, NoPtyOutsideGui, ArchivedHasNoPty, ptyVars, Live
  <2> QED
    BY <1>0, <1>5, <2>1, <2>2, <2>3, <2>4, <2>5 DEF SInv, ptyVars
<1> QED
  BY <1>1, <1>4, <1>5 DEF OpenOrAttach

LEMMA OpeningSettlesStep == ASSUME SInv, OpeningSettles PROVE SInv'
<1>0. /\ TypeOK /\ Sound(ptys, current, launch) /\ opening # NoSpawn /\ opening' = NoSpawn
      /\ Settles(opening, ptys, current, launch) /\ harness = "codex"
      /\ UNCHANGED <<harness, archived, gui, guiGone, restarting>>
      /\ opening \in Spawn
  BY HarnessesAssumption DEF SInv, OpeningSettles, guiVars, TypeOK, CodexPrepares
<1>1. MaySettle(opening, ptys, current)
  BY <1>0 DEF MaySettle, SInv, Prepared
<1>2. /\ guiGone' \in BOOLEAN /\ opening' \in Spawn \cup {NoSpawn} /\ restarting' \in BOOLEAN
      /\ opening'.by = "nobody"
  BY <1>0, SpawnIsSomebodys DEF TypeOK
<1>3. wstate = "INTERACTIVE" /\ opening.by # "respawn" => Running(ptys) # {}
  BY DEF SInv, InteractiveIsBacked
<1>4. ~gui => guiGone
  BY <1>0 DEF SInv, TeardownGuarded
<1>5. \A j \in LiveOf(ptys) : j \in Live
  BY DEF Live, LiveOf
<1>6. /\ TypeOK' /\ Sound(ptys', current', launch') /\ KickoffMarks'
      /\ InteractiveIsBacked' /\ SingleWriter'
      /\ NoPtyOutsideGui' /\ ArchivedHasNoPty'
  BY <1>0, <1>1, <1>2, <1>3, <1>4, <1>5, SpawnSettles
<1>7. CodexPrepares' /\ Prepared' /\ TeardownGuarded'
  BY <1>0, <1>2, <1>4 DEF CodexPrepares, Prepared, TeardownGuarded
<1> QED
  BY <1>6, <1>7 DEF SInv

(* An exit, and the respawn it may set off: the PTY that exited was the last one
   spawned, or it is late. *)
LEMMA PtyExitsStep ==
  ASSUME SInv, NEW i \in DOMAIN ptys, PtyExits(i)
  PROVE  SInv'
<1>0. /\ TypeOK /\ Sound(ptys, current, launch) /\ i \in Running(ptys)
      /\ UNCHANGED <<harness, archived, gui, guiGone, restarting>>
  BY DEF SInv, PtyExits, guiVars
<1>1. PICK s : s = [by |-> "respawn", intent |-> "fresh", known |-> known]
  OBVIOUS
<1>2. s \in Spawn /\ s.by = "respawn" /\ s.intent = "fresh" /\ s.known = known
  BY <1>0, <1>1 DEF Spawn, By, Intent, TypeOK
<1>3. /\ Exited(i) \in Seq(Pty) /\ Len(Exited(i)) = Len(ptys)
      /\ DOMAIN Exited(i) = DOMAIN ptys
      /\ \A j \in DOMAIN ptys : Exited(i)[j].by = ptys[j].by
                                /\ (j # i => Exited(i)[j] = ptys[j])
      /\ Exited(i)[i].phase = IF i < Len(ptys) THEN "late" ELSE "exited"
  BY <1>0, ExitFacts DEF Sound
<1>4. Sound(Exited(i), current, launch) /\ LiveOf(Exited(i)) = LiveOf(ptys) \ {i}
  BY <1>0, ExitSound
<1>5. \A j \in LiveOf(Exited(i)) : j \in Live /\ Exited(i)[j].by = ptys[j].by
  BY <1>3, <1>4 DEF Live, LiveOf
<1>6. ASSUME \A j \in DOMAIN Exited(i) : Exited(i)[j].phase # "late"
      PROVE  /\ i = Len(ptys) /\ LiveOf(Exited(i)) = {}
             /\ \A j \in DOMAIN ptys : ptys[j].phase # "late"
  <2>1. i = Len(ptys)
    BY <1>0, <1>3, <1>6 DEF Sound
  <2>2. \A j \in LiveOf(ptys) : j = Len(ptys)
    BY <1>0 DEF Sound, LiveOf, NoPty
  <2> QED
    BY <1>0, <1>3, <1>4, <1>6, <2>1, <2>2 DEF Running
<1>7. ptys # <<>> /\ Exited(i) # <<>>
  BY <1>0, <1>3 DEF Sound
<1>8. IsLive(Exited(i), current) => IsLive(ptys, current)
  BY <1>0, <1>3 DEF IsLive, Running
<1>9. CASE /\ ~MayRespawn /\ ptys' = Exited(i) /\ OnInteractiveDown
           /\ UNCHANGED <<current, launch, opening, known, started, kickoffs>>
  <2>0. wstate' # "INTERACTIVE" /\ wstate' \in WriterState
    BY <1>0, <1>9 DEF OnInteractiveDown, TypeOK, WriterState
  <2>1. Sound(ptys', current', launch') /\ Live' = LiveOf(Exited(i))
    BY <1>4, <1>9 DEF Live, LiveOf
  <2>2. TypeOK'
    BY <1>0, <1>3, <1>9, <2>0, <2>1 DEF TypeOK, Sound
  <2>3. CodexPrepares' /\ KickoffMarks' /\ TeardownGuarded'
    BY <1>0, <1>7, <1>9 DEF SInv, CodexPrepares, KickoffMarks, TeardownGuarded
  <2>4. Prepared'
    BY <1>0, <1>3, <1>7, <1>8, <1>9 DEF SInv, Prepared, Sound
  <2>5. InteractiveIsBacked' /\ SingleWriter'
    BY <1>6, <1>9, <2>0, <2>1 DEF InteractiveIsBacked, SingleWriter
  <2>6. NoPtyOutsideGui' /\ ArchivedHasNoPty'
    BY <1>0, <1>5, <1>9, <2>1 DEF SInv, NoPtyOutsideGui, ArchivedHasNoPty
  <2> QED
    BY <2>1, <2>2, <2>3, <2>4, <2>5, <2>6 DEF SInv
<1>10. ASSUME MayRespawn
       PROVE  /\ opening = NoSpawn /\ ~archived /\ (~gui => guiGone)
              /\ ptys[Len(ptys)].by # "respawn" /\ Len(ptys) \in DOMAIN ptys
              /\ ptys[Len(ptys)].phase # "signalled"
  BY <1>0, <1>7, <1>10 DEF MayRespawn, SInv, TeardownGuarded, Sound, NoLaunch
<1>11. CASE MayRespawn /\ harness = "claude" /\ Settles(s, Exited(i), current, launch)
            /\ UNCHANGED opening
  <2>1. MaySettle(s, Exited(i), current)
    BY <1>2, <1>3, <1>7, <1>10, <1>11 DEF MaySettle
  <2>2. /\ guiGone' \in BOOLEAN /\ opening' \in Spawn \cup {NoSpawn} /\ restarting' \in BOOLEAN
        /\ opening' = NoSpawn /\ opening'.by = "nobody"
    BY <1>0, <1>10, <1>11, SpawnIsSomebodys DEF TypeOK
  <2>3. (\A j \in DOMAIN Exited(i) : Exited(i)[j].phase # "late") =>
           wstate # "HEADLESS" /\ LiveOf(Exited(i)) = {}
    <3> SUFFICES ASSUME \A j \in DOMAIN Exited(i) : Exited(i)[j].phase # "late"
                 PROVE  wstate # "HEADLESS" /\ LiveOf(Exited(i)) = {}
      OBVIOUS
    <3>1. i \in Live
      BY <1>0, <1>6, <1>10, <1>11 DEF Running, Live
    <3> QED
      BY <1>6, <1>11, <3>1 DEF SInv, SingleWriter
  <2>4. /\ TypeOK' /\ Sound(ptys', current', launch') /\ KickoffMarks'
        /\ InteractiveIsBacked' /\ SingleWriter'
        /\ NoPtyOutsideGui' /\ ArchivedHasNoPty'
    BY <1>0, <1>2, <1>4, <1>5, <1>10, <1>11, <2>1, <2>2, <2>3, SpawnSettles
  <2>5. CodexPrepares' /\ Prepared' /\ TeardownGuarded'
    BY <1>0, <1>10, <1>11, <2>2 DEF SInv, CodexPrepares, Prepared, TeardownGuarded
  <2> QED
    BY <2>4, <2>5 DEF SInv
<1>12. CASE /\ MayRespawn /\ harness = "codex" /\ ptys' = Exited(i) /\ opening' = s
            /\ UNCHANGED <<current, launch, known, started, kickoffs, wstate>>
  <2>1. Sound(ptys', current', launch') /\ Live' = LiveOf(Exited(i))
    BY <1>4, <1>12 DEF Live, LiveOf
  <2>2. TypeOK'
    BY <1>0, <1>2, <1>3, <1>12, <2>1 DEF TypeOK, Sound
  <2>3. CodexPrepares' /\ KickoffMarks' /\ TeardownGuarded'
    BY <1>0, <1>10, <1>12 DEF CodexPrepares, KickoffMarks, TeardownGuarded
  <2>4. Prepared'
    BY <1>2, <1>3, <1>7, <1>10, <1>12 DEF Prepared
  <2>5. InteractiveIsBacked' /\ SingleWriter'
    BY <1>0, <1>2, <1>12 DEF InteractiveIsBacked, SingleWriter
  <2>6. NoPtyOutsideGui' /\ ArchivedHasNoPty'
    BY <1>0, <1>5, <1>12, <2>1 DEF SInv, NoPtyOutsideGui, ArchivedHasNoPty
  <2> QED
    BY <2>1, <2>2, <2>3, <2>4, <2>5, <2>6 DEF SInv
<1> QED
  BY <1>1, <1>9, <1>11, <1>12 DEF PtyExits

(* restart: the session is killed first, so that nothing is live when the spawn
   settles, at once or once codex is prepared. *)
LEMMA RestartStep == ASSUME SInv, Restart PROVE SInv'
<1> DEFINE ps == Closed(ptys, current)
<1>0. /\ TypeOK /\ Sound(ptys, current, launch) /\ gui /\ wstate = "BROKEN"
      /\ UNCHANGED <<harness, archived, gui, guiGone, opening>>
  BY DEF SInv, Restart, guiVars
<1>1. PICK s : s = [by |-> ByUser("restart"), intent |-> "fresh", known |-> known]
  OBVIOUS
<1>2. /\ s \in Spawn /\ s.by # "respawn" /\ s.known = known /\ s.intent = "fresh"
      /\ archived => s.by = "revive"
  BY <1>0, <1>1 DEF Spawn, By, UserSpawn, ByUser, Intent, TypeOK
<1>3. Sound(ps, NoPty, NoLaunch) /\ LiveOf(ps) = {}
  BY <1>0, CloseSound
<1>4. /\ Len(ps) = Len(ptys) /\ Running(ps) = Running(ptys)
      /\ \A j \in DOMAIN ptys : j \in DOMAIN ps /\ ps[j].by = ptys[j].by
  BY <1>0, CloseFacts DEF Sound
<1>5. CASE harness = "claude" /\ Settles(s, ps, NoPty, NoLaunch) /\ UNCHANGED restarting
  <2>1. MaySettle(s, ps, NoPty)
    BY <1>2 DEF MaySettle
  <2>2. /\ guiGone' \in BOOLEAN /\ opening' \in Spawn \cup {NoSpawn} /\ restarting' \in BOOLEAN
        /\ opening = NoSpawn /\ opening'.by = "nobody"
    BY <1>0, <1>5, SpawnIsSomebodys DEF SInv, CodexPrepares, TypeOK
  <2> HIDE DEF ps
  <2>3. /\ TypeOK' /\ Sound(ptys', current', launch') /\ KickoffMarks'
        /\ InteractiveIsBacked' /\ SingleWriter'
        /\ NoPtyOutsideGui' /\ ArchivedHasNoPty'
    BY <1>0, <1>2, <1>3, <1>5, <2>1, <2>2, SpawnSettles
  <2>4. CodexPrepares' /\ Prepared' /\ TeardownGuarded'
    BY <1>0, <1>5, <2>2 DEF SInv, CodexPrepares, Prepared, TeardownGuarded
  <2> QED
    BY <2>3, <2>4 DEF SInv
<1>6. CASE /\ harness = "codex"
           /\ ptys' = ps /\ current' = NoPty /\ launch' = NoLaunch /\ restarting' = TRUE
           /\ UNCHANGED <<known, started, kickoffs, wstate>>
  <2>1. Sound(ptys', current', launch') /\ Live' = {}
    BY <1>3, <1>6 DEF Live, LiveOf
  <2>2. TypeOK'
    BY <1>0, <1>6, <2>1 DEF TypeOK, Sound
  <2> HIDE DEF ps
  <2>3. ~IsLive(ptys', current')
    BY <1>6, <2>1 DEF Sound, IsLive, Running, NoPty
  <2>4. Prepared'
    <3>1. ptys # <<>> => Len(ptys) \in DOMAIN ptys /\ ps # <<>>
      BY <1>0, <1>3, <1>4 DEF Sound
    <3> QED
      BY <1>0, <1>4, <1>6, <2>3, <3>1 DEF SInv, Prepared
  <2>5. CodexPrepares' /\ KickoffMarks' /\ TeardownGuarded'
    BY <1>0, <1>6 DEF CodexPrepares, KickoffMarks, TeardownGuarded
  <2>6. InteractiveIsBacked' /\ SingleWriter' /\ NoPtyOutsideGui' /\ ArchivedHasNoPty'
    BY <1>0, <1>6, <2>1 DEF InteractiveIsBacked, SingleWriter, NoPtyOutsideGui, ArchivedHasNoPty
  <2> QED
    BY <2>1, <2>2, <2>4, <2>5, <2>6 DEF SInv
<1> QED
  BY <1>1, <1>5, <1>6 DEF Restart

LEMMA RestartSettlesStep == ASSUME SInv, RestartSettles PROVE SInv'
<1>0. /\ TypeOK /\ Sound(ptys, current, launch) /\ restarting /\ restarting' = FALSE
      /\ harness = "codex" /\ UNCHANGED <<harness, archived, gui, guiGone, opening>>
  BY HarnessesAssumption DEF SInv, RestartSettles, guiVars, TypeOK, CodexPrepares
<1>1. PICK s : s = [by |-> "restart", intent |-> "fresh", known |-> known]
  OBVIOUS
<1>2. s \in Spawn /\ s.by = "restart" /\ s.intent = "fresh" /\ s.by # "respawn"
  BY <1>0, <1>1 DEF Spawn, By, UserSpawn, Intent, TypeOK
<1>3. Settles(s, ptys, current, launch) /\ MaySettle(s, ptys, current)
  BY <1>1, <1>2 DEF RestartSettles, MaySettle
<1>4. /\ guiGone' \in BOOLEAN /\ opening' \in Spawn \cup {NoSpawn} /\ restarting' \in BOOLEAN
      /\ ~gui => guiGone
  BY <1>0 DEF TypeOK, SInv, TeardownGuarded
<1>5. wstate = "INTERACTIVE" => Running(ptys) # {} \/ opening'.by = "respawn"
  BY <1>0 DEF SInv, InteractiveIsBacked
<1>6. \A j \in LiveOf(ptys) : j \in Live
  BY DEF Live, LiveOf
<1>7. /\ TypeOK' /\ Sound(ptys', current', launch') /\ KickoffMarks'
      /\ InteractiveIsBacked' /\ SingleWriter'
      /\ NoPtyOutsideGui' /\ ArchivedHasNoPty'
  BY <1>0, <1>2, <1>3, <1>4, <1>5, <1>6, SpawnSettles
<1>8. Prepared'
  <2>1. CASE Launched(s, ptys, current)
    <3>1. ~SelfKills(s)
      BY <1>2 DEF SelfKills
    <3>2. \/ ptys' = ptys /\ current' = current
          \/ Len(ptys') = Len(ptys) + 1 /\ ptys'[Len(ptys) + 1].by = "restart"
      BY <1>0, <1>2, <1>3, <2>1, <3>1, LaunchSound
    <3>3. CASE ptys' = ptys /\ current' = current
      BY <1>0, <3>3 DEF SInv, Prepared
    <3>4. CASE Len(ptys') = Len(ptys) + 1 /\ ptys'[Len(ptys) + 1].by = "restart"
      <4>1. ptys' # <<>> /\ ptys'[Len(ptys')].by # "respawn"
        BY <1>0, <3>4 DEF Sound
      <4> QED
        BY <1>0, <4>1 DEF SInv, Prepared
    <3> QED
      BY <3>2, <3>3, <3>4
  <2>2. CASE ptys' = ptys /\ current' = current
    BY <1>0, <2>2 DEF SInv, Prepared
  <2> QED
    BY <1>3, <2>1, <2>2 DEF Settles
<1>9. CodexPrepares' /\ TeardownGuarded'
  BY <1>0, <1>4 DEF CodexPrepares, TeardownGuarded
<1> QED
  BY <1>7, <1>8, <1>9 DEF SInv

(* A kill: nothing is live, the same PTYs are running. *)
LEMMA KillStep ==
  ASSUME SInv, Killed, UNCHANGED <<harness, known, started, kickoffs, spawnVars, wstate>>,
         gui' \in BOOLEAN, guiGone' \in BOOLEAN, archived' \in BOOLEAN,
         ~gui' => guiGone' \/ (~gui /\ guiGone' = guiGone)
  PROVE  SInv'
<1>0. /\ TypeOK /\ Sound(ptys, current, launch) /\ opening' = opening /\ restarting' = restarting
      /\ ptys' = Closed(ptys, current) /\ current' = NoPty /\ launch' = NoLaunch
  BY DEF SInv, Killed, spawnVars
<1>1. Sound(ptys', current', launch') /\ Live' = {}
  BY <1>0, CloseSound DEF Live, LiveOf
<1>2. /\ Len(ptys') = Len(ptys) /\ Running(ptys') = Running(ptys)
      /\ \A j \in DOMAIN ptys : j \in DOMAIN ptys' /\ ptys'[j].by = ptys[j].by
  BY <1>0, CloseFacts DEF Sound
<1>3. TypeOK'
  BY <1>0, <1>1 DEF TypeOK, Sound
<1>4. ~IsLive(ptys', current')
  BY <1>0, <1>1 DEF Sound, IsLive, Running, NoPty
<1>5. (ptys # <<>> => Len(ptys) \in DOMAIN ptys /\ ptys' # <<>>) /\ (ptys = <<>> => ptys' = <<>>)
  BY <1>0, <1>1, <1>2 DEF Sound
<1>6. Prepared'
  BY <1>0, <1>2, <1>4, <1>5 DEF SInv, Prepared
<1>7. CodexPrepares' /\ KickoffMarks' /\ TeardownGuarded'
  BY <1>0, <1>5 DEF SInv, CodexPrepares, KickoffMarks, TeardownGuarded
<1>8. InteractiveIsBacked' /\ SingleWriter' /\ NoPtyOutsideGui' /\ ArchivedHasNoPty'
  BY <1>0, <1>1, <1>2
  DEF SInv, InteractiveIsBacked, SingleWriter, NoPtyOutsideGui, ArchivedHasNoPty
<1> QED
  BY <1>1, <1>3, <1>6, <1>7, <1>8 DEF SInv

(* Steps that leave the processes and the spawns alone. *)
LEMMA OtherStep ==
  ASSUME SInv,
         \/ Attach \/ Adopted \/ GuiPresent \/ GuardLapses \/ Fire \/ HeadlessExited
         \/ UNCHANGED vars
  PROVE  SInv'
<1> USE DEF agentVars, guiVars, ptyVars, spawnVars, vars
<1>0. /\ TypeOK /\ Sound(ptys, current, launch)
      /\ ptys' = ptys /\ current' = current /\ opening' = opening /\ restarting' = restarting
      /\ harness' = harness /\ archived' = archived /\ kickoffs' = kickoffs
      /\ started' = started
  BY DEF SInv, Attach, Adopted, GuiPresent, GuardLapses, Fire, HeadlessExited
<1>1. /\ known' \in BOOLEAN /\ (known => known')
      /\ gui' \in BOOLEAN /\ guiGone' \in BOOLEAN /\ (~gui' => ~gui /\ guiGone' = guiGone)
  BY <1>0 DEF Attach, Adopted, GuiPresent, GuardLapses, Fire, HeadlessExited, TypeOK
<1>2. \/ launch' = launch
      \/ /\ launch' \in Launch /\ launch'.continued = launch.continued
         /\ launch # NoLaunch
  <2>1. CASE GuardLapses
    <3>1. launch \in Launch /\ launch.recent /\ launch' = [launch EXCEPT !.recent = FALSE]
      BY <1>0, <2>1 DEF GuardLapses, TypeOK
    <3>2. launch' \in Launch
      BY <3>1 DEF Launch
    <3>3. launch'.continued = launch.continued
      BY <3>1 DEF Launch
    <3>4. NoLaunch.recent = FALSE
      BY DEF NoLaunch
    <3> QED
      BY <3>1, <3>2, <3>3, <3>4
  <2> QED
    BY <2>1 DEF Attach, Adopted, GuiPresent, Fire, HeadlessExited
<1>3. Sound(ptys', current', launch')
  BY <1>0, <1>2 DEF Sound
<1>4. \/ wstate' = wstate
      \/ wstate = "OFFLINE" /\ wstate' = "HEADLESS"
      \/ wstate = "HEADLESS" /\ wstate' \in {"OFFLINE", "BROKEN"}
  BY DEF Attach, Adopted, GuiPresent, GuardLapses, Fire, HeadlessExited
<1>5. TypeOK'
  <2>1. wstate' \in WriterState
    BY <1>0, <1>4 DEF TypeOK, WriterState
  <2>2. launch' \in Launch
    BY <1>3 DEF Sound
  <2> QED
    BY <1>0, <1>1, <2>1, <2>2 DEF TypeOK
<1>6. CodexPrepares' /\ Prepared' /\ KickoffMarks' /\ TeardownGuarded'
  BY <1>0, <1>1 DEF SInv, CodexPrepares, Prepared, KickoffMarks, TeardownGuarded, IsLive, Running
<1>7. Live' = Live /\ Running(ptys') = Running(ptys)
  BY <1>0 DEF Live
<1>8. InteractiveIsBacked' /\ SingleWriter'
  BY <1>0, <1>4, <1>7 DEF SInv, InteractiveIsBacked, SingleWriter
<1>9. NoPtyOutsideGui' /\ ArchivedHasNoPty'
  BY <1>0, <1>1, <1>7 DEF SInv, NoPtyOutsideGui, ArchivedHasNoPty
<1> QED
  BY <1>3, <1>5, <1>6, <1>8, <1>9 DEF SInv

LEMMA SessionStep == SInv /\ [Next]_vars => SInv'
<1> SUFFICES ASSUME SInv, [Next]_vars PROVE SInv'
  OBVIOUS
<1>0. TypeOK
  BY DEF SInv
<1>1. CASE Kill
  BY <1>0, <1>1, KillStep DEF Kill, agentVars, guiVars, TypeOK
<1>2. CASE Archive
  BY <1>0, <1>2, KillStep DEF Archive, guiVars, TypeOK
<1>3. CASE GuiGone
  <2>1. CASE current # NoPty
    BY <1>0, <1>3, <2>1, KillStep DEF GuiGone, agentVars, TypeOK
  <2>2. CASE current = NoPty
    <3>1. IsLive(ptys, current) = FALSE
      BY <1>0, <2>2 DEF IsLive, Running, NoPty, TypeOK
    <3>2. /\ UNCHANGED <<agentVars, ptyVars, spawnVars, wstate>>
          /\ gui' = FALSE /\ guiGone' = TRUE
      BY <1>3, <2>2 DEF GuiGone
    <3>3. Live = {}
      BY <1>0, <2>2 DEF SInv, Sound, LiveOf, Live, NoPty
    <3>4. NoPtyOutsideGui'
      BY <3>2, <3>3 DEF NoPtyOutsideGui, Live, ptyVars
    <3>5. TypeOK' /\ CodexPrepares' /\ Prepared' /\ KickoffMarks' /\ TeardownGuarded'
      BY <3>2 DEF SInv, TypeOK, CodexPrepares, Prepared, KickoffMarks, TeardownGuarded,
                  agentVars, ptyVars, spawnVars
    <3>6. Sound(ptys', current', launch')
      BY <3>2 DEF SInv, ptyVars
    <3>7. InteractiveIsBacked' /\ SingleWriter' /\ ArchivedHasNoPty'
      BY <3>2 DEF SInv, InteractiveIsBacked, SingleWriter, ArchivedHasNoPty, Live,
                  agentVars, ptyVars, spawnVars
    <3> QED
      BY <3>4, <3>5, <3>6, <3>7 DEF SInv
  <2> QED
    BY <2>1, <2>2
<1>4. CASE \/ Attach \/ Adopted \/ GuiPresent \/ GuardLapses \/ Fire \/ HeadlessExited
           \/ UNCHANGED vars
  BY <1>4, OtherStep
<1>5. CASE \/ \E intent \in UserIntent : OpenOrAttach(intent)
           \/ OpeningSettles \/ (\E i \in DOMAIN ptys : PtyExits(i))
           \/ Restart \/ RestartSettles
  BY <1>5, OpenOrAttachStep, OpeningSettlesStep, PtyExitsStep, RestartStep, RestartSettlesStep
<1> QED
  BY <1>1, <1>2, <1>3, <1>4, <1>5 DEF Next

(* The inductive invariant: the last PTY spawned is the store's session or the store is
   empty; what may be respawned is no respawn; the teardown guard and the registry's marks
   are there when they are needed. *)
THEOREM SessionsInductive == Spec => []SInv
<1> QED
  BY InitSound, SessionStep, PTL DEF Spec

(* The writer, the store and the processes agree on the session, for any number of
   PTYs: none is lost, an INTERACTIVE writer has one to wait for, and a claude session
   is the only writer. *)
THEOREM WriterAgrees == Spec => []WriterKnowsSessions
<1>1. SInv => WriterKnowsSessions
  BY DEF SInv, WriterKnowsSessions, NoStrayPty, Sound, Live, LiveOf
<1> QED
  BY <1>1, SessionsInductive, PTL

(* No kickoff is delivered twice to claude, no respawn follows a respawn, and no
   session outlives the GUI or the agent. *)
THEOREM SessionsHaveReason == Spec => []SessionsJustified
<1>1. SInv => SessionsJustified
  <2> SUFFICES ASSUME SInv PROVE SessionsJustified
    OBVIOUS
  <2>1. KickoffOnce
    BY DEF SInv, KickoffMarks, KickoffOnce
  <2>2. RespawnsDoNotChain
    BY DEF SInv, Sound, RespawnsDoNotChain
  <2> QED
    BY <2>1, <2>2 DEF SInv, SessionsJustified, LaunchedOnce, NoLeftoverPty
<1> QED
  BY <1>1, SessionsInductive, PTL
=============================================================================
